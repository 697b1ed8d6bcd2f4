------------------------------- MODULE Lexer -------------------------------
(***************************************************************************)
(* The two lexers: of C in p.c, of object files in w.c.  Each reads lines  *)
(* with fetchline when its buffer is used up and moves by one character at *)
(* a time; peekt drops spaces and comments and gives up on what is no      *)
(* token.                                                                  *)
(***************************************************************************)
EXTENDS Tokens, SequencesExt

CONSTANTS Files,       \* [lang: {"c", "wat"}, lines: sequences of characters without their newlines]
          Syntax(_, _) \* what the syntax of tokens says of a text of a language: [tokens, ok]

VARIABLES file,        \* the file
          lines,       \* its lines still to be read
          chars, curi, \* the buffer of characters and the position in it
          state, long, \* state of the automaton; whether an L was read first
          token,       \* text of the token so far
          depth,       \* of block comments, in object files
          tokens,      \* tokens delivered, newlines of C among them
          outcome      \* "reading", "end" or "illegal"
vars == <<file, lines, chars, curi, state, long, token, depth, tokens, outcome>>

lang == file.lang
Rows == IF lang = "c" THEN CRows ELSE WatRows
\* The arcs of each state by character; 0 stands for none.
ArcIn(row, x) == SelectInSeq(row.arcs, LAMBDA a : x \in a.chars)
CArcs == [s \in DOMAIN CRows |-> [x \in Char |-> ArcIn(CRows[s], x)]]
WatArcs == [s \in DOMAIN WatRows |-> [x \in Char |-> ArcIn(WatRows[s], x)]]
Init == /\ file \in Files
        /\ lines = file.lines /\ chars = <<>> /\ curi = 0
        /\ state = "0" /\ long = FALSE /\ token = <<>> /\ depth = 0
        /\ tokens = <<>> /\ outcome = "reading"

\* readchar: from the buffer, or the newline fetchline returns with a new line.
UsedUp == curi >= Len(chars)
c == CASE ~UsedUp -> chars[curi + 1]
       [] lines # <<>> -> "\n"
       [] OTHER -> EndOfFile

\* A line of C that ends in a backslash is joined with the next one.
Joined(line) == IF line # <<>> /\ Last(line) = "\\" THEN Front(line) ELSE Append(line, "\n")
\* fetchline: C adds the line to the buffer, the reader of object files replaces it.
FetchLine == /\ lines' = Tail(lines)
             /\ chars' = IF lang = "c" THEN chars \o Joined(Head(lines)) ELSE Append(Head(lines), "\n")
Fetch == CASE ~UsedUp -> UNCHANGED <<lines, chars>>
           [] c = EndOfFile -> UNCHANGED lines /\ chars' = IF lang = "c" THEN chars ELSE <<>>
           [] OTHER -> FetchLine
Position == CASE ~UsedUp -> curi + 1
              [] c # EndOfFile /\ lang = "wat" -> 0
              [] OTHER -> curi

Arcs == Rows[state].arcs
Taken == IF c = EndOfFile THEN 0 ELSE IF lang = "c" THEN CArcs[state][c] ELSE WatArcs[state][c]
Stored == IF Arcs[Taken].store THEN Append(token, c) ELSE token

\* The next token begins.
Restart == state' = "0" /\ long' = FALSE /\ token' = <<>>

\* peekt with the token lex returned: spaces and comments are dropped.
Deliver(kind, text) ==
  LET t == IF lang = "c" THEN CToken(kind, long, text) ELSE WatToken(kind, text)
  IN  CASE kind = "EOF" -> /\ outcome' = IF c = EndOfFile THEN "end" ELSE "illegal"
                           /\ UNCHANGED tokens
        [] lang = "c" /\ text = <<"\n">> ->
             /\ tokens' = IF tokens = <<>> \/ Last(tokens).kind = "NEWLINE" THEN tokens
                          ELSE Append(tokens, [kind |-> "NEWLINE", text |-> text])
             /\ UNCHANGED outcome
        [] kind \in {"WHITESPACE", "LC"} -> UNCHANGED <<tokens, outcome>>
        [] OTHER -> tokens' = Append(tokens, t) /\ UNCHANGED outcome

\* A character that leads on.
Shift == /\ outcome = "reading" /\ Taken # 0 /\ Arcs[Taken].to \in DOMAIN Rows
         /\ Fetch /\ curi' = Position
         /\ state' = Arcs[Taken].to /\ token' = Stored /\ long' = (long \/ Arcs[Taken].to = "4L")
         /\ UNCHANGED <<file, depth, tokens, outcome>>

\* A character that ends the token it belongs to.
Finish == /\ outcome = "reading" /\ Taken # 0 /\ Arcs[Taken].to \notin DOMAIN Rows \cup {"BCSTART", "open", "close"}
          /\ Fetch /\ curi' = Position
          /\ Restart /\ Deliver(Arcs[Taken].to, Stored)
          /\ UNCHANGED <<file, depth>>

\* lexbc: a block comment begins, one begins in it, the innermost ends.
Comment == /\ outcome = "reading" /\ Taken # 0 /\ Arcs[Taken].to \in {"BCSTART", "open", "close"}
           /\ Fetch /\ curi' = Position
           /\ depth' = IF Arcs[Taken].to = "close" THEN depth - 1 ELSE depth + 1
           /\ IF depth' = 0 THEN Restart ELSE state' = "bc" /\ UNCHANGED <<long, token>>
           /\ UNCHANGED <<file, tokens, outcome>>

\* A character that does not belong to the token: unreadchar.
GiveBack == /\ outcome = "reading" /\ Taken = 0 /\ c # EndOfFile
            /\ Fetch /\ curi' = Position - 1
            /\ IF Rows[state].other \in DOMAIN Rows
               THEN state' = Rows[state].other /\ UNCHANGED <<long, token, tokens, outcome>>
               ELSE Restart /\ Deliver(Rows[state].other, token)
            /\ UNCHANGED <<file, depth>>

\* The end of the file; an open block comment is an error.
ReachEnd == /\ outcome = "reading" /\ c = EndOfFile
            /\ Fetch /\ curi' = Position
            /\ IF depth > 0 THEN /\ outcome' = "illegal"
                                 /\ UNCHANGED <<state, long, token, tokens>>
               ELSE IF Rows[state].eof \in DOMAIN Rows
               THEN state' = Rows[state].eof /\ UNCHANGED <<long, token, tokens, outcome>>
               ELSE Restart /\ Deliver(Rows[state].eof, token)
            /\ UNCHANGED <<file, depth>>

Next == Shift \/ Finish \/ Comment \/ GiveBack \/ ReachEnd
Spec == Init /\ [][Next]_vars

-----------------------------------------------------------------------------
\* The text of the file, lines that end in a backslash joined.
Text == IF lang = "c" THEN FlattenSeq([i \in DOMAIN file.lines |-> Joined(file.lines[i])])
        ELSE FlattenSeq([i \in DOMAIN file.lines |-> Append(file.lines[i], "\n")])

\* What the two lexers deliver is what the syntax of tokens says, each token
\* as long as it can be, whatever line it is on and whatever it was given
\* back; and what they refuse is no token.  (p.c lex 710, w.c lex 2318)
TokensRight == outcome # "reading" =>
  LET r == Syntax(lang, Text)
  IN  tokens = r.tokens /\ (outcome = "end") = r.ok
=============================================================================
