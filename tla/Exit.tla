--------------------------------- MODULE Exit --------------------------------
(***************************************************************************)
(* The end of a program: main, atexit and exit of lib/src/stdlib.c, the    *)
(* termination loop of the C runtime (lib/src/crt.*.c) and the closing of  *)
(* the standard streams, which stdio.c registers as one more handler when  *)
(* it is first used.  Output is counted in lines.                          *)
(***************************************************************************)
EXTENDS Naturals, Sequences, SequencesExt

CONSTANTS
  OnTermMax,   \* ONTERM_MAX
  MaxRegs,     \* bound: how often the program calls atexit
  MaxLines     \* bound: how many lines it writes

ASSUME ExitAssumption ==
  OnTermMax \in Nat \ {0} /\ MaxRegs \in Nat /\ MaxLines \in Nat

CloseAll == 0       \* stdio's handler; the program's are 1, 2, ... in order

VARIABLES
  phase,        \* "main", "terminate", "handler", "exited" or "aborted"
  funcs,        \* onterm_funcs, onterm_count of them
  initialized,  \* of stdio.c
  tty,          \* stdout is a terminal, hence line-buffered
  open,         \* stdout has not been closed
  pending,      \* lines in its buffer
  written,      \* lines that reached the device
  accepted,     \* lines whose output function reported success
  refused,      \* a line was refused
  regs, ran     \* atexit calls that succeeded; handlers started, in order

out == <<tty, open, pending, written, accepted, refused>>
vars == <<phase, funcs, initialized, out, regs, ran>>

Init ==
  /\ phase = "main" /\ funcs = << >> /\ initialized = FALSE
  /\ tty \in BOOLEAN /\ open = TRUE
  /\ pending = 0 /\ written = 0 /\ accepted = 0 /\ refused = FALSE
  /\ regs = 0 /\ ran = << >>

(* The program's own code runs, in main or in one of its handlers.         *)
Running == phase \in {"main", "handler"}

(* atexit *)
Registered(fs, fn) == IF Len(fs) < OnTermMax THEN Append(fs, fn) ELSE fs

AtExit ==
  /\ Running /\ regs < MaxRegs
  /\ funcs' = Registered(funcs, regs + 1)
  /\ regs' = IF funcs' # funcs THEN regs + 1 ELSE regs
  /\ UNCHANGED <<phase, initialized, out, ran>>

(* puts: wrtchk runs initialize, which ignores the result of atexit, and   *)
(* refuses a stream that was closed.                                       *)
Puts ==
  /\ Running /\ accepted < MaxLines
  /\ initialized' = TRUE
  /\ funcs' = IF initialized THEN funcs ELSE Registered(funcs, CloseAll)
  /\ IF open
     THEN /\ accepted' = accepted + 1
          /\ pending' = IF tty THEN 0 ELSE pending + 1
          /\ written' = IF tty THEN written + pending + 1 ELSE written
          /\ UNCHANGED refused
     ELSE refused' = TRUE /\ UNCHANGED <<accepted, pending, written>>
  /\ UNCHANGED <<phase, tty, open, regs, ran>>

(* exit, or the return from main: _start calls terminate either way.  An   *)
(* exit inside a handler starts the loop again and never returns.          *)
CallExit ==
  /\ Running
  /\ phase' = "terminate"
  /\ UNCHANGED <<funcs, initialized, out, regs, ran>>

Abort ==
  /\ Running
  /\ phase' = "aborted"
  /\ UNCHANGED <<funcs, initialized, out, regs, ran>>

(* Mutants of the next: a handler stays in the list while it runs; the     *)
(* list is emptied.                                                        *)
RunHandler_KeepsIt ==
  /\ phase = "terminate" /\ funcs # << >>
  /\ Last(funcs) # CloseAll
  /\ phase' = "handler"
  /\ UNCHANGED <<funcs, initialized, out, regs, ran>>

RunHandler_DropsRest ==
  /\ phase = "terminate" /\ funcs # << >>
  /\ funcs' = << >>
  /\ Last(funcs) # CloseAll
  /\ phase' = "handler" /\ ran' = Append(ran, Last(funcs))
  /\ UNCHANGED <<initialized, out, regs>>

(* A handler that returns goes back to the loop, as one that exits does.   *)
RunHandler ==
  /\ phase = "terminate" /\ funcs # << >>
  /\ funcs' = Front(funcs)
  /\ Last(funcs) # CloseAll
  /\ phase' = "handler" /\ ran' = Append(ran, Last(funcs))
  /\ UNCHANGED <<initialized, out, regs>>

(* Mutant of the next: streams are closed and not flushed. *)
RunCloseAll_NoFlush ==
  /\ phase = "terminate" /\ funcs # << >>
  /\ funcs' = Front(funcs)
  /\ Last(funcs) = CloseAll
  /\ open' = FALSE /\ pending' = 0
  /\ UNCHANGED <<phase, initialized, tty, written, accepted, refused, regs, ran>>

(* closeall: fclose flushes and closes every stream in use. *)
RunCloseAll ==
  /\ phase = "terminate" /\ funcs # << >>
  /\ funcs' = Front(funcs)
  /\ Last(funcs) = CloseAll
  /\ open' = FALSE /\ pending' = 0 /\ written' = written + pending
  /\ UNCHANGED <<phase, initialized, tty, accepted, refused, regs, ran>>

ProcExit ==
  /\ phase = "terminate" /\ funcs = << >>
  /\ phase' = "exited"
  /\ UNCHANGED <<funcs, initialized, out, regs, ran>>

Terminate == RunHandler \/ RunCloseAll \/ ProcExit

Next == AtExit \/ Puts \/ CallExit \/ Abort \/ Terminate

Spec == Init /\ [][Next]_vars

(* The program is one thread.  Its handlers return, or exit.               *)
FairSpec == Spec /\ WF_vars(Terminate) /\ WF_vars(phase = "handler" /\ CallExit)
-----------------------------------------------------------------------------
TypeOK ==
  /\ phase \in {"main", "terminate", "handler", "exited", "aborted"}
  /\ funcs \in Seq(0 .. MaxRegs) /\ Len(funcs) <= OnTermMax
  /\ initialized \in BOOLEAN /\ tty \in BOOLEAN /\ open \in BOOLEAN /\ refused \in BOOLEAN
  /\ pending \in Nat /\ written \in Nat /\ accepted \in 0 .. MaxLines
  /\ regs \in 0 .. MaxRegs /\ ran \in Seq(1 .. MaxRegs)

(* Every handler registered is run, and run once, whatever handlers are    *)
(* registered while others run and however often exit is called in them.   *)
EachOnce ==
  /\ IsInjective(ran)
  /\ \A k \in DOMAIN funcs : funcs[k] # CloseAll =>
       /\ funcs[k] \notin ToSet(ran)
       /\ \A m \in DOMAIN funcs : funcs[m] = funcs[k] => m = k
  /\ phase = "exited" => ToSet(ran) = 1 .. regs

(* A handler starts when none that was registered after it is waiting. *)
LatestFirst == Len(ran') > Len(ran) => \A f \in ToSet(funcs) : f <= Last(ran')

(* terminate takes the handlers off the table one by one, the latest first, *)
(* and goes on where it was when a handler comes back to it.               *)
HandlersInTurn == [][EachOnce' /\ LatestFirst]_vars

(* What stdout accepted reaches the device when the program exits.         *)
AcceptedIsWritten == phase = "exited" => written = accepted

(* A program that has called exit ends, as it registers only so often. *)
ExitEnds == phase = "terminate" ~> phase \in {"exited", "aborted"}

-----------------------------------------------------------------------------
(* C90, which README.md says stdlib.h and stdio.h follow: exit calls the   *)
(* handlers first and closes the streams then, so a handler can write.     *)
HandlersMayWrite == ~refused
=============================================================================
