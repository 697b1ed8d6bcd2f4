------------------------------ MODULE Exit_proofs -----------------------------
(***************************************************************************)
(* Theorems about the end of a program, for every number of handlers and   *)
(* of lines.                                                               *)
(***************************************************************************)
EXTENDS Exit, TLAPS, SequenceTheorems

(* What the handlers' table holds: handlers of the program, in the order   *)
(* they were registered, none of which has run, and closeall.              *)
Waiting == {k \in DOMAIN funcs : funcs[k] # CloseAll}

InOrder == \A k, m \in Waiting : k < m => funcs[k] < funcs[m]

NoneRan == \A k \in Waiting : \A m \in DOMAIN ran : funcs[k] # ran[m]

RanOnce == \A k, m \in DOMAIN ran : ran[k] = ran[m] => k = m

(* Every handler registered has been run or waits. *)
Accounted ==
  \A h \in 1 .. regs : \/ \E m \in DOMAIN ran : ran[m] = h
                       \/ \E k \in DOMAIN funcs : funcs[k] = h

OnlyRegistered ==
  /\ \A k \in DOMAIN funcs : funcs[k] <= regs
  /\ \A m \in DOMAIN ran : ran[m] <= regs

(* TypeOK in two parts. *)
Flags == initialized \in BOOLEAN /\ tty \in BOOLEAN /\ open \in BOOLEAN /\ refused \in BOOLEAN

Amounts ==
  /\ phase \in {"main", "terminate", "handler", "exited", "aborted"}
  /\ funcs \in Seq(0 .. MaxRegs) /\ Len(funcs) <= OnTermMax
  /\ pending \in Nat /\ written \in Nat /\ accepted \in 0 .. MaxLines
  /\ regs \in 0 .. MaxRegs /\ ran \in Seq(1 .. MaxRegs)

TableInv ==
  /\ Flags /\ Amounts
  /\ InOrder /\ NoneRan /\ RanOnce /\ Accounted /\ OnlyRegistered
  /\ phase = "exited" => funcs = << >>

-----------------------------------------------------------------------------
(* What the operators on sequences return, for the table of handlers. *)
LEMMA FrontFacts ==
  ASSUME NEW S, NEW s \in Seq(S), s # << >>
  PROVE  /\ Front(s) \in Seq(S)
         /\ Len(s) \in Nat \ {0}
         /\ Len(Front(s)) = Len(s) - 1
         /\ DOMAIN Front(s) = 1 .. (Len(s) - 1)
         /\ \A k \in 1 .. (Len(s) - 1) : Front(s)[k] = s[k]
         /\ Last(s) = s[Len(s)] /\ Last(s) \in S
<1>1. Front(s) \in Seq(S) /\ DOMAIN Front(s) = 1 .. (Len(s) - 1)
  BY SMT DEF Front
<1>2. \A k \in 1 .. (Len(s) - 1) : Front(s)[k] = s[k]
  BY SMT DEF Front
<1>3. Len(s) \in Nat \ {0} /\ Last(s) \in S
  BY SMT DEF Last
<1>4. Len(Front(s)) \in Nat /\ DOMAIN Front(s) = 1 .. Len(Front(s))
  BY <1>1, LenProperties, Zenon
<1>5. Len(Front(s)) = Len(s) - 1
  BY <1>1, <1>3, <1>4, SMT
<1> QED BY <1>1, <1>2, <1>3, <1>5 DEF Last

LEMMA AppendFacts ==
  ASSUME NEW S, NEW s \in Seq(S), NEW e \in S
  PROVE  /\ Append(s, e) \in Seq(S)
         /\ Len(Append(s, e)) = Len(s) + 1
         /\ DOMAIN Append(s, e) = 1 .. (Len(s) + 1)
         /\ DOMAIN s = 1 .. Len(s) /\ Len(s) \in Nat
         /\ \A k \in 1 .. Len(s) : Append(s, e)[k] = s[k]
         /\ Append(s, e)[Len(s) + 1] = e
         /\ Append(s, e) # s
BY SMT

(* Handlers are numbers, and both sequences are counted from 1. *)
LEMMA HandlerFacts ==
  ASSUME Amounts
  PROVE  /\ MaxRegs \in Nat /\ regs \in Nat
         /\ DOMAIN funcs = 1 .. Len(funcs) /\ Len(funcs) \in Nat
         /\ DOMAIN ran = 1 .. Len(ran) /\ Len(ran) \in Nat
         /\ \A k \in DOMAIN funcs : funcs[k] \in Nat
         /\ \A k \in DOMAIN ran : ran[k] \in Nat /\ ran[k] >= 1
BY ExitAssumption, SMT DEF Amounts

(* A program starts with an empty table. *)
LEMMA InitTable == Init => TableInv
<1> SUFFICES ASSUME Init PROVE TableInv
  OBVIOUS
<1>1. DOMAIN funcs = {} /\ DOMAIN ran = {} /\ Waiting = {}
  BY SMT DEF Init, Waiting
<1>2. Flags /\ Amounts
  <2>1. Flags
    BY Zenon DEF Init, Flags
  <2>2. Amounts
    BY ExitAssumption, SMT DEF Init, Amounts
  <2> QED BY <2>1, <2>2
<1>3. Accounted
  BY SMT DEF Init, Accounted
<1>4. InOrder /\ NoneRan /\ RanOnce /\ OnlyRegistered
  BY <1>1 DEF InOrder, NoneRan, RanOnce, OnlyRegistered
<1> QED BY <1>2, <1>3, <1>4 DEF TableInv, Init

(* atexit puts the next handler behind all others, or refuses it. *)
LEMMA AtExitTable == TableInv /\ AtExit => TableInv'
<1> SUFFICES ASSUME TableInv, AtExit PROVE TableInv'
  OBVIOUS
<1>1. CASE Len(funcs) < OnTermMax
  <2>1. funcs' = Append(funcs, regs + 1)
    BY <1>1 DEF AtExit, Registered
  <2>2. regs + 1 \in 0 .. MaxRegs /\ regs \in Nat /\ MaxRegs \in Nat
    BY ExitAssumption, SMT DEF AtExit, TableInv, Amounts
  <2>3. /\ funcs' \in Seq(0 .. MaxRegs) /\ Len(funcs') = Len(funcs) + 1
        /\ DOMAIN funcs' = 1 .. (Len(funcs) + 1) /\ DOMAIN funcs = 1 .. Len(funcs)
        /\ Len(funcs) \in Nat
        /\ \A k \in 1 .. Len(funcs) : funcs'[k] = funcs[k]
        /\ funcs'[Len(funcs) + 1] = regs + 1
        /\ funcs' # funcs
    BY <2>1, <2>2, AppendFacts, SMT DEF TableInv, Amounts
  <2>4. regs' = regs + 1 /\ UNCHANGED <<phase, ran>>
    BY <2>3 DEF AtExit
  <2>5. Flags' /\ Amounts'
    <3>1. Flags'
      BY DEF AtExit, TableInv, Flags, out
    <3>2. Amounts'
      BY <2>2, <2>3, <2>4, <1>1, ExitAssumption, SMT DEF AtExit, TableInv, Amounts, out
    <3> QED BY <3>1, <3>2
  <2>6. InOrder'
    BY <2>2, <2>3, <2>4, HandlerFacts, SMT DEF InOrder, Waiting, TableInv, OnlyRegistered, CloseAll
  <2>7. NoneRan'
    <3> SUFFICES ASSUME NEW k \in Waiting', NEW m \in DOMAIN ran PROVE funcs'[k] # ran[m]
      BY <2>4 DEF NoneRan
    <3>1. CASE k = Len(funcs) + 1
      <4>1. ran[m] \in Nat /\ ran[m] <= regs
        BY HandlerFacts DEF TableInv, OnlyRegistered
      <4> QED BY <2>2, <2>3, <3>1, <4>1, SMT
    <3>2. CASE k # Len(funcs) + 1
      <4>1. k \in Waiting /\ funcs'[k] = funcs[k]
        BY <2>3, <3>2, SMT DEF Waiting
      <4> QED BY <4>1 DEF NoneRan, TableInv
    <3> QED BY <3>1, <3>2
  <2>8. RanOnce' /\ OnlyRegistered'
    <3>1. RanOnce'
      BY <2>4 DEF RanOnce, TableInv
    <3>2. \A k \in DOMAIN funcs : funcs[k] \in Nat /\ funcs[k] <= regs
      BY HandlerFacts DEF TableInv, OnlyRegistered
    <3>3. \A m \in DOMAIN ran : ran[m] \in Nat /\ ran[m] <= regs
      BY HandlerFacts DEF TableInv, OnlyRegistered
    <3>4. \A k \in DOMAIN funcs' : funcs'[k] <= regs'
      BY <2>2, <2>3, <2>4, <3>2, SMT
    <3>5. \A m \in DOMAIN ran' : ran'[m] <= regs'
      BY <2>2, <2>4, <3>3, SMT
    <3> QED BY <3>1, <3>4, <3>5 DEF OnlyRegistered
  <2>9. Accounted'
    BY <2>2, <2>3, <2>4, SMT DEF Accounted, TableInv
  <2>10. phase' # "exited"
    BY <2>4 DEF AtExit, Running
  <2> QED BY <2>5, <2>6, <2>7, <2>8, <2>9, <2>10 DEF TableInv
<1>2. CASE ~(Len(funcs) < OnTermMax)
  <2>1. UNCHANGED vars
    BY <1>2 DEF AtExit, Registered, vars
  <2> QED BY <2>1 DEF TableInv, Flags, Amounts, InOrder, NoneRan, RanOnce, Accounted, OnlyRegistered, Waiting, vars, out
<1> QED BY <1>1, <1>2

(* A line written adds closeall to the table, at most. *)
LEMMA PutsTable == TableInv /\ Puts => TableInv'
<1> SUFFICES ASSUME TableInv, Puts PROVE TableInv'
  OBVIOUS
<1>0. /\ UNCHANGED <<phase, regs, ran, tty, open>> /\ phase # "exited"
      /\ pending' \in Nat /\ written' \in Nat /\ accepted' \in 0 .. MaxLines
      /\ regs \in Nat /\ MaxRegs \in Nat
  <2>1. UNCHANGED <<phase, regs, ran, tty, open>> /\ phase # "exited"
    BY DEF Puts, Running
  <2>2. CASE open
    BY <2>1, <2>2, ExitAssumption, SMT DEF Puts, TableInv, Amounts
  <2>3. CASE ~open
    BY <2>1, <2>3, ExitAssumption, SMT DEF Puts, TableInv, Amounts
  <2> QED BY <2>2, <2>3, <2>1
<1>f. Flags'
  <2>1. refused' \in BOOLEAN /\ initialized' \in BOOLEAN
    BY Zenon DEF Puts, TableInv, Flags
  <2> QED BY <1>0, <2>1, Zenon DEF TableInv, Flags
<1>1. CASE funcs' = funcs
  BY <1>0, <1>f, <1>1 DEF TableInv, Amounts, InOrder, NoneRan, RanOnce, Accounted, OnlyRegistered, Waiting
<1>2. CASE funcs' # funcs
  <2>1. funcs' = Append(funcs, CloseAll) /\ Len(funcs) < OnTermMax
    BY <1>2 DEF Puts, Registered
  <2>2. CloseAll \in 0 .. MaxRegs
    BY <1>0, SMT DEF CloseAll
  <2>3. /\ funcs' \in Seq(0 .. MaxRegs) /\ Len(funcs') = Len(funcs) + 1
        /\ DOMAIN funcs' = 1 .. (Len(funcs) + 1) /\ DOMAIN funcs = 1 .. Len(funcs)
        /\ Len(funcs) \in Nat
        /\ \A k \in 1 .. Len(funcs) : funcs'[k] = funcs[k]
        /\ funcs'[Len(funcs) + 1] = CloseAll
    BY <2>1, <2>2, AppendFacts, SMT DEF TableInv, Amounts
  <2>5. Flags' /\ Amounts'
    <3>1. Len(funcs') <= OnTermMax
      BY <2>1, <2>3, ExitAssumption, SMT
    <3> QED BY <1>0, <1>f, <2>3, <3>1 DEF TableInv, Amounts
  <2>6. Waiting' = Waiting
    BY <2>3, SMT DEF Waiting
  <2>7. \A k \in Waiting : funcs'[k] = funcs[k]
    BY <2>3, SMT DEF Waiting
  <2>8. InOrder' /\ NoneRan'
    BY <1>0, <2>6, <2>7, SMT DEF InOrder, NoneRan, TableInv
  <2>9. RanOnce' /\ OnlyRegistered'
    BY <1>0, <2>3, SMT DEF RanOnce, TableInv, OnlyRegistered, CloseAll
  <2>10. Accounted'
    BY <1>0, <2>3, SMT DEF Accounted, TableInv
  <2> QED BY <1>0, <2>5, <2>8, <2>9, <2>10 DEF TableInv
<1> QED BY <1>1, <1>2

(* terminate takes the last handler off the table and starts it. *)
LEMMA RunHandlerTable == TableInv /\ RunHandler => TableInv' /\ LatestFirst
<1> SUFFICES ASSUME TableInv, RunHandler PROVE TableInv' /\ LatestFirst
  OBVIOUS
<1> DEFINE n == Len(funcs)
           h == Last(funcs)
<1>1. /\ funcs \in Seq(0 .. MaxRegs) /\ funcs # << >> /\ h # CloseAll
      /\ funcs' = Front(funcs) /\ ran' = Append(ran, h) /\ phase' = "handler"
      /\ UNCHANGED <<initialized, out, regs>>
  BY DEF RunHandler, TableInv, Amounts
<1>2. /\ funcs' \in Seq(0 .. MaxRegs) /\ n \in Nat \ {0}
      /\ Len(funcs') = n - 1 /\ DOMAIN funcs' = 1 .. (n - 1)
      /\ \A k \in 1 .. (n - 1) : funcs'[k] = funcs[k]
      /\ h = funcs[n] /\ h \in 0 .. MaxRegs
  BY <1>1, FrontFacts, Zenon
<1>3. DOMAIN funcs = 1 .. n
  BY <1>1
<1>4. h \in 1 .. MaxRegs /\ MaxRegs \in Nat
  BY <1>1, <1>2, ExitAssumption, SMT DEF CloseAll
<1>5. ran \in Seq(1 .. MaxRegs) /\ regs \in Nat
  BY SMT DEF TableInv, Amounts
<1>6. /\ ran' \in Seq(1 .. MaxRegs) /\ Len(ran') = Len(ran) + 1
      /\ DOMAIN ran' = 1 .. (Len(ran) + 1) /\ DOMAIN ran = 1 .. Len(ran)
      /\ Len(ran) \in Nat
      /\ \A k \in 1 .. Len(ran) : ran'[k] = ran[k]
      /\ ran'[Len(ran) + 1] = h
  BY <1>1, <1>4, <1>5, AppendFacts, SMT
<1>7. Flags' /\ Amounts'
  <2>1. Flags'
    BY <1>1 DEF TableInv, Flags, out
  <2>2. Amounts'
    BY <1>1, <1>2, <1>6, HandlerFacts, ExitAssumption, SMT DEF TableInv, Amounts, out
  <2> QED BY <2>1, <2>2
<1> HIDE DEF n, h
<1>8. n \in Waiting /\ Waiting' = Waiting \ {n} /\ \A k \in Waiting : k # n => k < n /\ funcs'[k] = funcs[k]
  BY <1>1, <1>2, <1>3, SMT DEF Waiting
<1>9. InOrder' /\ \A k \in Waiting' : funcs[k] < h
  BY <1>2, <1>8, SMT DEF InOrder, TableInv
<1>10. NoneRan'
  <2> SUFFICES ASSUME NEW k \in Waiting', NEW m \in DOMAIN ran' PROVE funcs'[k] # ran'[m]
    BY DEF NoneRan
  <2>1. k \in Waiting /\ k # n /\ k < n /\ funcs'[k] = funcs[k] /\ funcs[k] < h
    BY <1>8, <1>9
  <2>2. CASE m \in 1 .. Len(ran)
    BY <2>1, <2>2, <1>6 DEF NoneRan, TableInv
  <2>3. CASE m = Len(ran) + 1
    <3>1. funcs[k] \in Nat /\ h \in Nat
      BY <2>1, <1>1, <1>4, SMT DEF Waiting
    <3> QED BY <2>1, <2>3, <3>1, <1>6, SMT
  <2> QED BY <2>2, <2>3, <1>6, SMT
<1>11. \A m \in DOMAIN ran : ran[m] # h
  BY <1>2, <1>8 DEF NoneRan, TableInv
<1>12. RanOnce'
  BY <1>6, <1>11, SMT DEF RanOnce, TableInv
<1>13. OnlyRegistered'
  <2>1. regs' = regs /\ h <= regs
    BY <1>1, <1>2, <1>3, SMT DEF OnlyRegistered, TableInv
  <2>2. \A k \in DOMAIN funcs' : k \in DOMAIN funcs /\ funcs'[k] = funcs[k]
    BY <1>2, <1>3, SMT
  <2>3. \A m \in DOMAIN ran' : ran'[m] = h \/ (m \in DOMAIN ran /\ ran'[m] = ran[m])
    BY <1>6, SMT
  <2> QED BY <2>1, <2>2, <2>3 DEF OnlyRegistered, TableInv
<1>14. Accounted'
  <2> SUFFICES ASSUME NEW g \in 1 .. regs
               PROVE  \/ \E m \in DOMAIN ran' : ran'[m] = g
                      \/ \E k \in DOMAIN funcs' : funcs'[k] = g
    BY <1>1 DEF Accounted
  <2>1. CASE \E m \in DOMAIN ran : ran[m] = g
    BY <2>1, <1>6, SMT
  <2>2. CASE \E k \in DOMAIN funcs : funcs[k] = g
    BY <2>2, <1>2, <1>3, <1>6, SMT
  <2> QED BY <2>1, <2>2 DEF Accounted, TableInv
<1>15. LatestFirst
  <2>1. Last(ran') = h
    BY <1>6, SMT DEF Last
  <2>2. \A k \in DOMAIN funcs : funcs[k] <= h
    <3> TAKE k \in DOMAIN funcs
    <3>1. CASE k \in Waiting
      BY <1>1, <1>2, <1>3, <1>4, <1>8, <1>9, <3>1, SMT DEF Waiting
    <3>2. CASE k \notin Waiting
      BY <3>2, <1>4, SMT DEF Waiting, CloseAll
    <3> QED BY <3>1, <3>2
  <2> QED BY <2>1, <2>2 DEF LatestFirst, ToSet
<1> QED BY <1>1, <1>7, <1>9, <1>10, <1>12, <1>13, <1>14, <1>15 DEF TableInv

(* closeall leaves the program's handlers where they are. *)
LEMMA RunCloseAllTable == TableInv /\ RunCloseAll => TableInv'
<1> SUFFICES ASSUME TableInv, RunCloseAll PROVE TableInv'
  OBVIOUS
<1> DEFINE n == Len(funcs)
<1>1. /\ funcs \in Seq(0 .. MaxRegs) /\ funcs # << >> /\ Last(funcs) = CloseAll
      /\ funcs' = Front(funcs) /\ phase = "terminate"
      /\ UNCHANGED <<phase, initialized, tty, accepted, refused, regs, ran>>
  BY DEF RunCloseAll, TableInv, Amounts
<1>2. /\ funcs' \in Seq(0 .. MaxRegs) /\ n \in Nat \ {0}
      /\ Len(funcs') = n - 1 /\ DOMAIN funcs' = 1 .. (n - 1)
      /\ \A k \in 1 .. (n - 1) : funcs'[k] = funcs[k]
      /\ funcs[n] = CloseAll
  BY <1>1, FrontFacts, Zenon
<1>3. DOMAIN funcs = 1 .. n
  BY <1>1
<1>4. Flags' /\ Amounts'
  <2>1. Flags'
    BY <1>1 DEF RunCloseAll, TableInv, Flags
  <2>2. Amounts'
    BY <1>1, <1>2, HandlerFacts, ExitAssumption, SMT DEF RunCloseAll, TableInv, Amounts
  <2> QED BY <2>1, <2>2
<1> HIDE DEF n
<1>5. Waiting' = Waiting /\ \A k \in Waiting : funcs'[k] = funcs[k]
  BY <1>2, <1>3, SMT DEF Waiting
<1>6. InOrder' /\ NoneRan' /\ RanOnce'
  BY <1>1, <1>5, SMT DEF InOrder, NoneRan, RanOnce, TableInv
<1>7. OnlyRegistered'
  BY <1>1, <1>2, <1>3, SMT DEF OnlyRegistered, TableInv
<1>8. Accounted'
  BY <1>1, <1>2, <1>3, SMT DEF Accounted, TableInv, CloseAll
<1> QED BY <1>1, <1>4, <1>6, <1>7, <1>8 DEF TableInv

(* Every step keeps the table, and starts the latest handler if any. *)
LEMMA StepTable == TableInv /\ [Next]_vars => TableInv' /\ (RunHandler \/ ran' = ran)
<1> SUFFICES ASSUME TableInv, [Next]_vars PROVE TableInv' /\ (RunHandler \/ ran' = ran)
  OBVIOUS
<1>1. CASE AtExit
  BY <1>1, AtExitTable DEF AtExit
<1>2. CASE Puts
  BY <1>2, PutsTable DEF Puts
<1>3. CASE CallExit \/ Abort \/ ProcExit
  BY <1>3 DEF CallExit, Abort, ProcExit, TableInv, Flags, Amounts, InOrder, NoneRan, RanOnce, Accounted,
              OnlyRegistered, Waiting, out
<1>4. CASE RunHandler
  BY <1>4, RunHandlerTable
<1>5. CASE RunCloseAll
  BY <1>5, RunCloseAllTable DEF RunCloseAll
<1>6. CASE UNCHANGED vars
  BY <1>6 DEF vars, TableInv, Flags, Amounts, InOrder, NoneRan, RanOnce, Accounted, OnlyRegistered, Waiting, out
<1> QED BY <1>1, <1>2, <1>3, <1>4, <1>5, <1>6 DEF Next, Terminate

(* The table and the handlers run have their types and their order always. *)
THEOREM AlwaysTable == Spec => []TableInv
<1>1. TableInv /\ [Next]_vars => TableInv'
  BY StepTable
<1> QED BY InitTable, <1>1, PTL DEF Spec

(* Types: the table of handlers never exceeds its size, whatever is        *)
(* registered while it is worked off.                                      *)
THEOREM TypeCorrect == Spec => []TypeOK
<1>1. TableInv => TypeOK
  BY DEF TableInv, Flags, Amounts, TypeOK
<1> QED BY AlwaysTable, <1>1, PTL

(* The table's order and account give each handler one run. *)
LEMMA TableRunsOnce == TableInv => EachOnce
<1> SUFFICES ASSUME TableInv PROVE EachOnce
  OBVIOUS
<1>1. IsInjective(ran)
  BY DEF IsInjective, TableInv, RanOnce
<1>2. \A k \in DOMAIN funcs : funcs[k] # CloseAll =>
       /\ funcs[k] \notin ToSet(ran)
       /\ \A m \in DOMAIN funcs : funcs[m] = funcs[k] => m = k
  <2> SUFFICES ASSUME NEW k \in DOMAIN funcs, funcs[k] # CloseAll
               PROVE  /\ funcs[k] \notin ToSet(ran)
                      /\ \A m \in DOMAIN funcs : funcs[m] = funcs[k] => m = k
    OBVIOUS
  <2>1. k \in Waiting
    BY DEF Waiting
  <2>2. funcs[k] \notin ToSet(ran)
    BY <2>1 DEF ToSet, NoneRan, TableInv
  <2>3. ASSUME NEW m \in DOMAIN funcs, funcs[m] = funcs[k] PROVE m = k
    <3>1. m \in Waiting
      BY <2>3 DEF Waiting
    <3>2. k \in Nat /\ m \in Nat /\ funcs[k] \in Nat
      BY HandlerFacts, SMT DEF TableInv
    <3> QED BY <2>1, <2>3, <3>1, <3>2, SMT DEF InOrder, TableInv
  <2> QED BY <2>2, <2>3
<1>3. ASSUME phase = "exited" PROVE ToSet(ran) = 1 .. regs
  <2>1. funcs = << >> /\ DOMAIN funcs = {}
    BY <1>3, SMT DEF TableInv
  <2>2. ToSet(ran) \subseteq 1 .. regs
    BY HandlerFacts, SMT DEF ToSet, TableInv, OnlyRegistered
  <2>3. 1 .. regs \subseteq ToSet(ran)
    BY <2>1 DEF ToSet, TableInv, Accounted
  <2> QED BY <2>2, <2>3
<1> QED BY <1>1, <1>2, <1>3 DEF EachOnce

(* Handlers run once each, the latest registered first, and all have run   *)
(* when the program exits -- for every table size, also one that is full.  *)
THEOREM HandlersRunInTurn == Spec => HandlersInTurn
<1>1. TableInv /\ [Next]_vars => [EachOnce' /\ LatestFirst]_vars
  <2> SUFFICES ASSUME TableInv, [Next]_vars PROVE EachOnce' /\ LatestFirst
    OBVIOUS
  <2>1. EachOnce'
    BY StepTable, TableRunsOnce, PTL
  <2>2. LatestFirst
    <3>1. CASE RunHandler
      BY <3>1, RunHandlerTable
    <3>2. CASE ran' = ran
      BY <3>2, SMT DEF LatestFirst, TableInv, Amounts
    <3> QED BY <3>1, <3>2, StepTable
  <2> QED BY <2>1, <2>2
<1> QED BY AlwaysTable, <1>1, PTL DEF Spec, HandlersInTurn

-----------------------------------------------------------------------------
(* The program registers fewer handlers than the table has places, so that *)
(* there is one for closeall.                                              *)
RoomForCloseAll == MaxRegs < OnTermMax

(* No line is lost: one that was accepted is written or in the buffer, and *)
(* while there are lines in the buffer closeall is to come.                *)
OutputInv ==
  /\ written + pending = accepted
  /\ ~open => pending = 0
  /\ Len(funcs) <= regs + (IF initialized THEN 1 ELSE 0)
  /\ IF initialized THEN open => \E k \in DOMAIN funcs : funcs[k] = CloseAll
                    ELSE pending = 0

(* A program starts with nothing written. *)
LEMMA InitOutput == Init => OutputInv
BY SMT DEF Init, OutputInv

(* No step loses a line or the handler that will write it. *)
LEMMA StepOutput ==
  ASSUME RoomForCloseAll PROVE TableInv /\ OutputInv /\ [Next]_vars => OutputInv'
<1> SUFFICES ASSUME TableInv, OutputInv, [Next]_vars PROVE OutputInv'
  OBVIOUS
<1>0. /\ written \in Nat /\ pending \in Nat /\ accepted \in Nat /\ regs \in Nat /\ regs <= MaxRegs
      /\ funcs \in Seq(0 .. MaxRegs) /\ Len(funcs) \in Nat /\ DOMAIN funcs = 1 .. Len(funcs)
      /\ MaxRegs \in Nat /\ OnTermMax \in Nat
  BY ExitAssumption, SMT DEF TableInv, Amounts
<1>1. CASE AtExit
  <2>0. regs + 1 \in 0 .. MaxRegs
    BY <1>0, <1>1, SMT DEF AtExit
  <2>1. CASE Len(funcs) < OnTermMax
    <3>1. funcs' = Append(funcs, regs + 1)
      BY <1>1, <2>1 DEF AtExit, Registered
    <3>2. /\ Len(funcs') = Len(funcs) + 1 /\ DOMAIN funcs' = 1 .. (Len(funcs) + 1)
          /\ \A k \in 1 .. Len(funcs) : funcs'[k] = funcs[k]
          /\ funcs' # funcs
      <4> HIDE DEF TableInv, OutputInv
      <4>1. funcs \in Seq(0 .. MaxRegs) /\ regs + 1 \in 0 .. MaxRegs
        BY <1>0, <2>0
      <4> QED BY <3>1, <4>1, AppendFacts, SMT
    <3>3. regs' = regs + 1 /\ UNCHANGED <<initialized, out>>
      BY <1>1, <3>2 DEF AtExit
    <3> QED BY <1>0, <3>2, <3>3, SMT DEF OutputInv, out
  <2>2. CASE ~(Len(funcs) < OnTermMax)
    BY <1>1, <2>2 DEF AtExit, Registered, OutputInv, out
  <2> QED BY <2>1, <2>2
<1>2. CASE Puts
  <2>1. /\ written' + pending' = accepted' /\ UNCHANGED <<open, regs>>
        /\ ~open' => pending' = 0
        /\ initialized' = TRUE
    BY <1>0, <1>2, SMT DEF Puts, OutputInv
  <2>2. CASE initialized
    BY <1>0, <1>2, <2>1, <2>2, SMT DEF Puts, OutputInv
  <2>3. CASE ~initialized
    <3>1. funcs' = Append(funcs, CloseAll)
      <4>1. Len(funcs) < OnTermMax
        BY <1>0, <2>3, SMT DEF OutputInv, RoomForCloseAll
      <4> QED BY <1>2, <2>3, <4>1 DEF Puts, Registered
    <3>2. CloseAll \in 0 .. MaxRegs
      BY <1>0, SMT DEF CloseAll
    <3>3. /\ Len(funcs') = Len(funcs) + 1 /\ DOMAIN funcs' = 1 .. (Len(funcs) + 1)
          /\ funcs'[Len(funcs) + 1] = CloseAll
      BY <1>0, <3>1, <3>2, AppendFacts, SMT
    <3>4. \E k \in DOMAIN funcs' : funcs'[k] = CloseAll
      BY <1>0, <3>3, SMT
    <3> QED BY <1>0, <2>1, <2>3, <3>3, <3>4, SMT DEF OutputInv
  <2> QED BY <2>2, <2>3, <1>0
<1>3. CASE CallExit \/ Abort \/ ProcExit
  BY <1>3 DEF CallExit, Abort, ProcExit, OutputInv, out
<1>4. CASE RunHandler \/ RunCloseAll
  <2> DEFINE n == Len(funcs)
  <2>1. funcs # << >> /\ funcs' = Front(funcs) /\ UNCHANGED <<regs, initialized, accepted>>
    BY <1>4 DEF RunHandler, RunCloseAll, out
  <2>2. /\ n \in Nat \ {0}
        /\ Len(funcs') = n - 1 /\ DOMAIN funcs' = 1 .. (n - 1)
        /\ \A k \in 1 .. (n - 1) : funcs'[k] = funcs[k]
        /\ Last(funcs) = funcs[n]
    BY <1>0, <2>1, FrontFacts, Zenon
  <2>3. CASE RunHandler
    <3>1. funcs[n] # CloseAll /\ UNCHANGED out
      BY <2>2, <2>3 DEF RunHandler
    <3>2. ASSUME NEW k \in DOMAIN funcs, funcs[k] = CloseAll PROVE k \in DOMAIN funcs' /\ funcs'[k] = CloseAll
      BY <1>0, <2>2, <3>1, <3>2, SMT
    <3> HIDE DEF n
    <3>3. Len(funcs') <= Len(funcs)
      BY <2>2, <1>0, SMT DEF n
    <3>4. Len(funcs') \in Nat
      BY <2>2, SMT
    <3> QED BY <1>0, <2>1, <3>1, <3>2, <3>3, <3>4, SMT DEF OutputInv, out
  <2>4. CASE RunCloseAll
    <3>1. open' = FALSE /\ pending' = 0 /\ written' = written + pending
      BY <2>4 DEF RunCloseAll
    <3> QED BY <1>0, <2>1, <2>2, <3>1, SMT DEF OutputInv
  <2> QED BY <1>4, <2>3, <2>4
<1>5. CASE UNCHANGED vars
  BY <1>5 DEF vars, out, OutputInv
<1> QED BY <1>1, <1>2, <1>3, <1>4, <1>5 DEF Next, Terminate

(* What stdout accepted reaches the device when the program exits, for     *)
(* programs that register fewer handlers than the table has places.        *)
THEOREM OutputArrives == RoomForCloseAll => (Spec => []AcceptedIsWritten)
<1> SUFFICES ASSUME RoomForCloseAll PROVE Spec => []AcceptedIsWritten
  OBVIOUS
<1>1. TableInv /\ OutputInv /\ [Next]_vars => (TableInv /\ OutputInv)'
  BY StepTable, StepOutput
<1>2. Init => TableInv /\ OutputInv
  BY InitTable, InitOutput
<1>3. TableInv /\ OutputInv => AcceptedIsWritten
  <2> SUFFICES ASSUME TableInv, OutputInv, phase = "exited" PROVE written = accepted
    BY DEF AcceptedIsWritten
  <2>1. DOMAIN funcs = {} /\ written \in Nat /\ pending \in Nat
    BY SMT DEF TableInv, Amounts
  <2>2. pending = 0
    BY <2>1 DEF OutputInv, TableInv, Amounts
  <2> QED BY <2>1, <2>2, SMT DEF OutputInv
<1> QED BY <1>1, <1>2, <1>3, PTL DEF Spec
=============================================================================
