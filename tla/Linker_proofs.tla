---------------------------- MODULE Linker_proofs ---------------------------
(***************************************************************************)
(* For every set of programs and every library: the worklist of Linker     *)
(* moves a global at most once, and when it is empty the output is closed  *)
(* under reference and holds nothing the seeds do not lead to.             *)
(***************************************************************************)
EXTENDS Linker, TLAPS, SequenceTheorems, FiniteSetTheorems, WellFoundedInduction

(* The modules read are modules, and a sequence. *)
ModulesRead == given \in Seq(Modules) /\ pwb \in Seq(Modules)

(* Nothing is queued before the seeds. *)
Untouched ==
  phase \in {"collect", "load"} => deps = << >> /\ out = << >> /\ imps = << >>

(* The output is the queue up to the loop's index, all of it at the end.   *)
OutIsPrefix ==
  /\ Len(out) <= Len(deps)
  /\ \A k \in 1 .. Len(out) : out[k] = Key(deps[k]) /\ Defines(deps[k])
  /\ phase = "trace" => i = Len(out) + 1
  /\ phase \in {"start", "linked"} => Len(out) = Len(deps)

Settled(r) == IF r.mod = Wasi THEN Imported(r) ELSE Queued(r)

(* Every reference looked at so far is settled. *)
Followed ==
  /\ \A k \in 1 .. Len(out) : \A n \in DOMAIN Code(deps[k]) : Settled(Code(deps[k])[n])
  /\ phase = "trace" /\ i <= Len(deps) =>
       \A n \in DOMAIN Code(Cur) : n \in 1 .. (j - 1) => Settled(Code(Cur)[n])

(* The three parts of NothingUnused. *)
DepsWanted ==
  \A k \in DOMAIN deps :
       \/ deps[k] \in Seeds
       \/ \E m \in 1 .. (k - 1) : \E n \in DOMAIN Code(deps[m]) :
            Code(deps[m])[n] = deps[k]

ImpsWanted ==
  \A k \in DOMAIN imps : \E m \in DOMAIN deps : \E n \in DOMAIN Code(deps[m]) :
       Code(deps[m])[n].mod = Wasi /\ Key(Code(deps[m])[n]) = imps[k]

ImpsOnce == \A k, m \in DOMAIN imps : imps[k] = imps[m] => k = m

IInv ==
  /\ TypeOK /\ ModulesRead /\ Untouched /\ OutIsPrefix /\ MovedOnce /\ Followed
  /\ DepsWanted /\ ImpsWanted /\ ImpsOnce

-----------------------------------------------------------------------------
(* A module found by its name is one of the modules read. *)
LEMMA FoundIsModule ==
  ASSUME pwb \in Seq(Modules), NEW n \in Names(pwb)
  PROVE  Module(n) \in Modules /\ Module(n).name = n
BY DEF Names, Module

(* The code of a defined global is a sequence of references. *)
LEMMA CodeIsSeq ==
  ASSUME pwb \in Seq(Modules), NEW r, Defines(r)
  PROVE  Code(r) \in Seq(Reference)
<1>1. Module(r.mod) \in Modules
  BY FoundIsModule DEF Defines
<1>2. IsModule(Module(r.mod))
  BY <1>1, LinkerAssumption
<1> QED
  BY <1>2 DEF Defines, IsModule, Code

LEMMA KeyInKeys == ASSUME NEW r \in Reference PROVE Key(r) \in Keys
BY DEF Reference, Key, Keys

(* The global at the loop's index has not been moved: its code is whole.   *)
LEMMA CurUnmoved ==
  ASSUME IInv, phase = "trace", i <= Len(deps)
  PROVE  /\ Cur \in Reference
         /\ Refs(Cur) = Code(Cur)
<1>1. i \in DOMAIN deps
  BY DEF IInv, TypeOK
<1>2. Cur \in Reference
  BY <1>1 DEF IInv, TypeOK, Cur
<1>3. ASSUME NEW k \in DOMAIN out, out[k] = Key(Cur) PROVE FALSE
  <2>1. k \in 1 .. Len(out) /\ k < i
    BY <1>3 DEF IInv, TypeOK, OutIsPrefix
  <2>2. Key(deps[k]) = Key(deps[i]) /\ k \in DOMAIN deps
    BY <1>3, <2>1 DEF IInv, TypeOK, OutIsPrefix, Cur
  <2> QED
    BY <1>1, <2>1, <2>2 DEF IInv, MovedOnce
<1> QED
  BY <1>2, <1>3 DEF Refs, Code

-----------------------------------------------------------------------------
LEMMA InitHolds == Init => IInv
<1> SUFFICES ASSUME Init PROVE IInv
  OBVIOUS
<1> USE DEF Init
<1>1. TypeOK
  BY LinkerAssumption DEF TypeOK, Mains
<1>2. ModulesRead /\ Untouched
  BY LinkerAssumption DEF ModulesRead, Untouched
<1>3. OutIsPrefix /\ MovedOnce /\ Followed
  BY DEF OutIsPrefix, MovedOnce, Followed
<1>4. DepsWanted /\ ImpsWanted /\ ImpsOnce
  BY DEF DepsWanted, ImpsWanted, ImpsOnce
<1> QED
  BY <1>1, <1>2, <1>3, <1>4 DEF IInv

(* The modules read fix what a reference means. *)
LEMMA SameModules ==
  ASSUME UNCHANGED pwb, NEW r
  PROVE  Code(r)' = Code(r) /\ Defines(r)' = Defines(r)
BY DEF Code, Defines, Module, Names, Key

(* What a step preserves that changes neither the worklist nor the modules *)
(* read.                                                                   *)
LEMMA SameTrace ==
  ASSUME IInv, UNCHANGED <<deps, out, imps, pwb, mainmod>>
  PROVE  /\ MovedOnce' /\ DepsWanted' /\ ImpsWanted' /\ ImpsOnce'
         /\ Len(out)' <= Len(deps)'
         /\ \A k \in 1 .. Len(out)' : out'[k] = Key(deps'[k]) /\ Defines(deps[k])'
         /\ \A k \in 1 .. Len(out)' : \A n \in DOMAIN Code(deps[k])' :
              Settled(Code(deps[k])[n])'
<1>1. MovedOnce' /\ ImpsOnce'
  BY DEF IInv, MovedOnce, ImpsOnce
<1>2. ASSUME NEW r PROVE Code(r)' = Code(r) /\ Defines(r)' = Defines(r)
  BY SameModules
<1>3. Seeds' = Seeds
  BY DEF Seeds, Ref
<1>4. DepsWanted'
  BY <1>2, <1>3 DEF IInv, DepsWanted
<1>5. ImpsWanted'
  BY <1>2 DEF IInv, ImpsWanted
<1>6. /\ Len(out)' <= Len(deps)'
      /\ \A k \in 1 .. Len(out)' : out'[k] = Key(deps'[k]) /\ Defines(deps[k])'
  BY <1>2 DEF IInv, OutIsPrefix
<1>7. ASSUME NEW r PROVE Settled(r)' = Settled(r)
  BY DEF Settled, Imported, Queued
<1>8. \A k \in 1 .. Len(out)' : \A n \in DOMAIN Code(deps[k])' : Settled(Code(deps[k])[n])'
  BY <1>2, <1>7 DEF IInv, Followed
<1> QED
  BY <1>1, <1>4, <1>5, <1>6, <1>8

LEMMA FailKeeps == ASSUME IInv, Fail PROVE IInv'
<1> USE DEF Fail, loading, tracing
<1>1. TypeOK' /\ ModulesRead' /\ Untouched'
  BY DEF IInv, TypeOK, ModulesRead, Untouched
<1>2. OutIsPrefix' /\ Followed'
  BY SameTrace DEF OutIsPrefix, Followed
<1> QED
  BY <1>1, <1>2, SameTrace DEF IInv

(* A step of the first two phases leaves the worklist empty. *)
LEMMA EmptyTrace ==
  ASSUME deps' = << >>, out' = << >>, imps' = << >>, phase' # "trace",
         phase' \notin {"start", "linked"}
  PROVE  /\ OutIsPrefix' /\ MovedOnce' /\ Followed' /\ Untouched'
         /\ DepsWanted' /\ ImpsWanted' /\ ImpsOnce'
<1>1. DOMAIN deps' = {} /\ DOMAIN imps' = {} /\ Len(out') = 0 /\ Len(deps') = 0
  OBVIOUS
<1> QED
  BY <1>1 DEF OutIsPrefix, MovedOnce, Followed, Untouched, DepsWanted, ImpsWanted, ImpsOnce

LEMMA CollectKeeps == ASSUME IInv, Collect PROVE IInv'
<1> USE DEF Collect
<1>1. CASE Fail
  BY <1>1, FailKeeps
<1>2. CASE ~Fail
  <2> DEFINE m == given[i]
  <2>1. m \in Modules /\ IsModule(m)
    BY LinkerAssumption DEF IInv, TypeOK, ModulesRead
  <2>2. /\ pwb' = Append(pwb, m) /\ i' = i + 1 /\ mainmod' \in {mainmod, m.name}
        /\ mt' \in {mt, m.main}
        /\ UNCHANGED <<phase, given, deps, j, out, imps>>
    BY <1>2 DEF Fail, tracing
  <2>3. ModulesRead'
    BY <2>1, <2>2 DEF IInv, ModulesRead
  <2>4. \A k \in DOMAIN pwb' : IsModule(pwb'[k])
    BY <2>3, LinkerAssumption DEF ModulesRead
  <2>5. TypeOK'
    BY <2>1, <2>2, <2>4 DEF IInv, TypeOK, IsModule
  <2>6. deps' = << >> /\ out' = << >> /\ imps' = << >> /\ phase' = "collect"
    BY <2>2 DEF IInv, Untouched
  <2> QED
    BY <2>3, <2>5, <2>6, EmptyTrace DEF IInv
<1> QED
  BY <1>1, <1>2

LEMMA EndCollectKeeps == ASSUME IInv, EndCollect PROVE IInv'
<1>1. deps' = << >> /\ out' = << >> /\ imps' = << >> /\ phase' = "load"
  BY DEF IInv, Untouched, EndCollect, tracing
<1>2. TypeOK' /\ ModulesRead'
  BY DEF IInv, TypeOK, ModulesRead, EndCollect, loading, tracing
<1> QED
  BY <1>1, <1>2, EmptyTrace DEF IInv

LEMMA LoadStepKeeps == ASSUME IInv, LoadStep PROVE IInv'
<1> USE DEF LoadStep
<1> PICK n \in ext : Present(n) \/ Load(n)
  OBVIOUS
<1>1. CASE Fail
  BY <1>1, FailKeeps
<1>2. CASE Present(n)
  <2>1. deps' = << >> /\ out' = << >> /\ imps' = << >> /\ phase' = "load"
    BY <1>2 DEF IInv, Untouched, Present, tracing
  <2>2. TypeOK' /\ ModulesRead'
    BY <1>2 DEF IInv, TypeOK, ModulesRead, Present, tracing
  <2> QED
    BY <2>1, <2>2, EmptyTrace DEF IInv
<1>3. CASE Load(n) /\ ~Fail
  <2>1. /\ Library[File(n)] \in Modules
        /\ pwb' = Append(pwb, Library[File(n)])
        /\ UNCHANGED <<phase, given, i, mainmod, mt, tracing>>
    BY <1>3, LinkerAssumption DEF Load
  <2>2. ModulesRead'
    BY <2>1 DEF IInv, ModulesRead
  <2>3. TypeOK'
    BY <2>1, <2>2, LinkerAssumption DEF IInv, TypeOK, ModulesRead, tracing
  <2>4. deps' = << >> /\ out' = << >> /\ imps' = << >> /\ phase' = "load"
    BY <2>1 DEF IInv, Untouched, tracing
  <2> QED
    BY <2>2, <2>3, <2>4, EmptyTrace DEF IInv
<1> QED
  BY <1>1, <1>2, <1>3

(* The seeds are different globals, and the loop starts with none moved. *)
LEMMA EndLoadKeeps == ASSUME IInv, EndLoad PROVE IInv'
<1> DEFINE r1 == Ref(mainmod, MainId, "func")
           r2 == Ref(mainmod, StartId, "func")
           r3 == Ref(Crt, MemId, "mem")
<1>1. /\ out' = << >> /\ imps' = << >> /\ phase' = "trace" /\ i' = 1 /\ j' = 1
      /\ UNCHANGED <<given, pwb, mainmod, mt>>
      /\ deps' = <<r1, r2>> \/ deps' = <<r1, r2, r3>>
  BY DEF IInv, Untouched, EndLoad, loading
<1>2. r1 \in Reference /\ r2 \in Reference /\ r3 \in Reference
  BY LinkerAssumption DEF IInv, TypeOK, Ref, Reference, Kinds
<1>3. TypeOK' /\ ModulesRead' /\ Untouched'
  <2>1. deps' \in Seq(Reference)
    <3>1. <<r1, r2>> \in Seq(Reference) /\ <<r1, r2, r3>> \in Seq(Reference)
      <4> HIDE DEF r1, r2, r3
      <4> QED BY <1>2
    <3> QED BY <1>1, <3>1
  <2>2. out' \in Seq(Keys) /\ imps' \in Seq(Keys)
    BY <1>1
  <2> QED
    BY <1>1, <2>1, <2>2 DEF IInv, TypeOK, ModulesRead, Untouched
<1>4. Key(r1) # Key(r2) /\ Key(r1) # Key(r3) /\ Key(r2) # Key(r3)
  BY LinkerAssumption DEF Key, Ref
<1>5. MovedOnce'
  <2> SUFFICES ASSUME NEW k \in DOMAIN deps', NEW m \in DOMAIN deps',
                      Key(deps'[k]) = Key(deps'[m])
               PROVE  k = m
    BY DEF MovedOnce, Key
  <2>1. CASE deps' = <<r1, r2>>
    BY <2>1, <1>4
  <2>2. CASE deps' = <<r1, r2, r3>>
    BY <2>2, <1>4
  <2> QED
    BY <1>1, <2>1, <2>2
<1>6. OutIsPrefix' /\ Followed' /\ ImpsWanted' /\ ImpsOnce'
  BY <1>1 DEF OutIsPrefix, Followed, ImpsWanted, ImpsOnce
<1>7. DepsWanted'
  <2>1. Seeds' = {r1, r2, r3}
    BY <1>1 DEF Seeds, Ref
  <2> QED
    BY <1>1, <2>1 DEF DepsWanted
<1> QED
  BY <1>3, <1>5, <1>6, <1>7 DEF IInv

(* A reference is followed: the queue and the imports only grow, and the   *)
(* one added to them is the one looked at.                                 *)
LEMMA FollowRefKeeps == ASSUME IInv, FollowRef PROVE IInv'
<1> PICK r : r = Code(Cur)[j]
  OBVIOUS
<1>0. /\ phase = "trace" /\ i <= Len(deps) /\ Defines(Cur)
      /\ Refs(Cur) = Code(Cur) /\ Code(Cur) \in Seq(Reference) /\ Cur \in Reference
  BY CurUnmoved, CodeIsSeq DEF FollowRef, IInv, ModulesRead
<1>1. CASE Fail
  BY <1>1, FailKeeps
<1>2. CASE ~Fail
  <2>1. j \in DOMAIN Code(Cur) /\ r \in Reference /\ Key(r) \in Keys
    BY <1>0, KeyInKeys DEF FollowRef, IInv, TypeOK
  <2>2. /\ j' = j + 1
        /\ imps' = IF r.mod = Wasi /\ ~Imported(r) THEN Append(imps, Key(r)) ELSE imps
        /\ deps' = IF r.mod # Wasi /\ ~Queued(r) THEN Append(deps, r) ELSE deps
        /\ UNCHANGED <<phase, i, given, pwb, mainmod, mt, out>>
    BY <1>0, <1>2 DEF FollowRef, loading
  <2>3. /\ deps \in Seq(Reference) /\ imps \in Seq(Keys) /\ out \in Seq(Keys)
        /\ deps' \in Seq(Reference) /\ imps' \in Seq(Keys)
        /\ Len(deps') >= Len(deps) /\ Len(imps') >= Len(imps)
    BY <2>1, <2>2 DEF IInv, TypeOK
  <2>4. /\ \A k \in 1 .. Len(deps) : deps'[k] = deps[k]
        /\ \A k \in 1 .. Len(imps) : imps'[k] = imps[k]
    BY <2>1, <2>2, <2>3
  <2>d. /\ DOMAIN deps = 1 .. Len(deps) /\ DOMAIN deps' = 1 .. Len(deps')
        /\ DOMAIN imps = 1 .. Len(imps) /\ DOMAIN imps' = 1 .. Len(imps')
        /\ Len(deps) \in Nat /\ Len(deps') \in Nat /\ Len(imps) \in Nat /\ Len(imps') \in Nat
    BY <2>3
  <2>5. /\ \A k \in DOMAIN deps' : k > Len(deps) => deps'[k] = r /\ k = Len(deps) + 1 /\ ~Queued(r)
    BY <2>1, <2>2, <2>3
  <2>5i. \A k \in DOMAIN imps' : k > Len(imps) =>
             imps'[k] = Key(r) /\ k = Len(imps) + 1 /\ r.mod = Wasi /\ ~Imported(r)
    BY <2>1, <2>2, <2>3
  <2>6. TypeOK' /\ ModulesRead' /\ Untouched'
    BY <2>2, <2>3, <1>0 DEF IInv, TypeOK, ModulesRead, Untouched
  <2>7. \A x : Code(x)' = Code(x) /\ Defines(x)' = Defines(x)
    BY <2>2, SameModules
  <2>8. OutIsPrefix'
    BY <1>0, <2>2, <2>3, <2>4, <2>7 DEF IInv, OutIsPrefix, Key
  <2>9. MovedOnce'
    <3> SUFFICES ASSUME NEW k \in DOMAIN deps', NEW m \in DOMAIN deps',
                        Key(deps'[k]) = Key(deps'[m]), k < m
                 PROVE  FALSE
      BY <2>3 DEF MovedOnce, Key
    <3>1. k \in DOMAIN deps /\ deps'[k] = deps[k]
      BY <2>3, <2>4, <2>5
    <3>2. CASE m <= Len(deps)
      <4>1. m \in DOMAIN deps /\ deps'[m] = deps[m]
        BY <2>d, <2>4, <3>2
      <4>2. Key(deps[k]) = Key(deps[m])
        BY <3>1, <4>1
      <4>3. MovedOnce
        BY DEF IInv
      <4> QED
        BY <3>1, <4>1, <4>2, <4>3, <2>d DEF MovedOnce
    <3>3. CASE m > Len(deps)
      BY <2>3, <2>5, <3>1, <3>3 DEF Queued
    <3> QED
      BY <2>3, <3>2, <3>3
  <2>10. \A x : Settled(x) => Settled(x)'
    <3> SUFFICES ASSUME NEW x, Settled(x) PROVE Settled(x)'
      OBVIOUS
    <3>1. CASE x.mod = Wasi
      <4>1. PICK k \in DOMAIN imps : imps[k] = Key(x)
        BY <3>1 DEF Settled, Imported
      <4>2. k \in DOMAIN imps' /\ imps'[k] = Key(x)
        BY <2>3, <2>4, <2>d, <4>1
      <4> QED
        BY <3>1, <4>2 DEF Settled, Imported, Key
    <3>2. CASE x.mod # Wasi
      <4>1. PICK k \in DOMAIN deps : Key(deps[k]) = Key(x)
        BY <3>2 DEF Settled, Queued
      <4>2. k \in DOMAIN deps' /\ Key(deps'[k]) = Key(x)
        BY <2>3, <2>4, <2>d, <4>1
      <4> QED
        BY <3>2, <4>2 DEF Settled, Queued, Key
    <3> QED
      BY <3>1, <3>2
  <2>11. Settled(r)'
    <3>1. CASE r.mod = Wasi /\ ~Imported(r)
      <4>1. imps' = Append(imps, Key(r))
        BY <2>2, <3>1
      <4>2. Len(imps) + 1 \in DOMAIN imps' /\ imps'[Len(imps) + 1] = Key(r)
        BY <2>1, <2>3, <4>1
      <4> QED
        BY <3>1, <4>2 DEF Settled, Imported, Key
    <3>2. CASE r.mod # Wasi /\ ~Queued(r)
      <4>1. deps' = Append(deps, r)
        BY <2>2, <3>2
      <4>2. Len(deps) + 1 \in DOMAIN deps' /\ deps'[Len(deps) + 1] = r
        BY <2>1, <2>3, <4>1
      <4> QED
        BY <3>2, <4>2 DEF Settled, Queued, Key
    <3> QED
      BY <2>10, <3>1, <3>2 DEF Settled
  <2>12. Followed'
    <3>1. Cur' = Cur
      BY <1>0, <2>2, <2>3, <2>4 DEF Cur, IInv, TypeOK
    <3>2. ASSUME NEW n \in DOMAIN Code(Cur), n \in 1 .. j, NEW x, x = Code(Cur)[n]
          PROVE  Settled(x)'
      <4>1. CASE n = j
        BY <2>11, <3>2, <4>1
      <4>2. CASE n # j
        <5>1. n \in 1 .. (j - 1)
          BY <3>2, <4>2 DEF IInv, TypeOK
        <5> QED
          BY <1>0, <2>10, <3>2, <5>1 DEF IInv, Followed
      <4> QED
        BY <1>0, <2>1, <3>2, <4>1, <4>2
    <3>3. ASSUME NEW k \in 1 .. Len(out), NEW n \in DOMAIN Code(deps[k]),
                 NEW x, x = Code(deps[k])[n]
          PROVE  Settled(x)'
      BY <2>10, <3>3 DEF IInv, Followed
    <3>4. \A k \in 1 .. Len(out) : deps'[k] = deps[k]
      BY <2>3, <2>4 DEF IInv, OutIsPrefix
    <3>5. \A k \in 1 .. Len(out)' : \A n \in DOMAIN Code(deps[k])' :
             Settled(Code(deps[k])[n])'
      BY <2>2, <2>7, <3>3, <3>4
    <3>6. \A n \in DOMAIN Code(Cur)' : n \in 1 .. (j' - 1) => Settled(Code(Cur)[n])'
      <4>1. j' - 1 = j
        BY <2>2 DEF IInv, TypeOK
      <4> QED
        BY <2>7, <3>1, <3>2, <4>1
    <3> QED
      BY <3>5, <3>6 DEF Followed
  <2>13. i \in DOMAIN deps /\ deps[i] = Cur
    BY <1>0 DEF Cur, IInv, TypeOK
  <2>14. DepsWanted'
    <3> SUFFICES ASSUME NEW k \in DOMAIN deps'
                 PROVE  \/ deps'[k] \in Seeds'
                        \/ \E m \in 1 .. (k - 1) : \E n \in DOMAIN Code(deps'[m]) :
                              Code(deps'[m])[n] = deps'[k]
      BY <2>7 DEF DepsWanted
    <3>1. CASE k <= Len(deps)
      <4>1. k \in DOMAIN deps /\ deps'[k] = deps[k] /\ Seeds' = Seeds
            /\ \A m \in 1 .. (k - 1) : deps'[m] = deps[m]
        BY <2>2, <2>3, <2>4, <3>1 DEF Seeds, Ref
      <4> QED
        BY <4>1 DEF IInv, DepsWanted
    <3>2. CASE k > Len(deps)
      <4>1. deps'[k] = r /\ i \in 1 .. (k - 1) /\ deps'[i] = Cur
        BY <2>3, <2>4, <2>5, <2>13, <3>2
      <4> QED
        BY <2>1, <4>1
    <3> QED
      BY <2>d, <3>1, <3>2
  <2>15. ImpsWanted'
    <3> SUFFICES ASSUME NEW k \in DOMAIN imps'
                 PROVE  \E m \in DOMAIN deps' : \E n \in DOMAIN Code(deps'[m]) :
                           Code(deps'[m])[n].mod = Wasi /\ Key(Code(deps'[m])[n]) = imps'[k]
      BY <2>7 DEF ImpsWanted, Key
    <3>0. \A m \in DOMAIN deps : m \in DOMAIN deps' /\ deps'[m] = deps[m]
      BY <2>3, <2>4, <2>d
    <3>1. CASE k <= Len(imps)
      <4>1. k \in DOMAIN imps /\ imps'[k] = imps[k]
        BY <2>4, <2>d, <3>1
      <4>2. PICK m \in DOMAIN deps : \E n \in DOMAIN Code(deps[m]) :
                     Code(deps[m])[n].mod = Wasi /\ Key(Code(deps[m])[n]) = imps[k]
        BY <4>1 DEF IInv, ImpsWanted
      <4>3. m \in DOMAIN deps' /\ deps'[m] = deps[m]
        BY <3>0
      <4> QED
        BY <4>1, <4>2, <4>3
    <3>2. CASE k > Len(imps)
      <4>1. imps'[k] = Key(r) /\ r.mod = Wasi
        BY <2>5i, <3>2
      <4>2. i \in DOMAIN deps' /\ deps'[i] = Cur
        BY <2>13, <3>0
      <4> QED
        BY <2>1, <4>1, <4>2
    <3> QED
      BY <2>d, <3>1, <3>2
  <2>16. ImpsOnce'
    <3> SUFFICES ASSUME NEW k \in DOMAIN imps', NEW m \in DOMAIN imps',
                        imps'[k] = imps'[m], k < m
                 PROVE  FALSE
      BY <2>d DEF ImpsOnce
    <3>1. k \in DOMAIN imps /\ imps'[k] = imps[k]
      BY <2>d, <2>4, <2>5i
    <3>2. CASE m <= Len(imps)
      <4>1. m \in DOMAIN imps /\ imps'[m] = imps[m]
        BY <2>d, <2>4, <3>2
      <4>2. imps[k] = imps[m]
        BY <3>1, <4>1
      <4>3. k = m
        BY <3>1, <4>1, <4>2 DEF IInv, ImpsOnce
      <4> QED
        BY <2>d, <4>3
    <3>3. CASE m > Len(imps)
      <4>1. imps'[m] = Key(r) /\ ~Imported(r)
        BY <2>5i, <3>3
      <4>2. imps[k] = Key(r)
        BY <3>1, <4>1
      <4> QED
        BY <3>1, <4>1, <4>2 DEF Imported
    <3> QED
      BY <2>d, <3>2, <3>3
  <2> QED
    BY <2>6, <2>8, <2>9, <2>12, <2>14, <2>15, <2>16 DEF IInv
<1> QED
  BY <1>1, <1>2

(* The end of the loop over the code: all of it is settled. *)
LEMMA MoveGlobalKeeps == ASSUME IInv, MoveGlobal PROVE IInv'
<1>1. /\ phase = "trace" /\ i <= Len(deps) /\ Defines(Cur)
      /\ Refs(Cur) = Code(Cur) /\ Code(Cur) \in Seq(Reference) /\ Cur \in Reference
      /\ Cur = deps[i] /\ i \in DOMAIN deps
  BY CurUnmoved, CodeIsSeq DEF MoveGlobal, IInv, ModulesRead, TypeOK, Cur
<1>2. /\ out' = Append(out, Key(Cur)) /\ i' = i + 1 /\ j' = 1
      /\ UNCHANGED <<phase, given, pwb, mainmod, mt, deps, imps>>
  BY DEF MoveGlobal, loading
<1>3. Len(out) + 1 = i /\ Key(Cur) \in Keys /\ out \in Seq(Keys) /\ i \in Nat
  BY <1>1, KeyInKeys DEF IInv, OutIsPrefix, TypeOK
<1>4. /\ Len(out') = i /\ out' \in Seq(Keys) /\ out'[i] = Key(Cur)
      /\ \A k \in 1 .. (i - 1) : out'[k] = out[k]
  BY <1>2, <1>3
<1>5. TypeOK' /\ ModulesRead' /\ Untouched'
  BY <1>1, <1>2, <1>3, <1>4 DEF IInv, TypeOK, ModulesRead, Untouched
<1>6. \A x : Code(x)' = Code(x) /\ Defines(x)' = Defines(x)
  BY <1>2, SameModules
<1>7. \A x : Settled(x)' = Settled(x)
  BY <1>2 DEF Settled, Imported, Queued
<1>8. OutIsPrefix'
  <2> SUFFICES ASSUME NEW k \in 1 .. i PROVE out'[k] = Key(deps[k]) /\ Defines(deps[k])
    BY <1>1, <1>2, <1>3, <1>4, <1>6 DEF OutIsPrefix, Key
  <2>1. CASE k = i
    BY <1>1, <1>4, <2>1
  <2>2. CASE k # i
    BY <1>3, <1>4, <2>2 DEF IInv, OutIsPrefix
  <2> QED
    BY <2>1, <2>2
<1>9. Followed'
  <2>1. ASSUME NEW k \in 1 .. i, NEW n \in DOMAIN Code(deps[k]), NEW x, x = Code(deps[k])[n]
        PROVE  Settled(x)
    <3>1. CASE k = i
      <4>1. n \in 1 .. (j - 1)
        BY <1>1, <3>1 DEF MoveGlobal, IInv, TypeOK
      <4> QED
        BY <1>1, <2>1, <3>1, <4>1 DEF IInv, Followed
    <3>2. CASE k # i
      BY <1>3, <2>1, <3>2 DEF IInv, Followed
    <3> QED
      BY <3>1, <3>2
  <2>2. 1 .. (j' - 1) = {}
    BY <1>2
  <2> QED
    BY <1>2, <1>4, <1>6, <1>7, <2>1, <2>2 DEF Followed
<1>10. MovedOnce' /\ DepsWanted' /\ ImpsWanted' /\ ImpsOnce'
  <2>1. Seeds' = Seeds
    BY <1>2 DEF Seeds, Ref
  <2>2. MovedOnce' /\ ImpsOnce'
    BY <1>2 DEF IInv, MovedOnce, ImpsOnce
  <2>3. DepsWanted'
    BY <1>2, <1>6, <2>1 DEF IInv, DepsWanted
  <2>4. ImpsWanted'
    BY <1>2, <1>6 DEF IInv, ImpsWanted
  <2> QED
    BY <2>2, <2>3, <2>4
<1> QED
  BY <1>5, <1>8, <1>9, <1>10 DEF IInv

LEMMA EndTraceKeeps == ASSUME IInv, EndTrace \/ CheckStart PROVE IInv'
<1>1. /\ UNCHANGED <<i, given, pwb, mainmod, mt, deps, j, out, imps>>
      /\ phase' \in {"start", "linked", "error"} /\ Len(out) = Len(deps)
  <2>1. CASE EndTrace
    BY <2>1 DEF EndTrace, IInv, OutIsPrefix, TypeOK, loading, tracing
  <2>2. CASE CheckStart
    BY <2>2 DEF CheckStart, IInv, OutIsPrefix, loading, tracing
  <2> QED
    BY <2>1, <2>2
<1>2. TypeOK' /\ ModulesRead' /\ Untouched'
  BY <1>1 DEF IInv, TypeOK, ModulesRead, Untouched
<1>3. OutIsPrefix' /\ Followed'
  BY <1>1, SameTrace DEF OutIsPrefix, Followed
<1> QED
  BY <1>1, <1>2, <1>3, SameTrace DEF IInv

LEMMA NextKeeps == IInv /\ [Next]_vars => IInv'
<1> SUFFICES ASSUME IInv, [Next]_vars PROVE IInv'
  OBVIOUS
<1>1. CASE Collect
  BY <1>1, CollectKeeps
<1>2. CASE EndCollect
  BY <1>2, EndCollectKeeps
<1>3. CASE LoadStep
  BY <1>3, LoadStepKeeps
<1>4. CASE EndLoad
  BY <1>4, EndLoadKeeps
<1>5. CASE Undefined
  BY <1>5, FailKeeps DEF Undefined
<1>6. CASE FollowRef
  BY <1>6, FollowRefKeeps
<1>7. CASE MoveGlobal
  BY <1>7, MoveGlobalKeeps
<1>8. CASE EndTrace \/ CheckStart
  BY <1>8, EndTraceKeeps
<1>9. CASE UNCHANGED vars
  <2> USE <1>9 DEF vars, loading, tracing
  <2>1. TypeOK' /\ ModulesRead' /\ Untouched'
    BY DEF IInv, TypeOK, ModulesRead, Untouched
  <2>2. OutIsPrefix'
    BY SameTrace DEF IInv, OutIsPrefix
  <2>3. \A x : Code(x)' = Code(x)
    BY SameModules
  <2>4. Cur' = Cur /\ \A x : Settled(x)' = Settled(x)
    BY DEF Cur, Settled, Imported, Queued
  <2>5. Followed'
    BY <2>3, <2>4 DEF IInv, Followed
  <2> QED
    BY <2>1, <2>2, <2>5, SameTrace DEF IInv
<1> QED
  BY <1>1, <1>2, <1>3, <1>4, <1>5, <1>6, <1>7, <1>8, <1>9 DEF Next

(* The linker's state is always as IInv describes it. *)
THEOREM Invariance == Spec => []IInv
BY InitHolds, NextKeeps, PTL DEF Spec

(* Types are kept. *)
THEOREM TypeCorrect == Spec => []TypeOK
<1>1. IInv => TypeOK
  BY DEF IInv
<1> QED
  BY <1>1, Invariance, PTL

(* No global is moved to the output twice. *)
THEOREM MovesOnce == Spec => []MovedOnce
<1>1. IInv => MovedOnce
  BY DEF IInv
<1> QED
  BY <1>1, Invariance, PTL

(* When the worklist is empty, what the output refers to is in the output  *)
(* or imported.                                                            *)
THEOREM Complete == Spec => []NothingDangles
<1>1. IInv => NothingDangles
  <2> SUFFICES ASSUME IInv, phase \in {"start", "linked"},
                      NEW k \in DOMAIN deps, NEW n \in DOMAIN Code(deps[k]),
                      NEW r, r = Code(deps[k])[n]
               PROVE  IF r.mod = Wasi THEN Imported(r) ELSE InOut(r)
    BY DEF NothingDangles
  <2>1. Len(out) = Len(deps) /\ DOMAIN deps = 1 .. Len(out) /\ DOMAIN out = 1 .. Len(out)
    BY DEF IInv, OutIsPrefix, TypeOK
  <2>2. Settled(r)
    BY <2>1 DEF IInv, Followed
  <2>3. CASE r.mod # Wasi
    <3>1. PICK m \in DOMAIN deps : Key(deps[m]) = Key(r)
      BY <2>2, <2>3 DEF Settled, Queued
    <3>2. m \in DOMAIN out /\ out[m] = Key(r)
      BY <2>1, <3>1 DEF IInv, OutIsPrefix
    <3> QED
      BY <2>3, <3>2 DEF InOut
  <2> QED
    BY <2>2, <2>3 DEF Settled
<1> QED
  BY <1>1, Invariance, PTL

(* Nothing is put out or imported that the seeds do not lead to. *)
THEOREM Needed == Spec => []NothingUnused
<1>1. IInv => NothingUnused
  BY DEF IInv, NothingUnused, DepsWanted, ImpsWanted, ImpsOnce
<1> QED
  BY <1>1, Invariance, PTL
-----------------------------------------------------------------------------
(* The names and modules of the loading phases: a module given or loaded   *)
(* for a name that is imported, each once, and the names left to look for. *)
LoadInv ==
  /\ phase = "collect" => /\ tried = {} /\ Len(pwb) = i - 1 /\ i - 1 <= Len(given)
                          /\ \A k \in 1 .. (i - 1) : pwb[k] = given[k]
  /\ phase \notin {"collect", "error"} => Names(given) \subseteq Names(pwb)
  /\ ext \subseteq Mods
  /\ \A k \in DOMAIN pwb : ImportedMods(pwb[k]) \subseteq ext
  /\ tried \subseteq Names(pwb) \cup {Wasi}
  /\ Names(pwb) \subseteq Names(given) \cup tried
  /\ \A k, m \in DOMAIN pwb : pwb[k].name = pwb[m].name => k = m
  /\ phase \notin {"collect", "load", "error"} => ext \subseteq tried

(* Every file of the library holds the module it is named after, the C     *)
(* runtime's in its variants; load_library_wat_module does not look at the *)
(* name in the file.                                                       *)
LibraryNamed ==
  \A n \in Mods, m \in Mains :
    LET f == IF n = Crt THEN CrtFile[m] ELSE n
    IN  f \in DOMAIN Library => Library[f].name = n

(* One more module read. *)
LEMMA AppendNames ==
  ASSUME pwb \in Seq(Modules), NEW m \in Modules, pwb' = Append(pwb, m)
  PROVE  /\ Names(pwb)' = Names(pwb) \cup {m.name}
         /\ Len(pwb)' = Len(pwb) + 1 /\ pwb'[Len(pwb) + 1] = m
         /\ \A k \in DOMAIN pwb : k \in DOMAIN pwb' /\ pwb'[k] = pwb[k]
         /\ \A k \in DOMAIN pwb' : k \in DOMAIN pwb \/ k = Len(pwb) + 1
<1>1. /\ DOMAIN pwb = 1 .. Len(pwb) /\ DOMAIN pwb' = 1 .. (Len(pwb) + 1) /\ Len(pwb) \in Nat
      /\ Len(pwb)' = Len(pwb) + 1 /\ pwb'[Len(pwb) + 1] = m
      /\ \A k \in 1 .. Len(pwb) : pwb'[k] = pwb[k]
  OBVIOUS
<1>2. \A k \in DOMAIN pwb' : k \in DOMAIN pwb \/ k = Len(pwb) + 1
  BY <1>1
<1>3. \A k \in DOMAIN pwb : k \in DOMAIN pwb' /\ pwb'[k] = pwb[k]
  BY <1>1
<1>4. Len(pwb) + 1 \in DOMAIN pwb'
  BY <1>1
<1>5. Names(pwb)' = Names(pwb) \cup {m.name}
  BY <1>1, <1>2, <1>3, <1>4, Zenon DEF Names
<1> QED BY <1>1, <1>2, <1>3, <1>5

(* A module of a new name leaves names distinct and imports looked for.    *)
LEMMA AppendLoad ==
  ASSUME pwb \in Seq(Modules), NEW m \in Modules, pwb' = Append(pwb, m),
         m.name \notin Names(pwb), ext' = ext \cup ImportedMods(m), LoadInv
  PROVE  /\ ext' \subseteq Mods
         /\ \A k \in DOMAIN pwb' : ImportedMods(pwb'[k]) \subseteq ext'
         /\ \A k, n \in DOMAIN pwb' : pwb'[k].name = pwb'[n].name => k = n
<1>1. IsModule(m)
  BY LinkerAssumption
<1>2. ImportedMods(m) \subseteq Mods
  BY <1>1 DEF IsModule, ImportedMods, Keys
<1>3. \A k \in DOMAIN pwb : pwb[k].name # m.name
  BY DEF Names
<1>4. /\ pwb'[Len(pwb) + 1] = m
      /\ \A k \in DOMAIN pwb : k \in DOMAIN pwb' /\ pwb'[k] = pwb[k]
      /\ \A k \in DOMAIN pwb' : k \in DOMAIN pwb \/ k = Len(pwb) + 1
  BY AppendNames
<1>5. \A k \in DOMAIN pwb' : ImportedMods(pwb'[k]) \subseteq ext'
  BY <1>4 DEF LoadInv
<1>6. ASSUME NEW k \in DOMAIN pwb', NEW n \in DOMAIN pwb', pwb'[k].name = pwb'[n].name PROVE k = n
  BY <1>3, <1>4, <1>6, Zenon DEF LoadInv
<1> QED BY <1>2, <1>5, <1>6 DEF LoadInv

(* No step reads a module twice or forgets a name. *)
LEMMA LoadInvKept == ASSUME LibraryNamed, IInv, LoadInv, [Next]_vars PROVE LoadInv'
<1>0. /\ given \in Seq(Modules) /\ pwb \in Seq(Modules) /\ i \in Nat \ {0} /\ mt \in Mains
  BY DEF IInv, TypeOK, ModulesRead
<1>1. ASSUME UNCHANGED <<given, pwb, ext, tried>>, phase' # "collect",
             phase' # "error" => phase # "collect" /\ phase # "error",
             phase' \notin {"collect", "load", "error"} => ext \subseteq tried
      PROVE  LoadInv'
  <2>1. Names(given)' = Names(given) /\ Names(pwb)' = Names(pwb)
    BY <1>1 DEF Names
  <2>2. \A k \in DOMAIN pwb' : ImportedMods(pwb'[k]) \subseteq ext'
    BY <1>1 DEF LoadInv, ImportedMods
  <2> QED BY <1>1, <2>1, <2>2, Zenon DEF LoadInv
<1>2. ASSUME Fail PROVE LoadInv'
  BY <1>1, <1>2 DEF Fail, loading
<1>3. CASE Collect /\ ~Fail
  <2> DEFINE m == given[i]
  <2>1. /\ phase = "collect" /\ i <= Len(given) /\ m.name \notin Names(pwb) /\ m \in Modules
        /\ pwb' = Append(pwb, m) /\ ext' = ext \cup ImportedMods(m) /\ i' = i + 1
        /\ UNCHANGED <<phase, given, tried>>
    BY <1>0, <1>3 DEF Collect
  <2> HIDE DEF m
  <2>2. /\ ext' \subseteq Mods
        /\ \A k \in DOMAIN pwb' : ImportedMods(pwb'[k]) \subseteq ext'
        /\ \A k, n \in DOMAIN pwb' : pwb'[k].name = pwb'[n].name => k = n
    BY <1>0, <2>1, AppendLoad
  <2>3. Names(pwb)' = Names(pwb) \cup {m.name} /\ Len(pwb)' = Len(pwb) + 1 /\ pwb'[Len(pwb) + 1] = m
        /\ \A k \in DOMAIN pwb : pwb'[k] = pwb[k]
    BY <1>0, <2>1, AppendNames
  <2>4. /\ tried' = {} /\ Len(pwb)' = i' - 1 /\ i' - 1 <= Len(given')
        /\ \A k \in 1 .. (i' - 1) : pwb'[k] = given'[k]
    <3>1. /\ tried' = {} /\ Len(pwb) = i - 1 /\ Len(pwb)' = i /\ i' - 1 = i /\ i <= Len(given')
      BY <1>0, <2>1, <2>3 DEF LoadInv
    <3>2. \A k \in 1 .. (i - 1) : k \in DOMAIN pwb /\ pwb[k] = given[k]
      BY <1>0, <2>1, <3>1 DEF LoadInv
    <3>3. \A k \in 1 .. i : k \in 1 .. (i - 1) \/ k = i
      BY <1>0
    <3>4. (i - 1) + 1 = i
      BY <1>0
    <3>5. \A k \in 1 .. i : pwb'[k] = given[k]
      BY <2>3, <3>1, <3>2, <3>3, <3>4 DEF m
    <3> QED BY <2>1, <3>1, <3>5
  <2>5. Names(pwb)' \subseteq Names(given)' \cup tried'
    <3>1. m.name \in Names(given)
      BY <1>0, <2>1 DEF Names, m
    <3>2. Names(given)' = Names(given)
      BY <2>1 DEF Names
    <3> QED BY <2>1, <2>3, <3>1, <3>2 DEF LoadInv
  <2>6. tried' \subseteq Names(pwb)' \cup {Wasi}
    BY <2>4
  <2> QED BY <2>1, <2>2, <2>4, <2>5, <2>6 DEF LoadInv, ImportedMods
<1>4. CASE EndCollect
  <2>1. /\ phase = "collect" /\ i > Len(given) /\ phase' = "load" /\ UNCHANGED <<given, pwb, ext, tried>>
    BY <1>4 DEF EndCollect, loading
  <2>2. Names(given) \subseteq Names(pwb)
    <3>1. \A k \in DOMAIN given : k \in DOMAIN pwb /\ pwb[k] = given[k]
      BY <1>0, <2>1 DEF LoadInv
    <3> QED BY <3>1 DEF Names
  <2> QED BY <2>1, <2>2 DEF LoadInv, Names, ImportedMods
<1>5. ASSUME NEW n \in ext, phase = "load", Present(n) PROVE LoadInv'
  <2>1. /\ n \in Names(given) \cup {Wasi} /\ tried' = tried \cup {n}
        /\ UNCHANGED <<phase, given, pwb, ext>>
    BY <1>5 DEF Present
  <2>2. Names(given)' = Names(given) /\ Names(pwb)' = Names(pwb) /\ Names(given) \subseteq Names(pwb)
    BY <1>5, <2>1 DEF Names, LoadInv
  <2> QED BY <1>5, <2>1, <2>2 DEF LoadInv, ImportedMods
<1>6. ASSUME NEW n \in ext, phase = "load", Load(n), ~Fail PROVE LoadInv'
  <2> DEFINE m == Library[File(n)]
  <2>1. /\ n \notin tried /\ n \notin Names(given) \cup {Wasi}
        /\ File(n) \in DOMAIN Library /\ m \in Modules
        /\ pwb' = Append(pwb, m) /\ ext' = ext \cup ImportedMods(m) /\ tried' = tried \cup {n}
        /\ UNCHANGED <<phase, given>>
    BY <1>6, LinkerAssumption DEF Load
  <2>2. m.name = n
    <3>1. n \in Mods
      BY DEF LoadInv
    <3> QED BY <1>0, <2>1, <3>1 DEF LibraryNamed, File
  <2> HIDE DEF m
  <2>3. m.name \notin Names(pwb)
    BY <2>1, <2>2 DEF LoadInv
  <2>4. /\ ext' \subseteq Mods
        /\ \A k \in DOMAIN pwb' : ImportedMods(pwb'[k]) \subseteq ext'
        /\ \A k, q \in DOMAIN pwb' : pwb'[k].name = pwb'[q].name => k = q
    BY <1>0, <2>1, <2>3, AppendLoad
  <2>5. Names(pwb)' = Names(pwb) \cup {n} /\ Names(given)' = Names(given)
    BY <1>0, <2>1, <2>2, AppendNames DEF Names
  <2> QED BY <1>6, <2>1, <2>4, <2>5 DEF LoadInv, ImportedMods
<1>7. CASE EndLoad
  BY <1>1, <1>7 DEF EndLoad, loading
<1>8. CASE Undefined \/ FollowRef \/ MoveGlobal \/ EndTrace \/ CheckStart
  <2>1. CASE Fail
    BY <1>2, <2>1
  <2>2. CASE ~Fail
    <3>1. UNCHANGED <<given, pwb, ext, tried>> /\ phase \in {"trace", "start"} /\ phase' # "collect"
      BY <1>8, <2>2 DEF Undefined, FollowRef, MoveGlobal, EndTrace, CheckStart, loading
    <3> QED BY <1>1, <3>1 DEF LoadInv
  <2> QED BY <2>1, <2>2
<1>9. CASE UNCHANGED vars
  BY <1>9 DEF vars, loading, LoadInv, Names, ImportedMods
<1>10. CASE LoadStep
  BY <1>2, <1>5, <1>6, <1>10 DEF LoadStep
<1> QED BY <1>2, <1>3, <1>4, <1>7, <1>8, <1>9, <1>10 DEF Next

(* When loading is over the modules read are those that are imported from, *)
(* each once, if the library's files are named after their modules.        *)
THEOREM LoadsAll == LibraryNamed => (Spec => []ModulesComplete)
<1> SUFFICES ASSUME LibraryNamed PROVE Spec => []ModulesComplete
  OBVIOUS
<1>1. Init => LoadInv
  BY LinkerAssumption DEF Init, LoadInv, Names
<1>2. IInv /\ LoadInv /\ [Next]_vars => LoadInv'
  BY LoadInvKept
<1>3. LoadInv => ModulesComplete
  BY DEF LoadInv, ModulesComplete
<1> QED BY <1>1, <1>2, <1>3, Invariance, PTL DEF Spec
-----------------------------------------------------------------------------
(* The seeds there are: the memory is one if the C runtime is read.        *)
Wanted == {s \in Seeds : s.iek = "mem" => env # None}

SeedsQueued == phase \in {"trace", "start", "linked"} => \A s \in Wanted : Queued(s)

DepsReached ==
  \A k \in DOMAIN deps :
    \/ deps[k] \in Wanted
    \/ /\ deps[k].mod # Wasi
       /\ \E m \in 1 .. (k - 1) : \E n \in DOMAIN Code(deps[m]) : Code(deps[m])[n] = deps[k]

(* What is queued is a seed or reached from what was queued before it, and *)
(* the seeds are queued.                                                   *)
LEMMA ReachKept == ASSUME IInv, SeedsQueued, DepsReached, [Next]_vars PROVE SeedsQueued' /\ DepsReached'
<1>0. /\ deps \in Seq(Reference) /\ i \in Nat \ {0} /\ j \in Nat \ {0} /\ pwb \in Seq(Modules)
      /\ DOMAIN deps = 1 .. Len(deps) /\ Len(deps) \in Nat
  BY DEF IInv, TypeOK, ModulesRead
<1>1. ASSUME deps' = << >>, phase' \notin {"trace", "start", "linked"} PROVE SeedsQueued' /\ DepsReached'
  BY <1>1 DEF SeedsQueued, DepsReached
<1>2. ASSUME UNCHANGED <<deps, pwb, mainmod, env>>,
             phase' \in {"trace", "start", "linked"} => phase \in {"trace", "start", "linked"}
      PROVE  SeedsQueued' /\ DepsReached'
  <2>1. \A x : Code(x)' = Code(x) /\ Queued(x)' = Queued(x)
    BY <1>2, SameModules DEF Queued, Key
  <2>2. Wanted' = Wanted
    BY <1>2 DEF Wanted, Seeds, Ref
  <2>3. SeedsQueued'
    BY <1>2, <2>1, <2>2 DEF SeedsQueued
  <2>4. DepsReached'
    BY <1>2, <2>1, <2>2 DEF DepsReached
  <2> QED BY <2>3, <2>4
<1>3. CASE Fail \/ UNCHANGED vars
  BY <1>2, <1>3 DEF Fail, vars, loading, tracing
<1>4. CASE (Collect \/ EndCollect \/ LoadStep) /\ ~Fail
  <2>1. phase \in {"collect", "load"} /\ deps' = deps /\ phase' \in {"collect", "load"}
    BY <1>4 DEF Collect, EndCollect, LoadStep, Present, Load, loading, tracing
  <2> QED BY <1>1, <2>1 DEF IInv, Untouched
<1>5. CASE EndLoad
  <2> DEFINE r1 == Ref(mainmod, MainId, "func")
             r2 == Ref(mainmod, StartId, "func")
             r3 == Ref(Crt, MemId, "mem")
  <2>1. /\ deps' = IF env # None THEN <<r1, r2, r3>> ELSE <<r1, r2>>
        /\ UNCHANGED <<mainmod, env>>
    BY <1>5 DEF EndLoad, loading
  <2>2. r1.iek = "func" /\ r2.iek = "func" /\ r3.iek = "mem" /\ Seeds = {r1, r2, r3}
    BY DEF Ref, Seeds
  <2>3. Wanted' = Wanted
    BY <2>1 DEF Wanted, Seeds, Ref
  <2> HIDE DEF r1, r2, r3
  <2>4. Wanted = IF env # None THEN {r1, r2, r3} ELSE {r1, r2}
    BY <2>2 DEF Wanted
  <2>5. /\ \A k \in DOMAIN deps' : deps'[k] \in Wanted
        /\ \A s \in Wanted : \E k \in DOMAIN deps' : deps'[k] = s
    <3>1. CASE env # None
      <4>1. DOMAIN deps' = 1 .. 3 /\ deps'[1] = r1 /\ deps'[2] = r2 /\ deps'[3] = r3
        BY <2>1, <3>1
      <4> QED BY <2>4, <3>1, <4>1
    <3>2. CASE env = None
      <4>1. DOMAIN deps' = 1 .. 2 /\ deps'[1] = r1 /\ deps'[2] = r2
        BY <2>1, <3>2
      <4> QED BY <2>4, <3>2, <4>1
    <3> QED BY <3>1, <3>2
  <2>6. \A s \in Wanted : Queued(s)'
    BY <2>5 DEF Queued, Key
  <2> QED BY <2>3, <2>5, <2>6 DEF SeedsQueued, DepsReached
<1>6. CASE FollowRef /\ ~Fail
  <2> DEFINE r == Code(Cur)[j]
  <2>1. /\ phase = "trace" /\ i \in DOMAIN deps /\ Cur = deps[i] /\ j \in DOMAIN Code(Cur) /\ r \in Reference
        /\ deps' = IF r.mod # Wasi /\ ~Queued(r) THEN Append(deps, r) ELSE deps
        /\ UNCHANGED <<phase, pwb, mainmod, env>>
    <3>1. /\ phase = "trace" /\ i <= Len(deps) /\ Refs(Cur) = Code(Cur) /\ Code(Cur) \in Seq(Reference)
      BY <1>0, <1>6, CurUnmoved, CodeIsSeq DEF FollowRef
    <3>2. j \in DOMAIN Code(Cur)
      BY <1>0, <1>6, <3>1 DEF FollowRef
    <3>3. /\ deps' = IF r.mod # Wasi /\ ~Queued(r) THEN Append(deps, r) ELSE deps
          /\ UNCHANGED <<phase, pwb, mainmod, env>>
      BY <1>6, <3>1 DEF FollowRef, loading
    <3> QED BY <1>0, <3>1, <3>2, <3>3 DEF Cur
  <2>2. CASE deps' = deps
    BY <1>2, <2>1, <2>2
  <2>3. CASE r.mod # Wasi /\ deps' = Append(deps, r)
    <3> HIDE DEF r
    <3>1. /\ DOMAIN deps' = 1 .. (Len(deps) + 1) /\ deps'[Len(deps) + 1] = r
          /\ \A k \in 1 .. Len(deps) : deps'[k] = deps[k]
      BY <1>0, <2>1, <2>3
    <3>2. \A x : Code(x)' = Code(x)
      BY <2>1, SameModules
    <3>3. Wanted' = Wanted
      BY <2>1 DEF Wanted, Seeds, Ref
    <3>4. DepsReached'
      <4> SUFFICES ASSUME NEW k \in DOMAIN deps', deps'[k] \notin Wanted
                   PROVE  /\ deps'[k].mod # Wasi
                          /\ \E m \in 1 .. (k - 1) : \E n \in DOMAIN Code(deps'[m]) : Code(deps'[m])[n] = deps'[k]
        BY <3>2, <3>3 DEF DepsReached
      <4>1. CASE k \in 1 .. Len(deps)
        <5>1. \A m \in 1 .. (k - 1) : deps'[m] = deps[m]
          BY <1>0, <3>1, <4>1
        <5> QED BY <1>0, <3>1, <4>1, <5>1 DEF DepsReached
      <4>2. CASE k = Len(deps) + 1
        <5>1. i \in 1 .. (k - 1) /\ deps'[i] = Cur /\ deps'[k] = r
          BY <1>0, <2>1, <3>1, <4>2
        <5> QED BY <2>1, <2>3, <5>1 DEF r
      <4> QED BY <1>0, <3>1, <4>1, <4>2
    <3>5. \A x : Queued(x) => Queued(x)'
      <4> SUFFICES ASSUME NEW x, NEW k \in DOMAIN deps, Key(deps[k]) = Key(x)
                   PROVE  \E q \in DOMAIN deps' : Key(deps'[q]) = Key(x)
        BY DEF Queued, Key
      <4>1. k \in DOMAIN deps' /\ deps'[k] = deps[k]
        BY <1>0, <3>1
      <4> QED BY <4>1
    <3> QED BY <2>1, <3>3, <3>4, <3>5 DEF SeedsQueued
  <2> QED BY <2>1, <2>2, <2>3
<1>7. CASE (Undefined \/ MoveGlobal \/ EndTrace \/ CheckStart) /\ ~Fail
  BY <1>2, <1>7 DEF Undefined, MoveGlobal, EndTrace, CheckStart, loading, tracing
<1> QED BY <1>3, <1>4, <1>5, <1>6, <1>7 DEF Next

-----------------------------------------------------------------------------
(* A set of numbers has a least one; with it, induction. *)
LEMMA LeastNumber ==
  ASSUME NEW T \in SUBSET Nat, T # {}
  PROVE  \E m \in T : \A k \in T : m <= k
<1>1. \E m \in T : \A k \in T : <<k, m>> \notin OpToRel(<, Nat)
  BY WFMin, NatLessThanWellFounded
<1>2. \A k, m \in Nat : <<k, m>> \notin OpToRel(<, Nat) => m <= k
  BY DEF OpToRel
<1> QED BY <1>1, <1>2

(* A set of numbers with 0 and all successors holds every number. *)
LEMMA Induction ==
  ASSUME NEW T \in SUBSET Nat, 0 \in T, \A m \in T : m + 1 \in T
  PROVE  \A m \in Nat : m \in T
<1> SUFFICES ASSUME Nat \ T # {} PROVE FALSE
  OBVIOUS
<1>1. PICK m \in Nat \ T : \A k \in Nat \ T : m <= k
  BY LeastNumber
<1>2. m # 0 /\ m - 1 \in Nat /\ m - 1 \in T
  BY <1>1
<1> QED BY <1>1, <1>2

(* What n references lead to, defined by recursion over n. *)
SeedKeys == {Key(r) : r \in {s \in Seeds : s.iek = "mem" => env # None}}
Onward(S) == S \cup UNION {Targets(g) : g \in S \cap Globals}
Reaches(f, m) == DOMAIN f = 0 .. m /\ f[0] = SeedKeys /\ \A k \in 1 .. m : f[k] = Onward(f[k - 1])
Beginning(m) == CHOOSE f : Reaches(f, m)

(* Each beginning of the sequence of sets exists. *)
LEMMA BeginningExists == \A m \in Nat : Reaches(Beginning(m), m)
<1> DEFINE T == {m \in Nat : \E f : Reaches(f, m)}
<1>1. 0 \in T
  <2> DEFINE f == [k \in 0 .. 0 |-> SeedKeys]
  <2>1. Reaches(f, 0)
    BY DEF Reaches
  <2> QED BY <2>1
<1>2. ASSUME NEW m \in T PROVE m + 1 \in T
  <2>1. PICK f : Reaches(f, m)
    OBVIOUS
  <2> DEFINE h == [k \in 0 .. m + 1 |-> IF k = m + 1 THEN Onward(f[m]) ELSE f[k]]
  <2>2. DOMAIN h = 0 .. m + 1 /\ h[m + 1] = Onward(f[m]) /\ \A k \in 0 .. m : h[k] = f[k]
    OBVIOUS
  <2> HIDE DEF h
  <2>3. ASSUME NEW k \in 1 .. m + 1 PROVE h[k] = Onward(h[k - 1])
    <3>1. CASE k = m + 1
      <4>1. k - 1 = m /\ m \in 0 .. m
        BY <3>1
      <4> QED BY <2>2, <3>1, <4>1
    <3>2. CASE k # m + 1
      <4>1. k \in 1 .. m /\ k \in 0 .. m /\ k - 1 \in 0 .. m
        BY <3>2
      <4> QED BY <2>1, <2>2, <4>1 DEF Reaches
    <3> QED BY <3>1, <3>2
  <2>4. h[0] = SeedKeys
    BY <2>1, <2>2 DEF Reaches
  <2>5. Reaches(h, m + 1) /\ m + 1 \in Nat
    BY <2>2, <2>3, <2>4 DEF Reaches
  <2> QED BY <2>5
<1> HIDE DEF T
<1>3. \A m \in Nat : m \in T
  BY <1>1, <1>2, Induction DEF T
<1> QED BY <1>3 DEF T, Beginning

(* Longer beginnings continue shorter ones. *)
LEMMA BeginningsAgree ==
  ASSUME NEW m \in Nat, NEW f, NEW h, Reaches(f, m), Reaches(h, m + 1)
  PROVE  f[m] = h[m]
<1> DEFINE T == {k \in Nat : k <= m => f[k] = h[k]}
<1>1. 0 \in T
  BY DEF Reaches
<1>2. ASSUME NEW k \in T PROVE k + 1 \in T
  <2> SUFFICES ASSUME k + 1 <= m PROVE f[k + 1] = h[k + 1]
    OBVIOUS
  <2>1. k + 1 \in 1 .. m /\ k + 1 \in 1 .. m + 1 /\ (k + 1) - 1 = k /\ f[k] = h[k]
    OBVIOUS
  <2> QED BY <2>1 DEF Reaches
<1> HIDE DEF T
<1>3. m \in T
  BY <1>1, <1>2, Induction DEF T
<1> QED BY <1>3 DEF T

(* ReachIn is what its definition says, and grows. *)
LEMMA ReachInGrows ==
  /\ ReachIn[0] = SeedKeys
  /\ \A n \in Nat : ReachIn[n + 1] = Onward(ReachIn[n])
  /\ \A n, m \in Nat : n <= m => ReachIn[n] \subseteq ReachIn[m]
<1> DEFINE F == [k \in Nat |-> Beginning(k)[k]]
<1>1. F[0] = SeedKeys
  BY BeginningExists DEF Reaches
<1>2. ASSUME NEW k \in Nat PROVE F[k + 1] = Onward(F[k])
  <2>1. Beginning(k)[k] = Beginning(k + 1)[k]
    BY BeginningExists, BeginningsAgree
  <2>2. k + 1 \in 1 .. k + 1 /\ (k + 1) - 1 = k /\ k + 1 \in Nat
    OBVIOUS
  <2>3. Beginning(k + 1)[k + 1] = Onward(Beginning(k + 1)[k])
    BY <2>2, BeginningExists DEF Reaches
  <2> QED BY <2>1, <2>2, <2>3
<1> HIDE DEF F
<1>3. F = [k \in Nat |-> IF k = 0 THEN SeedKeys ELSE Onward(F[k - 1])]
  <2>1. \A k \in Nat : F[k] = IF k = 0 THEN SeedKeys ELSE Onward(F[k - 1])
    <3> SUFFICES ASSUME NEW k \in Nat, k # 0 PROVE F[k] = Onward(F[k - 1])
      BY <1>1
    <3>1. k - 1 \in Nat /\ (k - 1) + 1 = k
      OBVIOUS
    <3> QED BY <1>2, <3>1
  <2>2. F = [k \in Nat |-> F[k]]
    BY DEF F
  <2> QED BY <2>1, <2>2, Zenon
<1>4. ReachIn = [k \in Nat |-> IF k = 0 THEN SeedKeys ELSE Onward(ReachIn[k - 1])]
  BY <1>3 DEF ReachIn, SeedKeys, Onward
<1>5. ASSUME NEW k \in Nat PROVE ReachIn[k + 1] = Onward(ReachIn[k])
  <2>1. k + 1 \in Nat /\ k + 1 # 0 /\ (k + 1) - 1 = k
    OBVIOUS
  <2> QED BY <1>4, <2>1
<1>6. ReachIn[0] = SeedKeys
  BY <1>4
<1>7. ASSUME NEW n \in Nat, NEW m \in Nat, n <= m PROVE ReachIn[n] \subseteq ReachIn[m]
  <2> DEFINE T == {k \in Nat : n <= k => ReachIn[n] \subseteq ReachIn[k]}
  <2>1. 0 \in T
    OBVIOUS
  <2>2. ASSUME NEW k \in T PROVE k + 1 \in T
    <3>1. ReachIn[k] \subseteq ReachIn[k + 1]
      BY <1>5 DEF Onward
    <3>2. n <= k + 1 => n <= k \/ n = k + 1
      OBVIOUS
    <3> QED BY <3>1, <3>2
  <2> HIDE DEF T
  <2>3. m \in T
    BY <2>1, <2>2, Induction DEF T
  <2> QED BY <1>7, <2>3 DEF T
<1> QED BY <1>5, <1>6, <1>7

(* A module has finitely many globals, and finitely many modules are read. *)
LEMMA GlobalsFinite == ASSUME IInv PROVE IsFiniteSet(Globals)
<1> DEFINE S == {DOMAIN pwb[k].exports : k \in DOMAIN pwb}
           f == [k \in DOMAIN pwb |-> DOMAIN pwb[k].exports]
<1>1. IsFiniteSet(DOMAIN pwb)
  <2>1. DOMAIN pwb = 1 .. Len(pwb) /\ Len(pwb) \in Int
    BY DEF IInv, ModulesRead
  <2> QED BY <2>1, FS_Interval
<1>2. f \in Surjection(DOMAIN pwb, S)
  BY DEF Surjection
<1>3. IsFiniteSet(S)
  BY <1>1, <1>2, FS_Surjection
<1>4. \A T \in S : IsFiniteSet(T)
  <2> SUFFICES ASSUME NEW k \in DOMAIN pwb PROVE IsFiniteSet(DOMAIN pwb[k].exports)
    OBVIOUS
  <2> QED BY DEF IInv, TypeOK, IsModule
<1> QED BY <1>3, <1>4, FS_UNION DEF Globals

(* What is queued is reached, in as many references as it is from the      *)
(* front of the queue.                                                     *)
LEMMA QueuedReached ==
  ASSUME IInv, DepsReached, \A k \in DOMAIN deps : Key(deps[k]) \in Globals
  PROVE  \A k \in DOMAIN deps : Key(deps[k]) \in ReachIn[k]
<1>0. DOMAIN deps = 1 .. Len(deps) /\ Len(deps) \in Nat /\ pwb \in Seq(Modules)
  BY DEF IInv, TypeOK, ModulesRead
<1> DEFINE T == {n \in Nat : \A k \in DOMAIN deps : k <= n => Key(deps[k]) \in ReachIn[k]}
<1>1. 0 \in T
  BY <1>0
<1>2. ASSUME NEW n \in T PROVE n + 1 \in T
  <2> SUFFICES ASSUME n + 1 \in DOMAIN deps PROVE Key(deps[n + 1]) \in ReachIn[n + 1]
    <3>1. \A k \in DOMAIN deps : k <= n + 1 => k <= n \/ k = n + 1
      BY <1>0
    <3> QED BY <3>1
  <2>1. CASE deps[n + 1] \in Wanted
    <3>1. Key(deps[n + 1]) \in ReachIn[0]
      BY <2>1, ReachInGrows DEF Wanted, SeedKeys
    <3>2. ReachIn[0] \subseteq ReachIn[n + 1]
      BY ReachInGrows
    <3> QED BY <3>1, <3>2
  <2>2. CASE deps[n + 1] \notin Wanted
    <3>1. PICK m \in 1 .. ((n + 1) - 1) : \E q \in DOMAIN Code(deps[m]) : Code(deps[m])[q] = deps[n + 1]
      BY <2>2 DEF DepsReached
    <3>2. PICK q \in DOMAIN Code(deps[m]) : Code(deps[m])[q] = deps[n + 1]
      BY <3>1
    <3>3. deps[n + 1].mod # Wasi
      BY <2>2 DEF DepsReached
    <3>4. m \in DOMAIN deps /\ m <= n /\ m \in Nat
      BY <1>0
    <3>5. Key(deps[m]) \in ReachIn[m] /\ ReachIn[m] \subseteq ReachIn[n]
      BY <3>4, ReachInGrows
    <3>6. Code(Ref(Key(deps[m])[1], Key(deps[m])[2], "func")) = Code(deps[m])
      BY DEF Code, Ref, Key
    <3>7. Key(deps[n + 1]) \in Targets(Key(deps[m]))
      BY <3>2, <3>3, <3>6 DEF Targets
    <3>8. Key(deps[n + 1]) \in Onward(ReachIn[n])
      BY <3>4, <3>5, <3>7 DEF Onward
    <3> QED BY <3>8, ReachInGrows
  <2> QED BY <2>1, <2>2
<1> HIDE DEF T
<1>3. \A n \in Nat : n \in T
  BY <1>1, <1>2, Induction DEF T
<1>4. \A k \in DOMAIN deps : k \in T /\ k <= k
  BY <1>0, <1>3
<1> QED BY <1>4 DEF T

(* The output of a link that succeeds is what main, _start and the memory  *)
(* reach.                                                                  *)
LEMMA OutputIsReached == ASSUME IInv, SeedsQueued, DepsReached PROVE LinksReachable
<1> SUFFICES ASSUME phase = "linked" PROVE {out[k] : k \in DOMAIN out} = ReachIn[Cardinality(Globals)]
  BY DEF LinksReachable
<1> DEFINE K == {Key(deps[k]) : k \in DOMAIN deps}
<1>0. /\ DOMAIN deps = 1 .. Len(deps) /\ DOMAIN out = 1 .. Len(deps) /\ Len(deps) \in Nat
      /\ pwb \in Seq(Modules) /\ deps \in Seq(Reference)
      /\ \A k \in DOMAIN deps : out[k] = Key(deps[k]) /\ Defines(deps[k])
  BY DEF IInv, TypeOK, ModulesRead, OutIsPrefix
<1>1. {out[k] : k \in DOMAIN out} = K
  BY <1>0
<1>2. \A k \in DOMAIN deps : Key(deps[k]) \in Globals
  <2> SUFFICES ASSUME NEW k \in DOMAIN deps PROVE Key(deps[k]) \in Globals
    OBVIOUS
  <2>1. deps[k].mod \in Names(pwb) /\ Key(deps[k]) \in DOMAIN Module(deps[k].mod).exports
    BY <1>0 DEF Defines
  <2>2. PICK q \in DOMAIN pwb : pwb[q] = Module(deps[k].mod)
    BY <2>1 DEF Module, Names
  <2> QED BY <2>1, <2>2 DEF Globals
<1>3. Cardinality(Globals) \in Nat /\ Len(deps) <= Cardinality(Globals)
  <2> DEFINE f == [k \in 1 .. Len(deps) |-> Key(deps[k])]
  <2>1. f \in Injection(1 .. Len(deps), Globals)
    <3>1. \A k \in 1 .. Len(deps) : f[k] = Key(deps[k]) /\ f[k] \in Globals
      BY <1>0, <1>2
    <3>2. \A a, b \in 1 .. Len(deps) : f[a] = f[b] => a = b
      BY <1>0, <3>1 DEF IInv, MovedOnce
    <3>3. f \in [1 .. Len(deps) -> Globals]
      BY <3>1
    <3> HIDE DEF f
    <3> QED BY <3>2, <3>3 DEF Injection, IsInjective
  <2>2. IsFiniteSet(Globals)
    BY GlobalsFinite
  <2>3. Cardinality(1 .. Len(deps)) <= Cardinality(Globals)
    BY <2>1, <2>2, FS_Injection
  <2>4. Cardinality(1 .. Len(deps)) = Len(deps)
    <3>1. 1 \in Int /\ Len(deps) \in Int
      BY <1>0
    <3>2. Cardinality(1 .. Len(deps)) = IF 1 > Len(deps) THEN 0 ELSE Len(deps) - 1 + 1
      BY <3>1, FS_Interval
    <3>3. (IF 1 > Len(deps) THEN 0 ELSE Len(deps) - 1 + 1) = Len(deps)
      BY <1>0
    <3> QED BY <3>2, <3>3
  <2>5. Cardinality(Globals) \in Nat
    BY <2>2, FS_CardinalityType
  <2> QED BY <2>3, <2>4, <2>5
<1>4. K \subseteq ReachIn[Cardinality(Globals)]
  <2> SUFFICES ASSUME NEW k \in DOMAIN deps PROVE Key(deps[k]) \in ReachIn[Cardinality(Globals)]
    OBVIOUS
  <2>1. Key(deps[k]) \in ReachIn[k]
    BY <1>2, QueuedReached
  <2>2. k \in Nat /\ k <= Cardinality(Globals)
    BY <1>0, <1>3
  <2> QED BY <1>3, <2>1, <2>2, ReachInGrows
<1>5. \A s \in Wanted : Key(s) \in K
  BY DEF SeedsQueued, Queued
<1>6. ASSUME NEW g \in K PROVE Targets(g) \subseteq K
  <2>1. PICK k \in DOMAIN deps : g = Key(deps[k])
    OBVIOUS
  <2>2. Code(Ref(g[1], g[2], "func")) = Code(deps[k])
    BY <2>1 DEF Code, Ref, Key
  <2>3. ASSUME NEW n \in DOMAIN Code(deps[k]), Code(deps[k])[n].mod # Wasi PROVE Key(Code(deps[k])[n]) \in K
    <3>1. Settled(Code(deps[k])[n])
      <4>1. k \in 1 .. Len(out)
        BY <1>0 DEF IInv, OutIsPrefix
      <4> QED BY <4>1 DEF IInv, Followed
    <3> QED BY <2>3, <3>1 DEF Settled, Queued
  <2> HIDE DEF K
  <2> QED BY <2>2, <2>3 DEF Targets
<1>7. \A n \in Nat : ReachIn[n] \subseteq K
  <2> DEFINE T == {n \in Nat : ReachIn[n] \subseteq K}
  <2> HIDE DEF K
  <2>1. 0 \in T
    BY <1>5, ReachInGrows DEF SeedKeys, Wanted
  <2>2. ASSUME NEW n \in T PROVE n + 1 \in T
    <3>1. Onward(ReachIn[n]) \subseteq K
      <4>1. ReachIn[n] \subseteq K
        OBVIOUS
      <4> QED BY <1>6, <4>1 DEF Onward
    <3>2. n \in Nat /\ n + 1 \in Nat /\ ReachIn[n + 1] = Onward(ReachIn[n])
      BY ReachInGrows
    <3>3. ReachIn[n + 1] \subseteq K
      BY <3>1, <3>2, Zenon
    <3> QED BY <3>2, <3>3
  <2> HIDE DEF T
  <2>3. \A n \in Nat : n \in T
    BY <2>1, <2>2, Induction DEF T
  <2> QED BY <2>3 DEF T
<1> HIDE DEF K
<1> QED BY <1>1, <1>3, <1>4, <1>7

(* A link that succeeds has read every module it needs, once, and puts out *)
(* what main, _start and the memory reach in them, and nothing else; if    *)
(* the library's files are named after their modules.                      *)
THEOREM LinksAll == LibraryNamed => (Spec => []LinkComplete)
<1> SUFFICES ASSUME LibraryNamed PROVE Spec => []LinkComplete
  OBVIOUS
<1>1. Init => SeedsQueued /\ DepsReached
  BY DEF Init, SeedsQueued, DepsReached
<1>2. IInv /\ SeedsQueued /\ DepsReached /\ [Next]_vars => SeedsQueued' /\ DepsReached'
  BY ReachKept
<1>3. IInv /\ SeedsQueued /\ DepsReached => LinksReachable
  BY OutputIsReached
<1>4. Spec => []ModulesComplete
  BY LoadsAll
<1> QED BY <1>1, <1>2, <1>3, <1>4, Invariance, PTL DEF Spec, LinkComplete
=============================================================================
