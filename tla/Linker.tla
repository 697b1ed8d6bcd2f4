------------------------------- MODULE Linker -------------------------------
(***************************************************************************)
(* link_wat_modules of w.c up to the point where every global the program  *)
(* needs has been moved to the output module: the modules given are        *)
(* examined, the library modules they import are loaded, and a worklist of *)
(* references is followed from main, _start and the linear memory.  A      *)
(* global is named by its module and its id; the code of a function, the   *)
(* patches of a data segment and the initialiser of a global variable are  *)
(* the sequence of references in them.                                     *)
(***************************************************************************)
EXTENDS Naturals, Sequences, FiniteSets

CONSTANTS
  Mods, Ids,   \* the names of modules, and of globals in them
  Modules,     \* the modules there are, on the command line or in files
  Programs,    \* the sequences of modules the linker may be given
  Library,     \* file name -> module, for the files the library path has
  CrtFile,     \* kind of main -> file of the C runtime module
  Crt, Wasi,   \* g_crt_mod, g_wasi_mod
  MainId, StartId, MemId,
  None         \* no module: the zero sym_t

Kinds == {"func", "data", "global", "mem"}

(* kinds of a module's main: pm->main, "absent" for MAIN_ABSENT *)
Mains == {"absent", "void", "argv"}

Keys == Mods \X Ids

Reference == [mod : Mods, id : Ids, iek : Kinds]

(* A module: its name, the kind of its main, the names it imports and what *)
(* it defines, each definition with the references in it.                  *)
IsModule(m) ==
  /\ m.name \in Mods /\ m.main \in Mains /\ m.imports \subseteq Keys
  /\ IsFiniteSet(DOMAIN m.exports)
  /\ \A g \in DOMAIN m.exports : m.exports[g].refs \in Seq(Reference)

ASSUME LinkerAssumption ==
  /\ \A m \in Modules : IsModule(m)
  /\ Programs \subseteq Seq(Modules)
  /\ \A f \in DOMAIN Library : Library[f] \in Modules
  /\ {None, Crt, Wasi} \subseteq Mods
  /\ {MainId, StartId, MemId} \subseteq Ids
  /\ MainId # StartId /\ MainId # MemId /\ StartId # MemId

VARIABLES
  phase,    \* "collect", "load", "trace", "start", "linked" or "error"
  given,    \* the modules on the command line
  pwb,      \* the modules read so far
  i,        \* the loop index of the phase
  j,        \* index of the reference being looked at
  ext,      \* extmodnames: names of the modules imported
  tried,    \* the names of ext the loading loop is done with
  mainmod, mt, env,   \* module of main, its kind, and envmod
  deps,     \* depglobals: references in the order they were found
  out,      \* pm->exports: the globals moved, in order
  imps      \* pm->imports: the subsystem functions moved

loading == <<given, pwb, ext, tried, mainmod, mt, env>>
tracing == <<deps, j, out, imps>>
vars == <<phase, i, loading, tracing>>

Key(r) == <<r.mod, r.id>>          \* what modid_cmp compares

Names(ms) == {ms[k].name : k \in DOMAIN ms}

ImportedMods(m) == {x[1] : x \in m.imports}

Init ==
  /\ given \in Programs
  /\ phase = "collect"
  /\ pwb = << >> /\ i = 1 /\ j = 1
  /\ ext = {} /\ tried = {}
  /\ mainmod = None /\ mt = "absent" /\ env = None
  /\ deps = << >> /\ out = << >> /\ imps = << >>

Fail == phase' = "error" /\ UNCHANGED <<i, loading, tracing>>

-----------------------------------------------------------------------------
(* "find main() function, collect dependencies", one module given.         *)
Collect ==
  /\ phase = "collect" /\ i <= Len(given)
  /\ LET m == given[i]
     IN  IF \/ m.main # "absent" /\ mainmod # None    \* duplicate main()
            \/ m.name \in Names(pwb)                   \* duplicate module
         THEN Fail
         ELSE /\ pwb' = Append(pwb, m)
              /\ ext' = ext \cup ImportedMods(m)
              /\ mainmod' = IF m.main # "absent" THEN m.name ELSE mainmod
              /\ mt' = IF m.main # "absent" THEN m.main ELSE mt
              /\ i' = i + 1
              /\ UNCHANGED <<phase, given, tried, env, tracing>>

EndCollect ==
  /\ phase = "collect" /\ i > Len(given)
  /\ phase' = "load"
  /\ UNCHANGED <<i, loading, tracing>>

(* "add missing library modules": a name imported and not yet considered.  *)
Present(n) ==
  /\ n \in ext \ tried
  /\ n \in Names(given) \cup {Wasi}
  /\ tried' = tried \cup {n}
  /\ UNCHANGED <<phase, i, given, pwb, ext, mainmod, mt, env, tracing>>

File(n) == IF n = Crt THEN CrtFile[mt] ELSE n

(* Mutant: what a library module imports is not looked for. *)
Load_Shallow(n) ==
  /\ n \in ext \ tried
  /\ n \notin Names(given) \cup {Wasi}
  /\ IF File(n) \notin DOMAIN Library \/ Library[File(n)].main # "absent"
     THEN Fail
     ELSE /\ pwb' = Append(pwb, Library[File(n)])
          /\ tried' = tried \cup {n}
          /\ env' = IF n = Crt THEN File(n) ELSE env
          /\ UNCHANGED <<phase, i, given, ext, mainmod, mt, tracing>>

Load(n) ==
  /\ n \in ext \ tried
  /\ n \notin Names(given) \cup {Wasi}
  /\ IF File(n) \notin DOMAIN Library \/ Library[File(n)].main # "absent"
     THEN Fail           \* cannot locate object module; unexpected main()
     ELSE /\ pwb' = Append(pwb, Library[File(n)])
          /\ ext' = ext \cup ImportedMods(Library[File(n)])
          /\ tried' = tried \cup {n}
          /\ env' = IF n = Crt THEN File(n) ELSE env
          /\ UNCHANGED <<phase, i, given, mainmod, mt, tracing>>

Ref(m, id, kind) == [mod |-> m, id |-> id, iek |-> kind]

(* "now seed depglobals" *)
EndLoad ==
  /\ phase = "load" /\ ext \subseteq tried
  /\ phase' = "trace" /\ i' = 1 /\ j' = 1
  /\ LET m == Ref(mainmod, MainId, "func")
         s == Ref(mainmod, StartId, "func")
     IN  deps' = IF env # None THEN <<m, s, Ref(Crt, MemId, "mem")>> ELSE <<m, s>>
  /\ UNCHANGED <<loading, out, imps>>

-----------------------------------------------------------------------------
Module(n) == CHOOSE m \in {pwb[k] : k \in DOMAIN pwb} : m.name = n

Defines(r) ==
  /\ r.mod \in Names(pwb)
  /\ Key(r) \in DOMAIN Module(r.mod).exports
  /\ Module(r.mod).exports[Key(r)].kind = r.iek

(* The references in the definition r names; a global moved has none left. *)
Refs(r) ==
  IF \E k \in DOMAIN out : out[k] = Key(r) THEN << >>
  ELSE Module(r.mod).exports[Key(r)].refs

Cur == deps[i]

(* Mutant: the worklist is not searched. *)
Queued_Never(r) == FALSE

Queued(r) == \E k \in DOMAIN deps : Key(deps[k]) = Key(r)

(* Mutant: the imports moved before are not searched. *)
Imported_Never(r) == FALSE

Imported(r) == \E k \in DOMAIN imps : imps[k] = Key(r)

(* process_depglobal of a global no module defines with the kind wanted.   *)
Undefined ==
  /\ phase = "trace" /\ i <= Len(deps)
  /\ ~Defines(Cur)
  /\ Fail

(* Mutant of the next: a global on the worklist stops the loop.            *)
FollowRef_Stays ==
  /\ phase = "trace" /\ i <= Len(deps)
  /\ Defines(Cur)
  /\ j <= Len(Refs(Cur))
  /\ LET r == Refs(Cur)[j]
     IN  /\ r.mod = Wasi => Key(r) \in Module(Cur.mod).imports
         /\ j' = IF r.mod # Wasi /\ Queued(r) THEN j ELSE j + 1
         /\ imps' = IF r.mod = Wasi /\ ~Imported(r) THEN Append(imps, Key(r)) ELSE imps
         /\ deps' = IF r.mod # Wasi /\ ~Queued(r) THEN Append(deps, r) ELSE deps
         /\ UNCHANGED <<phase, i, loading, out>>

(* One turn of the loop over the code: a reference to the subsystem is     *)
(* moved over as an import (process_subsystem_depglobal), any other is     *)
(* put on the worklist unless it is there.                                 *)
FollowRef ==
  /\ phase = "trace" /\ i <= Len(deps)
  /\ Defines(Cur)
  /\ j <= Len(Refs(Cur))
  /\ LET r == Refs(Cur)[j]
     IN  IF r.mod = Wasi /\ Key(r) \notin Module(Cur.mod).imports
         THEN Fail
         ELSE /\ j' = j + 1
              /\ imps' = IF r.mod = Wasi /\ ~Imported(r) THEN Append(imps, Key(r)) ELSE imps
              /\ deps' = IF r.mod # Wasi /\ ~Queued(r) THEN Append(deps, r) ELSE deps
              /\ UNCHANGED <<phase, i, loading, out>>

(* Mutant of the next: the last reference is not followed. *)
MoveGlobal_Early ==
  /\ phase = "trace" /\ i <= Len(deps)
  /\ Defines(Cur)
  /\ j >= Len(Refs(Cur))
  /\ out' = Append(out, Key(Cur))
  /\ i' = i + 1 /\ j' = 1
  /\ UNCHANGED <<phase, loading, deps, imps>>

(* The end of process_depglobal: the definition moves to the output.       *)
MoveGlobal ==
  /\ phase = "trace" /\ i <= Len(deps)
  /\ Defines(Cur)
  /\ j > Len(Refs(Cur))
  /\ out' = Append(out, Key(Cur))
  /\ i' = i + 1 /\ j' = 1
  /\ UNCHANGED <<phase, loading, deps, imps>>

EndTrace ==
  /\ phase = "trace" /\ i > Len(deps)
  /\ phase' = "start"
  /\ UNCHANGED <<i, loading, tracing>>

(* "pass over output module functions to check for _start" *)
CheckStart ==
  /\ phase = "start"
  /\ LET starts == {k \in DOMAIN deps : deps[k].iek = "func" /\ deps[k].id = StartId}
     IN  phase' = IF Cardinality(starts) = 1 THEN "linked" ELSE "error"
  /\ UNCHANGED <<i, loading, tracing>>

LoadStep == phase = "load" /\ \E n \in ext : Present(n) \/ Load(n)

Next ==
  \/ Collect \/ EndCollect
  \/ LoadStep \/ EndLoad
  \/ Undefined \/ FollowRef \/ MoveGlobal \/ EndTrace
  \/ CheckStart

Spec == Init /\ [][Next]_vars

(* The linker is one thread that runs until it is done. *)
FairSpec == Spec /\ WF_vars(Next)
-----------------------------------------------------------------------------
Code(r) == Module(r.mod).exports[Key(r)].refs

Seeds == {Ref(mainmod, MainId, "func"), Ref(mainmod, StartId, "func"),
          Ref(Crt, MemId, "mem")}

InOut(r) == \E k \in DOMAIN out : out[k] = Key(r)

TypeOK ==
  /\ phase \in {"collect", "load", "trace", "start", "linked", "error"}
  /\ \A k \in DOMAIN pwb : IsModule(pwb[k])
  /\ i \in Nat \ {0} /\ j \in Nat \ {0}
  /\ mainmod \in Mods /\ mt \in Mains
  /\ deps \in Seq(Reference) /\ out \in Seq(Keys) /\ imps \in Seq(Keys)

(* "precondition: this global is not moved yet" (link_wat_modules): the    *)
(* worklist never names a global twice, though two references may name it  *)
(* with different kinds and the definition is emptied when it is moved.    *)
MovedOnce == \A k, m \in DOMAIN deps : Key(deps[k]) = Key(deps[m]) => k = m

(* What the linker puts out is complete: whatever a moved definition       *)
(* refers to is moved too, or is imported from the subsystem.              *)
NothingDangles ==
  phase \in {"start", "linked"} =>
    \A k \in DOMAIN deps : \A n \in DOMAIN Code(deps[k]) :
      LET r == Code(deps[k])[n]
      IN  IF r.mod = Wasi THEN Imported(r) ELSE InOut(r)

(* What the linker puts out is needed: a global is on the worklist because *)
(* it is a seed or a global queued before it refers to it, and a subsystem *)
(* function is imported because a queued global refers to it.              *)
NothingUnused ==
  /\ \A k \in DOMAIN deps :
       \/ deps[k] \in Seeds
       \/ \E m \in 1 .. (k - 1) : \E n \in DOMAIN Code(deps[m]) :
            Code(deps[m])[n] = deps[k]
  /\ \A k \in DOMAIN imps : \E m \in DOMAIN deps : \E n \in DOMAIN Code(deps[m]) :
       Code(deps[m])[n].mod = Wasi /\ Key(Code(deps[m])[n]) = imps[k]
  /\ \A k, m \in DOMAIN imps : imps[k] = imps[m] => k = m

(* Once loading is over every name a module imports from is a module read, *)
(* and no name is read twice: bufbsearch on the sorted buffer is defined.  *)
ModulesComplete ==
  phase \notin {"collect", "load", "error"} =>
    /\ \A k \in DOMAIN pwb : ImportedMods(pwb[k]) \subseteq Names(pwb) \cup {Wasi}
    /\ \A k, m \in DOMAIN pwb : pwb[k].name = pwb[m].name => k = m

(* What main, _start and the memory reach in the modules read, computed    *)
(* apart from the worklist: a link that succeeds holds exactly that.       *)
Globals == UNION {DOMAIN pwb[k].exports : k \in DOMAIN pwb}

Targets(g) ==
  LET code == Code(Ref(g[1], g[2], "func"))
  IN  {Key(code[n]) : n \in {m \in DOMAIN code : code[m].mod # Wasi}}

ReachIn[n \in Nat] ==
  IF n = 0 THEN {Key(r) : r \in {s \in Seeds : s.iek = "mem" => env # None}}
  ELSE ReachIn[n - 1] \cup UNION {Targets(g) : g \in ReachIn[n - 1] \cap Globals}

LinksReachable ==
  phase = "linked" => {out[k] : k \in DOMAIN out} = ReachIn[Cardinality(Globals)]

(* Every module the link needs is read, once, and all that is reached in   *)
(* them and nothing else is put out.                                       *)
LinkComplete == ModulesComplete /\ LinksReachable

(* Linking always comes to an end. *)
Ends == <>(phase \in {"linked", "error"})
=============================================================================
