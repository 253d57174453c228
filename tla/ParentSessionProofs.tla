------------------------- MODULE ParentSessionProofs -------------------------
(****************************************************************************)
(* Theorems of a parent session, for any profiles, calls, tasks, ceilings   *)
(* and report sizes, and any number of edits, crashes and changes of the    *)
(* models.                                                                  *)
(*                                                                          *)
(* The mode: whatever handler runs, the snapshot it will put back is the    *)
(* session's own (HandlerInv); and unless somebody was told otherwise, a    *)
(* session on the mode's model knows, in memory or in its branch, the model *)
(* it came from (ModelInv). The tool: one call at a time, and the latch,    *)
(* the signal and the result of the budget agree (ToolInv). The report: a   *)
(* sum that grows node by node under what is reserved for the rest.         *)
(****************************************************************************)
EXTENDS ParentSession, FiniteSetTheorems, WellFoundedInduction, TLAPS

-----------------------------------------------------------------------------
(* Sums, which the community modules define by recursion over sets.         *)

(* Every set of numbers has a least one.                                    *)
LEMMA LeastOf ==
  ASSUME NEW T, T \subseteq Nat, T # {}
  PROVE  \E n \in T : \A m \in T : n <= m
<1>1. \E n \in T : \A m \in T : ~(<<m, n>> \in OpToRel(<, Nat))
  BY NatLessThanWellFounded, WFMin
<1>2. PICK n \in T : \A m \in T : ~(<<m, n>> \in OpToRel(<, Nat))
  BY <1>1
<1>3. \A m \in T : ~(m < n)
  BY <1>2 DEF OpToRel
<1>4. \A m \in T : n <= m
  BY <1>3
<1> QED
  BY <1>4

(* A property of the numbers 0 .. N that fails somewhere fails first at 0   *)
(* or right after a number it holds of.                                     *)
LEMMA Reaches ==
  ASSUME NEW N \in Nat, NEW T, 0 \in T, \A n \in 0 .. N - 1 : n \in T => n + 1 \in T
  PROVE  N \in T
<1> SUFFICES ASSUME N \notin T PROVE FALSE
  OBVIOUS
<1> DEFINE U == (0 .. N) \ T
<1>1. U \subseteq Nat /\ U # {}
  OBVIOUS
<1>2. PICK n \in U : \A m \in U : n <= m
  BY <1>1, LeastOf
<1>3. n # 0 /\ n - 1 \in 0 .. N - 1 /\ n - 1 \notin U
  BY <1>2
<1> QED
  BY <1>3

Pick(s) == CHOOSE x \in s : TRUE

(* g is the function a sum of f over S recurs through.                      *)
Sums(f, S, g) ==
  g = [s \in SUBSET S |-> IF s = {} THEN 0 ELSE f[Pick(s)] + g[s \ {Pick(s)}]]

LEMMA SumOfSums ==
  ASSUME NEW f, NEW S
  PROVE  SumFunctionOnSet(f, S) = (CHOOSE g : Sums(f, S, g))[S]
BY DEF Sums, SumFunctionOnSet, FoldFunctionOnSet, MapThenFoldSet, Pick

LEMMA PickIn == ASSUME NEW s, s # {} PROVE Pick(s) \in s
BY DEF Pick

LEMMA RemovePick ==
  ASSUME NEW S, IsFiniteSet(S), NEW s \in SUBSET S, s # {}
  PROVE  /\ s \ {Pick(s)} \in SUBSET S
         /\ Cardinality(s) \in Nat \ {0}
         /\ Cardinality(s \ {Pick(s)}) = Cardinality(s) - 1
<1>1. IsFiniteSet(s) /\ Pick(s) \in s
  BY FS_Subset, PickIn
<1> QED
  BY <1>1, FS_RemoveElement, FS_CardinalityType, FS_EmptySet

(* There is such a function, up to any size of set.                         *)
LEMMA SumsExist ==
  ASSUME NEW S, IsFiniteSet(S), NEW f \in [S -> Int]
  PROVE  \E g \in [SUBSET S -> Int] : Sums(f, S, g)
<1> DEFINE Small(n) == {s \in SUBSET S : Cardinality(s) <= n}
           Upto(n, g) == \A s \in Small(n) :
                           g[s] = IF s = {} THEN 0 ELSE f[Pick(s)] + g[s \ {Pick(s)}]
           T == {n \in Nat : \E g \in [SUBSET S -> Int] : Upto(n, g)}
<1>0. /\ Cardinality(S) \in Nat
      /\ \A s \in SUBSET S : Cardinality(s) \in Nat /\ Cardinality(s) <= Cardinality(S)
      /\ \A s \in SUBSET S : Cardinality(s) = 0 <=> s = {}
  BY FS_Subset, FS_CardinalityType, FS_EmptySet
<1>1. 0 \in T
  <2> DEFINE g == [s \in SUBSET S |-> 0]
  <2>1. g \in [SUBSET S -> Int] /\ Upto(0, g)
    BY <1>0
  <2> HIDE DEF g, Upto
  <2> QED
    BY <2>1
<1>2. ASSUME NEW n \in Nat, n \in T
      PROVE  n + 1 \in T
  <2>1. PICK g \in [SUBSET S -> Int] : Upto(n, g)
    BY <1>2
  <2> DEFINE h == [s \in SUBSET S |->
                     IF s = {} \/ s \in Small(n) THEN g[s] ELSE f[Pick(s)] + g[s \ {Pick(s)}]]
  <2>2. h \in [SUBSET S -> Int]
    <3> SUFFICES ASSUME NEW s \in SUBSET S, s # {} PROVE f[Pick(s)] + g[s \ {Pick(s)}] \in Int
      OBVIOUS
    <3>1. Pick(s) \in S /\ s \ {Pick(s)} \in SUBSET S
      BY PickIn
    <3>2. f[Pick(s)] \in Int /\ g[s \ {Pick(s)}] \in Int
      BY <3>1
    <3> QED
      BY <3>2
  <2>3. ASSUME NEW s \in Small(n + 1)
        PROVE  h[s] = IF s = {} THEN 0 ELSE f[Pick(s)] + h[s \ {Pick(s)}]
    <3>1. CASE s = {}
      <4>1. s \in Small(n)
        BY <3>1, <1>0
      <4>2. g[s] = 0
        BY <4>1, <2>1, <3>1
      <4>3. h[s] = g[s]
        BY <3>1
      <4> QED
        BY <3>1, <4>2, <4>3
    <3>2. CASE s # {}
      <4> DEFINE r == s \ {Pick(s)}
      <4>1. r \in Small(n)
        BY <3>2, RemovePick
      <4>2. h[r] = g[r]
        BY <4>1
      <4>3. h[s] = f[Pick(s)] + g[r]
        <5>1. CASE s \in Small(n)
          BY <5>1, <2>1, <3>2
        <5>2. CASE s \notin Small(n)
          BY <5>2, <3>2
        <5> QED
          BY <5>1, <5>2
      <4> QED
        BY <3>2, <4>2, <4>3
    <3> QED
      BY <3>1, <3>2
  <2>4. Upto(n + 1, h)
    BY <2>3
  <2> HIDE DEF h, Upto
  <2> QED
    BY <2>2, <2>4
<1>3. Cardinality(S) \in T
  <2> HIDE DEF T
  <2> QED
    BY <1>0, <1>1, <1>2, Reaches
<1>4. PICK g \in [SUBSET S -> Int] : Upto(Cardinality(S), g)
  BY <1>3
<1>5. \A s \in SUBSET S : g[s] = IF s = {} THEN 0 ELSE f[Pick(s)] + g[s \ {Pick(s)}]
  BY <1>0, <1>4
<1>6. Sums(f, S, g)
  BY <1>5 DEF Sums
<1> QED
  BY <1>6

(* And there is only one.                                                   *)
LEMMA SumsAgree ==
  ASSUME NEW S, IsFiniteSet(S), NEW R, IsFiniteSet(R), NEW f, NEW g, NEW h,
         Sums(f, S, g), Sums(f, R, h), NEW s \in SUBSET S, s \in SUBSET R
  PROVE  g[s] = h[s]
<1> SUFFICES ASSUME g[s] # h[s] PROVE FALSE
  OBVIOUS
<1> DEFINE Wrong == {r \in SUBSET (S \cap R) : g[r] # h[r]}
           T == {Cardinality(r) : r \in Wrong}
<1>1. \A r \in SUBSET S : IsFiniteSet(r) /\ Cardinality(r) \in Nat
  BY FS_Subset, FS_CardinalityType
<1>2. T \subseteq Nat /\ T # {}
  BY <1>1
<1>3. PICK n \in T : \A m \in T : n <= m
  BY <1>2, LeastOf
<1>4. PICK r \in Wrong : n = Cardinality(r)
  BY <1>3
<1>5. r # {}
  BY <1>4 DEF Sums
<1>6. /\ r \ {Pick(r)} \in SUBSET (S \cap R)
      /\ Cardinality(r) \in Nat \ {0}
      /\ Cardinality(r \ {Pick(r)}) = Cardinality(r) - 1
  BY <1>5, RemovePick
<1>7. g[r \ {Pick(r)}] = h[r \ {Pick(r)}]
  <2> SUFFICES ASSUME r \ {Pick(r)} \in Wrong PROVE FALSE
    BY <1>6
  <2>1. Cardinality(r) - 1 \in T
    BY <1>6
  <2> QED
    BY <2>1, <1>3, <1>4, <1>6
<1>8. g[r] = f[Pick(r)] + g[r \ {Pick(r)}] /\ h[r] = f[Pick(r)] + h[r \ {Pick(r)}]
  BY <1>4, <1>5 DEF Sums
<1> QED
  BY <1>4, <1>7, <1>8

(* So a sum is what any such function says it is.                           *)
LEMMA SumIs ==
  ASSUME NEW S, IsFiniteSet(S), NEW f, NEW g, Sums(f, S, g), NEW s \in SUBSET S
  PROVE  SumFunctionOnSet(f, s) = g[s]
<1>1. IsFiniteSet(s)
  BY FS_Subset
<1> DEFINE h == [r \in SUBSET s |-> g[r]]
<1>2. Sums(f, s, h)
  <2>1. \A r \in SUBSET s : r \in SUBSET S /\ r \ {Pick(r)} \in SUBSET s
    OBVIOUS
  <2>2. \A r \in SUBSET s : h[r] = IF r = {} THEN 0 ELSE f[Pick(r)] + h[r \ {Pick(r)}]
    BY <2>1 DEF Sums
  <2> QED
    BY <2>2 DEF Sums
<1> DEFINE c == CHOOSE k : Sums(f, s, k)
<1>3. Sums(f, s, c)
  BY <1>2
<1> HIDE DEF c
<1>4. c[s] = h[s]
  BY <1>1, <1>2, <1>3, SumsAgree
<1>5. SumFunctionOnSet(f, s) = c[s]
  BY SumOfSums DEF c
<1> QED
  BY <1>4, <1>5

(* A sum of numbers is a number, and its terms can be taken in any order.   *)
LEMMA SumType ==
  ASSUME NEW S, IsFiniteSet(S), NEW f \in [S -> Int], NEW s \in SUBSET S
  PROVE  SumFunctionOnSet(f, s) \in Int
<1>1. PICK g \in [SUBSET S -> Int] : Sums(f, S, g)
  BY SumsExist
<1>2. SumFunctionOnSet(f, s) = g[s]
  BY <1>1, SumIs
<1> QED
  BY <1>1, <1>2

LEMMA SumOfNone ==
  ASSUME NEW f
  PROVE  SumFunctionOnSet(f, {}) = 0
<1>1. IsFiniteSet({})
  BY FS_EmptySet
<1> DEFINE g == [s \in SUBSET {} |-> 0]
<1>2. Sums(f, {}, g)
  BY DEF Sums
<1> QED
  BY <1>1, <1>2, SumIs

LEMMA SumAfterPick ==
  ASSUME NEW S, IsFiniteSet(S), NEW f \in [S -> Int], NEW s \in SUBSET S, s # {}
  PROVE  SumFunctionOnSet(f, s) = f[Pick(s)] + SumFunctionOnSet(f, s \ {Pick(s)})
<1>1. PICK g \in [SUBSET S -> Int] : Sums(f, S, g)
  BY SumsExist
<1>2. s \ {Pick(s)} \in SUBSET S
  OBVIOUS
<1>3. SumFunctionOnSet(f, s) = g[s] /\ SumFunctionOnSet(f, s \ {Pick(s)}) = g[s \ {Pick(s)}]
  BY <1>1, <1>2, SumIs
<1>4. g[s] = f[Pick(s)] + g[s \ {Pick(s)}]
  BY <1>1 DEF Sums
<1> QED
  BY <1>3, <1>4

LEMMA SumSplits ==
  ASSUME NEW S, IsFiniteSet(S), NEW f \in [S -> Int], NEW s \in SUBSET S, NEW x \in s
  PROVE  SumFunctionOnSet(f, s) = f[x] + SumFunctionOnSet(f, s \ {x})
<1> DEFINE Splits(r) == \A y \in r :
                          SumFunctionOnSet(f, r) = f[y] + SumFunctionOnSet(f, r \ {y})
           T == {n \in Nat : \A r \in SUBSET S : Cardinality(r) <= n => Splits(r)}
<1>0. /\ Cardinality(S) \in Nat
      /\ \A r \in SUBSET S : Cardinality(r) \in Nat /\ Cardinality(r) <= Cardinality(S)
      /\ \A r \in SUBSET S : Cardinality(r) = 0 <=> r = {}
      /\ \A r \in SUBSET S : \A y \in r : Cardinality(r \ {y}) = Cardinality(r) - 1
  BY FS_Subset, FS_CardinalityType, FS_EmptySet, FS_RemoveElement
<1>1. 0 \in T
  BY <1>0
<1>2. ASSUME NEW n \in Nat, n \in T
      PROVE  n + 1 \in T
  <2> SUFFICES ASSUME NEW r \in SUBSET S, Cardinality(r) <= n + 1, NEW y \in r
               PROVE  SumFunctionOnSet(f, r) = f[y] + SumFunctionOnSet(f, r \ {y})
    OBVIOUS
  <2> DEFINE p == Pick(r)
  <2>1. p \in r
    BY PickIn
  <2>2. SumFunctionOnSet(f, r) = f[p] + SumFunctionOnSet(f, r \ {p})
    BY SumAfterPick
  <2> HIDE DEF p
  <2>3. CASE y = p
    BY <2>2, <2>3
  <2>4. CASE y # p
    <3>1. /\ r \ {p} \in SUBSET S /\ y \in r \ {p} /\ Cardinality(r \ {p}) <= n
          /\ r \ {y} \in SUBSET S /\ p \in r \ {y} /\ Cardinality(r \ {y}) <= n
      BY <1>0, <2>1, <2>4
    <3>2. /\ SumFunctionOnSet(f, r \ {p}) = f[y] + SumFunctionOnSet(f, (r \ {p}) \ {y})
          /\ SumFunctionOnSet(f, r \ {y}) = f[p] + SumFunctionOnSet(f, (r \ {y}) \ {p})
      BY <1>2, <3>1
    <3>3. (r \ {p}) \ {y} = (r \ {y}) \ {p}
      OBVIOUS
    <3> DEFINE rest == SumFunctionOnSet(f, (r \ {y}) \ {p})
    <3>4. f[p] \in Int /\ f[y] \in Int /\ rest \in Int
      BY <2>1, SumType
    <3>5. /\ SumFunctionOnSet(f, r) = f[p] + (f[y] + rest)
          /\ SumFunctionOnSet(f, r \ {y}) = f[p] + rest
      BY <2>2, <3>2, <3>3
    <3> HIDE DEF rest
    <3> QED
      BY <3>4, <3>5
  <2> QED
    BY <2>3, <2>4
<1>3. Cardinality(S) \in T
  <2> HIDE DEF T
  <2> QED
    BY <1>0, <1>1, <1>2, Reaches
<1>4. \A y \in s : SumFunctionOnSet(f, s) = f[y] + SumFunctionOnSet(f, s \ {y})
  BY <1>0, <1>3
<1> QED
  BY <1>4

-----------------------------------------------------------------------------
(* The inductive invariant.                                                 *)

Activating == at \in {"loading", "returning", "moving"}

(* Which handler awaits what.                                               *)
AwaitInv ==
  /\ at = "none" <=> job \in {"none", "down"}
  /\ at = "leaving" => job # "on"
  /\ Activating => job \in {"on", "start", "launch", "tree"}
  /\ job = "off" => ~enabled
  /\ at = "leaving" /\ job \in {"start", "launch"} => toolsBefore = None /\ modelBefore = None

(* An entry of the mode holds the write tools; what is restored is what the *)
(* branch holds.                                                            *)
EntryInv ==
  /\ \A entry \in tree : IF entry.enabled THEN entry.tools = {"write"} ELSE entry = Off
  /\ Activating =>
       /\ local.tools = {"write"}
       /\ local.entry = IF job = "on" THEN Off ELSE branch
       /\ job \in {"start", "tree"} => branch.enabled

(* The tools in use and the snapshot of the session's own.                  *)
SnapshotInv ==
  /\ toolsBefore \in {None, {"write"}}
  /\ at = "leaving" /\ toolsBefore = None => "write" \in active
  /\ Activating =>
       /\ toolsBefore = None /\ modelBefore = None
       /\ active = IF at = "moving" THEN {"graph"} ELSE {"write"}
  /\ Idle /\ enabled => active = {"graph"} /\ toolsBefore = {"write"} /\ branch.enabled
  /\ Idle /\ ~enabled => active = {"write"} /\ toolsBefore = None /\ modelBefore = None

HandlerInv == AwaitInv /\ EntryInv /\ SnapshotInv

(* A session that is not stranded finds its way back to its own model.      *)
ModelInv ==
  ~stranded =>
    /\ \A entry \in tree : entry.model \in {None, Own}
    /\ modelBefore \in {None, Own}
    /\ at = "moving" => local.model = Own
    /\ at \in {"loading", "returning"} /\ model = Orchestrator => local.entry.model = Own
    /\ at = "leaving" /\ model = Orchestrator =>
         IF job \in {"start", "launch"} THEN branch.model = Own ELSE modelBefore = Own
    /\ Idle /\ enabled /\ model = Orchestrator => modelBefore = Own
    /\ Idle /\ ~enabled => model = Own

(* Once a request misled, a later one names what the file holds, as long as *)
(* nobody edits it: a file that misled can be read.                         *)
MisledInv ==
  /\ misled \in {0, 1}
  /\ misled = 1 => file # Broken /\ (told \/ block \in {None, file.profiles})

(* Nobody, or one call, has the tool.                                       *)
OneCall ==
  /\ ~busy => \A c \in Calls : call[c] = "idle"
  /\ busy => \E c \in Calls : \A d \in Calls : call[d] # "idle" <=> d = c

(* A graph that has not started has its profiles and has spent nothing.     *)
Unspent == \A c \in Calls : call[c] = "loading" => ~crossed /\ named \in Profiles

ToolInv == OneCall /\ Unspent /\ BudgetStops /\ ReportFits

IInv == TypeOK /\ HandlerInv /\ ModelInv /\ MisledInv /\ ToolInv

-----------------------------------------------------------------------------
(* The mode. Whatever a step of the session is, it is one of these for it.  *)

ModeStep ==
  \/ Handlers \/ Chooses \/ Edit \/ ModelChanges \/ Crash \/ Reopen \/ UNCHANGED modeVars

LEMMA StepOfMode ==
  ASSUME [Next]_vars
  PROVE  ModeStep
BY DEF vars, Next, Mode, ModeNext, Calling, Restarts, ModeStep

(* The types, those of the records apart.                                   *)
PlainType ==
  /\ active \in ToolSets /\ model \in Models /\ usable \in [Models -> {"ok", "locked", "gone"}]
  /\ enabled \in BOOLEAN /\ toolsBefore \in {None} \cup ToolSets
  /\ modelBefore \in {None} \cup Models /\ lastKnown \in {None} \cup Profiles
  /\ job \in {"none", "down", "on", "off", "start", "launch", "tree", "shutdown"}
  /\ at \in {"none", "leaving", "loading", "returning", "moving"}
  /\ asking \in BOOLEAN /\ block \in {None} \cup Profiles
  /\ stranded \in BOOLEAN

LogType == branch \in tree /\ tree \subseteq Entries

(* What the records hold.                                                   *)
FieldTypes ==
  /\ branch.tools \in ToolSets
  /\ local.tools \in ToolSets /\ local.model \in {None} \cup Models
  /\ local.profiles \in {None} \cup Profiles
  /\ local.entry \in Entries /\ local.entry.model \in {None} \cup Models

LEMMA TypeParts ==
  /\ ModeTypeOK <=> PlainType /\ LogType /\ local \in Locals /\ mishaps \in 0..MaxMishaps
  /\ ModeTypeOK => FieldTypes
<1>1. ModeTypeOK <=> PlainType /\ LogType /\ local \in Locals /\ mishaps \in 0..MaxMishaps
  BY DEF ModeTypeOK, PlainType, LogType
<1>2. ASSUME LogType, local \in Locals
      PROVE  FieldTypes
  <2>1. branch \in Entries
    BY <1>2 DEF LogType
  <2>2. branch.tools \in ToolSets
    BY <2>1 DEF Entries
  <2>3. /\ local.tools \in ToolSets /\ local.model \in {None} \cup Models
        /\ local.profiles \in {None} \cup Profiles /\ local.entry \in Entries
    BY <1>2 DEF Locals
  <2>4. local.entry.model \in {None} \cup Models
    BY <2>3 DEF Entries
  <2> QED
    BY <2>2, <2>3, <2>4 DEF FieldTypes
<1> QED
  BY <1>1, <1>2

(* The records a session makes.                                             *)
LEMMA NewEntry ==
  /\ Nothing \in Locals
  /\ Off \in Entries /\ Off.enabled = FALSE /\ Off.tools = {} /\ Off.model = None
  /\ \A tools \in ToolSets, m \in {None} \cup Models :
       [enabled |-> TRUE, tools |-> tools, model |-> m] \in Entries
BY DEF Off, Nothing, Entries, Locals, ToolSets

LEMMA NewLocal ==
  ASSUME NEW tools \in ToolSets, NEW entry \in Entries
  PROVE  /\ [Nothing EXCEPT !.tools = tools, !.entry = entry] \in Locals
         /\ [Nothing EXCEPT !.entry = entry, !.tools = tools] \in Locals
         /\ Nothing \in Locals
<1>1. Nothing = [tools |-> {}, model |-> None, entry |-> Off, profiles |-> None]
  BY DEF Nothing
<1>2. Nothing \in Locals
  BY <1>1, NewEntry DEF Locals, ToolSets
<1>3. [Nothing EXCEPT !.tools = tools, !.entry = entry] \in Locals
  BY <1>2 DEF Locals
<1>4. [Nothing EXCEPT !.entry = entry, !.tools = tools] \in Locals
  BY <1>2 DEF Locals
<1> QED
  BY <1>2, <1>3, <1>4

LEMMA FilledLocal ==
  ASSUME NEW l \in Locals, NEW m \in {None} \cup Models, NEW p \in {None} \cup Profiles
  PROVE  [l EXCEPT !.profiles = p] \in Locals /\ [l EXCEPT !.profiles = p, !.model = m] \in Locals
BY DEF Locals

LEMMA PlainTypeStep ==
  ASSUME PlainType, FieldTypes, file # Broken => file.profiles \in Profiles, ModeStep
  PROVE  PlainType'
<1> USE ModeAssumption, ConfigurationAssumption
    DEF PlainType, FieldTypes, Models, ToolSets
<1>1. CASE On
  BY <1>1 DEF On, Activate, Snapshot, host, log, memory, requests, handler
<1>2. CASE LoadRefused
  BY <1>2 DEF LoadRefused, Refuse, Done, host, log, memory, requests, handler
<1>3. CASE LoadPlain
  BY <1>3 DEF LoadPlain, host, log, memory, requests, handler
<1>4. CASE Returned
  BY <1>4 DEF Returned, ApplyModel, ApplyTools, Recorded, Enter, PersistNew, Persist,
             Done, host, log, memory, requests, handler
<1>5. CASE LoadOrchestrated
  BY <1>5 DEF LoadOrchestrated, ApplyTools, Recorded, host, log, memory, requests,
             handler
<1>6. CASE LoadUnmovable
  BY <1>6 DEF LoadUnmovable, Refuse, Done, host, log, memory, requests, handler
<1>7. CASE Moved
  BY <1>7 DEF Moved, Enter, PersistNew, Persist, Done, host, log, memory, requests,
             handler
<1>8. CASE NotMoved
  BY <1>8 DEF NotMoved, PutToolsBack, Refuse, Done, host, log, memory, requests, handler
<1>9. CASE TurnOff
  BY <1>9 DEF TurnOff, Begin, host, log, memory, requests, handler
<1>10. CASE Shutdown
  BY <1>10 DEF Shutdown, Begin, host, log, memory, requests, handler
<1>11. CASE Navigate
  BY <1>11 DEF Navigate, Begin, host, log, memory, requests, handler
<1>12. CASE TurnedOff
  BY <1>12 DEF TurnedOff, Deactivate, ApplyModel, Persist, Done, host, log, memory,
              requests, handler
<1>13. CASE ShutDown
  BY <1>13 DEF ShutDown, Deactivate, ApplyModel, host, log, memory, requests, handler
<1>14. CASE Restores
  BY <1>14 DEF Restores, Deactivate, ApplyModel, Requested, host, log, memory, requests,
              handler
<1>15. CASE RestoresNothing
  BY <1>15 DEF RestoresNothing, Deactivate, ApplyModel, Requested, Done, host, log,
              memory, requests, handler
<1>16. CASE Asks
  BY <1>16 DEF Asks, host, log, memory, requests, handler
<1>17. CASE Asked
  <2>1. /\ lastKnown' = IF file = Broken THEN lastKnown ELSE file.profiles
        /\ asking' = FALSE /\ block' = lastKnown'
        /\ UNCHANGED <<active, model, usable, enabled, toolsBefore, modelBefore, job, at, stranded>>
    BY <1>17 DEF Asked, CurrentProfiles, host, log, memory, handler
  <2>2. lastKnown' \in {None} \cup Profiles
    BY <2>1
  <2>3. block' \in {None} \cup Profiles /\ asking' \in BOOLEAN
    BY <2>1, <2>2
  <2> QED
    BY <2>1, <2>2, <2>3
<1>18. CASE Chooses
  BY <1>18 DEF Chooses, host, log, memory, requests, handler
<1>19. CASE Edit
  <2>1. /\ UNCHANGED <<active, model, usable, enabled, toolsBefore, modelBefore, lastKnown, job,
                       at, asking, block, stranded>>
    BY <1>19 DEF Edit, host, memory, handler
  <2>2. /\ asking' \in BOOLEAN /\ block' \in {None} \cup Profiles
        /\ stranded' \in BOOLEAN
    BY <2>1
  <2> QED
    BY <2>1, <2>2
<1>20. CASE ModelChanges
  BY <1>20 DEF ModelChanges, Mishap, host, log, memory, requests, handler
<1>21. CASE Crash
  BY <1>21 DEF Crash, Mishap, Restart, Awaited, Recorded, host, log, memory, requests,
              handler
<1>22. CASE Reopen
  BY <1>22 DEF Reopen, Restart, Awaited, Recorded, host, log, memory, requests, handler
<1>23. CASE UNCHANGED modeVars
  BY <1>23 DEF modeVars, host, log, memory, requests, handler
<1> QED
  BY <1>1, <1>2, <1>3, <1>4, <1>5, <1>6, <1>7, <1>8, <1>9, <1>10, <1>11, <1>12, <1>13,
    <1>14, <1>15, <1>16, <1>17, <1>18, <1>19, <1>20, <1>21, <1>22, <1>23 DEF ModeStep, Handlers

LEMMA Persisted ==
  ASSUME LogType, Persist,
         IF enabled' THEN toolsBefore' \in ToolSets /\ modelBefore' \in {None} \cup Models ELSE TRUE
  PROVE  LogType'
<1>1. branch' \in Entries
  BY NewEntry DEF Persist
<1> QED
  BY <1>1 DEF Persist, LogType

LEMMA LogTypeStep ==
  ASSUME LogType, PlainType, FieldTypes, job = "off" => ~enabled, ModeStep
  PROVE  LogType'
<1>1. CASE On
  BY <1>1 DEF On, Activate, Snapshot, log, LogType
<1>2. CASE LoadRefused
  BY <1>2 DEF LoadRefused, Refuse, Done, log, LogType
<1>3. CASE LoadPlain
  BY <1>3 DEF LoadPlain, log, LogType
<1>4. CASE Returned
  <2>1. Persist \/ UNCHANGED log
    BY <1>4 DEF Returned, Enter, PersistNew, log
  <2>2. IF enabled' THEN toolsBefore' \in ToolSets /\ modelBefore' \in {None} \cup Models ELSE TRUE
    BY <1>4 DEF Returned, Enter, FieldTypes
  <2> QED
    BY <2>1, <2>2, Persisted DEF log, LogType
<1>5. CASE LoadOrchestrated
  BY <1>5 DEF LoadOrchestrated, ApplyTools, Recorded, log, LogType
<1>6. CASE LoadUnmovable
  BY <1>6 DEF LoadUnmovable, Refuse, Done, log, LogType
<1>7. CASE Moved
  <2>1. Persist \/ UNCHANGED log
    BY <1>7 DEF Moved, Enter, PersistNew, log
  <2>2. IF enabled' THEN toolsBefore' \in ToolSets /\ modelBefore' \in {None} \cup Models ELSE TRUE
    BY <1>7 DEF Moved, Enter, FieldTypes
  <2> QED
    BY <2>1, <2>2, Persisted DEF log, LogType
<1>8. CASE NotMoved
  BY <1>8 DEF NotMoved, PutToolsBack, Refuse, Done, log, LogType
<1>9. CASE TurnOff
  BY <1>9 DEF TurnOff, Begin, log, LogType
<1>10. CASE Shutdown
  BY <1>10 DEF Shutdown, Begin, log, LogType
<1>11. CASE Navigate
  BY <1>11 DEF Navigate, LogType
<1>12. CASE TurnedOff
  <2>1. Persist \/ UNCHANGED log
    BY <1>12 DEF TurnedOff, log
  <2>2. IF enabled' THEN toolsBefore' \in ToolSets /\ modelBefore' \in {None} \cup Models ELSE TRUE
    BY <1>12 DEF TurnedOff
  <2> QED
    BY <2>1, <2>2, Persisted DEF log, LogType
<1>13. CASE ShutDown
  BY <1>13 DEF ShutDown, Deactivate, ApplyModel, log, LogType
<1>14. CASE Restores
  BY <1>14 DEF Restores, Deactivate, ApplyModel, Requested, log, LogType
<1>15. CASE RestoresNothing
  BY <1>15 DEF RestoresNothing, Deactivate, ApplyModel, Requested, Done, log, LogType
<1>16. CASE Asks
  BY <1>16 DEF Asks, log, LogType
<1>17. CASE Asked
  BY <1>17 DEF Asked, CurrentProfiles, log, LogType
<1>18. CASE Chooses
  BY <1>18 DEF Chooses, log, LogType
<1>19. CASE Edit
  BY <1>19 DEF Edit, log, LogType
<1>20. CASE ModelChanges
  BY <1>20 DEF ModelChanges, Mishap, log, LogType
<1>21. CASE Crash
  BY <1>21 DEF Crash, Mishap, Restart, Awaited, Recorded, log, LogType
<1>22. CASE Reopen
  BY <1>22 DEF Reopen, Restart, Awaited, Recorded, log, LogType
<1>23. CASE UNCHANGED modeVars
  BY <1>23 DEF modeVars, log, LogType
<1> QED
  BY <1>1, <1>2, <1>3, <1>4, <1>5, <1>6, <1>7, <1>8, <1>9, <1>10, <1>11, <1>12, <1>13,
    <1>14, <1>15, <1>16, <1>17, <1>18, <1>19, <1>20, <1>21, <1>22, <1>23 DEF ModeStep, Handlers

LEMMA LocalTypeStep ==
  ASSUME local \in Locals, LogType, PlainType, FieldTypes,
         file # Broken => file.profiles \in Profiles, ModeStep
  PROVE  local' \in Locals
<1>1. CASE On
  <2>1. local' = [Nothing EXCEPT !.tools = Snapshot(Off), !.entry = Off]
    BY <1>1 DEF On, Activate
  <2>2. Snapshot(Off) \in ToolSets
    BY NewEntry DEF Snapshot, PlainType, ToolSets
  <2> QED
    BY <2>1, <2>2, NewEntry, NewLocal
<1>2. CASE LoadRefused
  BY <1>2, NewEntry DEF LoadRefused, Refuse, Done, handler
<1>3. CASE LoadPlain
  BY <1>3, FilledLocal DEF LoadPlain
<1>4. CASE Returned
  BY <1>4, NewEntry DEF Returned, Enter, Done, handler
<1>5. CASE LoadOrchestrated
  <2> DEFINE m == IF Recorded = None THEN model ELSE Recorded
  <2>1. local' = [local EXCEPT !.profiles = file.profiles, !.model = m] /\ file # Broken
    BY <1>5 DEF LoadOrchestrated
  <2>2. m \in {None} \cup Models
    BY DEF Recorded, PlainType, FieldTypes
  <2> HIDE DEF m
  <2> QED
    BY <2>1, <2>2, FilledLocal
<1>6. CASE LoadUnmovable
  BY <1>6, NewEntry DEF LoadUnmovable, Refuse, Done, handler
<1>7. CASE Moved
  BY <1>7, NewEntry DEF Moved, Enter, Done, handler
<1>8. CASE NotMoved
  BY <1>8, NewEntry DEF NotMoved, Refuse, Done, handler
<1>9. CASE TurnOff
  BY <1>9, NewEntry DEF TurnOff, Begin, handler
<1>10. CASE Shutdown
  BY <1>10, NewEntry DEF Shutdown, Begin, handler
<1>11. CASE Navigate
  BY <1>11, NewEntry DEF Navigate, Begin, handler
<1>12. CASE TurnedOff
  BY <1>12, NewEntry DEF TurnedOff, Deactivate, Done, handler
<1>13. CASE ShutDown
  BY <1>13, NewEntry DEF ShutDown, Deactivate, handler
<1>14. CASE Restores
  <2> DEFINE tools == IF branch.enabled THEN branch.tools ELSE active' \ {"graph"}
  <2>1. local' = [Nothing EXCEPT !.entry = branch, !.tools = tools]
    BY <1>14 DEF Restores
  <2>2. active' \in ToolSets
    BY <1>14 DEF Restores, Deactivate, PlainType, ToolSets
  <2>3. tools \in ToolSets
    BY <2>2 DEF ToolSets, FieldTypes
  <2> HIDE DEF tools
  <2> QED
    BY <2>1, <2>3, NewLocal DEF LogType
<1>15. CASE RestoresNothing
  BY <1>15, NewEntry DEF RestoresNothing, Deactivate, Requested, Done, handler
<1>16. CASE Asks
  BY <1>16, NewEntry DEF Asks, handler
<1>17. CASE Asked
  BY <1>17, NewEntry DEF Asked, handler
<1>18. CASE Chooses
  BY <1>18, NewEntry DEF Chooses, handler
<1>19. CASE Edit
  BY <1>19 DEF Edit, handler
<1>20. CASE ModelChanges
  BY <1>20, NewEntry DEF ModelChanges, Mishap, handler
<1>21. CASE Crash
  BY <1>21, NewEntry DEF Crash, Mishap, Restart, handler
<1>22. CASE Reopen
  BY <1>22, NewEntry DEF Reopen, Restart, handler
<1>23. CASE UNCHANGED modeVars
  BY <1>23, NewEntry DEF modeVars, handler
<1> QED
  BY <1>1, <1>2, <1>3, <1>4, <1>5, <1>6, <1>7, <1>8, <1>9, <1>10, <1>11, <1>12, <1>13,
    <1>14, <1>15, <1>16, <1>17, <1>18, <1>19, <1>20, <1>21, <1>22, <1>23 DEF ModeStep, Handlers

(* Every step keeps the types of the mode's state.                          *)
LEMMA ModeTypeStep ==
  ASSUME ModeTypeOK, AwaitInv, ConfigurationTypeOK, ModeStep, mishaps' \in 0..MaxMishaps
  PROVE  ModeTypeOK'
<1>1. PlainType /\ LogType /\ local \in Locals /\ FieldTypes
  BY TypeParts
<1>2. file # Broken => file.profiles \in Profiles
  BY DEF ConfigurationTypeOK, Readable
<1>3. job = "off" => ~enabled
  BY DEF AwaitInv
<1>4. PlainType' /\ LogType' /\ local' \in Locals
  BY <1>1, <1>2, <1>3, PlainTypeStep, LogTypeStep, LocalTypeStep
<1> QED
  BY <1>4 DEF ModeTypeOK, PlainType, LogType

LEMMA WithoutGraph ==
  ASSUME NEW tools \in SUBSET {"write", "graph"}, "write" \in tools
  PROVE  tools \ {"graph"} = {"write"}
OBVIOUS

(* No handler, however it ends, loses the session's own tools.               *)
LEMMA HandlerStep ==
  ASSUME ModeTypeOK, HandlerInv, ModeStep
  PROVE  HandlerInv'
<1> USE ModeAssumption, ConfigurationAssumption
    DEF ModeTypeOK, Models, ToolSets, Entries, Locals, HandlerInv, AwaitInv, EntryInv, SnapshotInv, Activating,
        Idle
<1>1. CASE On
  BY <1>1 DEF On, Activate, Snapshot, Nothing, Off, host, log, memory, requests, handler
<1>2. CASE LoadRefused
  BY <1>2 DEF LoadRefused, Refuse, Done, Nothing, Off, host, log, memory, requests,
             handler
<1>3. CASE LoadPlain
  BY <1>3 DEF LoadPlain, host, log, memory, requests, handler
<1>4. CASE Returned
  BY <1>4 DEF Returned, ApplyModel, ApplyTools, Recorded, Enter, PersistNew, Persist,
             Done, Nothing, Off, host, log, memory, requests, handler
<1>5. CASE LoadOrchestrated
  BY <1>5 DEF LoadOrchestrated, ApplyTools, Recorded, host, log, memory, requests,
             handler
<1>6. CASE LoadUnmovable
  BY <1>6 DEF LoadUnmovable, Refuse, Done, Nothing, Off, host, log, memory, requests,
             handler
<1>7. CASE Moved
  BY <1>7 DEF Moved, Enter, PersistNew, Persist, Done, Nothing, Off, host, log, memory,
             requests, handler
<1>8. CASE NotMoved
  BY <1>8 DEF NotMoved, PutToolsBack, Refuse, Done, Nothing, Off, host, log, memory,
             requests, handler
<1>9. CASE TurnOff
  BY <1>9 DEF TurnOff, Begin, host, log, memory, requests, handler
<1>10. CASE Shutdown
  BY <1>10 DEF Shutdown, Begin, host, log, memory, requests, handler
<1>11. CASE Navigate
  BY <1>11 DEF Navigate, Begin, host, log, memory, requests, handler
<1>12. CASE TurnedOff
  <2>1. /\ at = "leaving" /\ toolsBefore \in {None, {"write"}}
        /\ active' = IF toolsBefore # None THEN toolsBefore ELSE active \ {"graph"}
    BY <1>12 DEF TurnedOff, Deactivate
  <2>2. active' = {"write"}
    <3>1. CASE toolsBefore = None
      <4>1. "write" \in active /\ active \subseteq {"write", "graph"}
        BY <2>1, <3>1
      <4> QED
        BY <2>1, <3>1, <4>1, WithoutGraph
    <3> QED
      BY <2>1, <3>1
  <2>3. /\ job' = "none" /\ at' = "none" /\ toolsBefore' = None /\ modelBefore' = None
        /\ enabled' = FALSE /\ branch' = Off /\ tree' = tree \cup {branch'}
    BY <1>12 DEF TurnedOff, Deactivate, Done, Persist
  <2>4. \A entry \in tree' : IF entry.enabled THEN entry.tools = {"write"} ELSE entry = Off
    BY <1>12, <2>3 DEF TurnedOff, Off
  <2> QED
    BY <2>2, <2>3, <2>4
<1>13. CASE ShutDown
  BY <1>13 DEF ShutDown, Deactivate, ApplyModel, host, log, memory, requests, handler
<1>14. CASE Restores
  BY <1>14 DEF Restores, Deactivate, ApplyModel, Requested, Nothing, Off, host, log,
              memory, requests, handler
<1>15. CASE RestoresNothing
  <2>1. /\ at = "leaving" /\ toolsBefore \in {None, {"write"}}
        /\ active' = IF toolsBefore # None THEN toolsBefore ELSE active \ {"graph"}
    BY <1>15 DEF RestoresNothing, Deactivate
  <2>2. active' = {"write"}
    <3>1. CASE toolsBefore = None
      <4>1. "write" \in active /\ active \subseteq {"write", "graph"}
        BY <2>1, <3>1
      <4> QED
        BY <2>1, <3>1, <4>1, WithoutGraph
    <3> QED
      BY <2>1, <3>1
  <2>3. /\ job' = "none" /\ at' = "none" /\ toolsBefore' = None /\ modelBefore' = None /\ enabled' = FALSE
        /\ UNCHANGED <<branch, tree>>
    BY <1>15 DEF RestoresNothing, Deactivate, Done, log
  <2>4. \A entry \in tree' : IF entry.enabled THEN entry.tools = {"write"} ELSE entry = Off
    BY <1>15, <2>3 DEF RestoresNothing, Off
  <2> QED
    BY <2>2, <2>3, <2>4
<1>16. CASE Asks
  BY <1>16 DEF Asks, host, log, memory, requests, handler
<1>17. CASE Asked
  BY <1>17 DEF Asked, CurrentProfiles, host, log, memory, requests, handler
<1>18. CASE Chooses
  BY <1>18 DEF Chooses, host, log, memory, requests, handler
<1>19. CASE Edit
  BY <1>19 DEF Edit, host, log, memory, requests, handler
<1>20. CASE ModelChanges
  BY <1>20 DEF ModelChanges, Mishap, host, log, memory, requests, handler
<1>21. CASE Crash
  BY <1>21 DEF Crash, Mishap, Restart, Awaited, Recorded, Nothing, Off, host, log,
              memory, requests, handler
<1>22. CASE Reopen
  BY <1>22 DEF Reopen, Restart, Awaited, Recorded, Nothing, Off, host, log, memory,
              requests, handler
<1>23. CASE UNCHANGED modeVars
  BY <1>23 DEF modeVars, host, log, memory, requests, handler
<1> QED
  BY <1>1, <1>2, <1>3, <1>4, <1>5, <1>6, <1>7, <1>8, <1>9, <1>10, <1>11, <1>12, <1>13,
    <1>14, <1>15, <1>16, <1>17, <1>18, <1>19, <1>20, <1>21, <1>22, <1>23 DEF ModeStep, Handlers

(* Nor its own model, without telling.                                       *)
LEMMA ModelStep ==
  ASSUME ModeTypeOK, HandlerInv, ModelInv, ModeStep
  PROVE  ModelInv'
<1> USE ModeAssumption, ConfigurationAssumption
    DEF ModeTypeOK, Models, ToolSets, Entries, Locals, HandlerInv, AwaitInv, EntryInv, SnapshotInv, Activating,
        Idle, ModelInv
<1>1. CASE On
  BY <1>1 DEF On, Activate, Snapshot, Nothing, Off, host, log, memory, requests, handler
<1>2. CASE LoadRefused
  BY <1>2 DEF LoadRefused, Refuse, Done, Nothing, Off, host, log, memory, requests,
             handler
<1>3. CASE LoadPlain
  BY <1>3 DEF LoadPlain, host, log, memory, requests, handler
<1>4. CASE Returned
  BY <1>4 DEF Returned, ApplyModel, ApplyTools, Recorded, Enter, PersistNew, Persist,
             Done, Nothing, Off, host, log, memory, requests, handler
<1>5. CASE LoadOrchestrated
  <2>1. /\ at = "loading" /\ at' = "moving" /\ local' = [local EXCEPT !.profiles = file.profiles,
                           !.model = IF Recorded = None THEN model ELSE Recorded]
        /\ UNCHANGED <<tree, modelBefore, stranded>> /\ ~Idle'
    BY <1>5 DEF LoadOrchestrated, log, memory, requests
  <2>2. local'.model = IF Recorded = None THEN model ELSE Recorded
    BY <2>1
  <2>3. ASSUME ~stranded
        PROVE  local'.model = Own
    <3>1. local.entry.model \in {None, Own} /\ modelBefore = None
      BY <2>1, <2>3 DEF Off
    <3> QED
      BY <2>1, <2>2, <2>3, <3>1 DEF Recorded
  <2> QED
    BY <2>1, <2>3
<1>6. CASE LoadUnmovable
  BY <1>6 DEF LoadUnmovable, Refuse, Done, Nothing, Off, host, log, memory, requests,
             handler
<1>7. CASE Moved
  BY <1>7 DEF Moved, Enter, PersistNew, Persist, Done, Nothing, Off, host, log, memory,
             requests, handler
<1>8. CASE NotMoved
  BY <1>8 DEF NotMoved, PutToolsBack, Refuse, Done, Nothing, Off, host, log, memory,
             requests, handler
<1>9. CASE TurnOff
  BY <1>9 DEF TurnOff, Begin, host, log, memory, requests, handler
<1>10. CASE Shutdown
  BY <1>10 DEF Shutdown, Begin, host, log, memory, requests, handler
<1>11. CASE Navigate
  BY <1>11 DEF Navigate, Begin, host, log, memory, requests, handler
<1>12. CASE TurnedOff
  <2>1. SUFFICES ASSUME ~stranded'
                 PROVE  /\ \A entry \in tree' : entry.model \in {None, Own}
                        /\ ~enabled' /\ modelBefore' = None /\ at' = "none" /\ model' = Own
    OBVIOUS
  <2>2. /\ ~stranded /\ at = "leaving"
        /\ modelBefore # None => model' = modelBefore
        /\ modelBefore = None => model' = model
    BY <1>12, <2>1 DEF TurnedOff, Deactivate, ApplyModel
  <2>3. model' = Own
    BY <1>12, <2>2 DEF TurnedOff
  <2>4. ~enabled' /\ modelBefore' = None /\ at' = "none" /\ tree' \subseteq tree \cup {Off}
    BY <1>12 DEF TurnedOff, Deactivate, Persist, Done
  <2> QED
    BY <2>2, <2>3, <2>4 DEF Off
<1>13. CASE ShutDown
  BY <1>13 DEF ShutDown, Deactivate, ApplyModel, host, log, memory, requests, handler
<1>14. CASE Restores
  BY <1>14 DEF Restores, Deactivate, ApplyModel, Requested, Nothing, Off, host, log,
              memory, requests, handler
<1>15. CASE RestoresNothing
  <2>1. SUFFICES ASSUME ~stranded'
                 PROVE  /\ \A entry \in tree' : entry.model \in {None, Own}
                        /\ ~enabled' /\ modelBefore' = None /\ at' = "none" /\ model' = Own
    OBVIOUS
  <2>2. /\ ~stranded /\ at = "leaving"
        /\ modelBefore # None => model' = modelBefore
        /\ modelBefore = None => model' = model
    BY <1>15, <2>1 DEF RestoresNothing, Deactivate, ApplyModel
  <2>3. model' = Own
    BY <1>15, <2>2 DEF RestoresNothing, Requested, Off
  <2>4. ~enabled' /\ modelBefore' = None /\ at' = "none" /\ tree' \subseteq tree \cup {Off}
    BY <1>15 DEF RestoresNothing, Deactivate, Done, log
  <2> QED
    BY <2>2, <2>3, <2>4 DEF Off
<1>16. CASE Asks
  BY <1>16 DEF Asks, host, log, memory, requests, handler
<1>17. CASE Asked
  BY <1>17 DEF Asked, CurrentProfiles, host, log, memory, requests, handler
<1>18. CASE Chooses
  BY <1>18 DEF Chooses, host, log, memory, requests, handler
<1>19. CASE Edit
  BY <1>19 DEF Edit, host, log, memory, requests, handler
<1>20. CASE ModelChanges
  BY <1>20 DEF ModelChanges, Mishap, host, log, memory, requests, handler
<1>21. CASE Crash
  BY <1>21 DEF Crash, Mishap, Restart, Awaited, Recorded, Nothing, Off, host, log,
              memory, requests, handler
<1>22. CASE Reopen
  BY <1>22 DEF Reopen, Restart, Awaited, Recorded, Nothing, Off, host, log, memory,
              requests, handler
<1>23. CASE UNCHANGED modeVars
  BY <1>23 DEF modeVars, host, log, memory, requests, handler
<1> QED
  BY <1>1, <1>2, <1>3, <1>4, <1>5, <1>6, <1>7, <1>8, <1>9, <1>10, <1>11, <1>12, <1>13,
    <1>14, <1>15, <1>16, <1>17, <1>18, <1>19, <1>20, <1>21, <1>22, <1>23 DEF ModeStep, Handlers

-----------------------------------------------------------------------------
(* What the configuration holds, and what a request named of it.            *)

LEMMA ConfigurationStep ==
  ASSUME ConfigurationTypeOK, [Next]_vars
  PROVE  ConfigurationTypeOK'
<1> USE ConfigurationAssumption DEF ConfigurationTypeOK, configuration
<1>1. CASE Edit
  BY <1>1 DEF Edit, EditFile
<1>2. CASE UNCHANGED configuration
  BY <1>2
<1> QED
  BY <1>1, <1>2 DEF Next, Mode, ModeNext, ModelChanges, Calling, Restarts, vars

LEMMA RequestStep ==
  ASSUME ModeStep
  PROVE  \/ Asked \/ block' = None
         \/ block' = block /\ ~(asking /\ ~asking')
<1>1. CASE On
  BY <1>1 DEF On, requests
<1>2. CASE LoadRefused
  BY <1>2 DEF LoadRefused, Done, requests
<1>3. CASE LoadPlain
  BY <1>3 DEF LoadPlain, requests
<1>4. CASE Returned
  BY <1>4 DEF Returned, Done, requests
<1>5. CASE LoadOrchestrated
  BY <1>5 DEF LoadOrchestrated, requests
<1>6. CASE LoadUnmovable
  BY <1>6 DEF LoadUnmovable, Done, requests
<1>7. CASE Moved
  BY <1>7 DEF Moved, Done, requests
<1>8. CASE NotMoved
  BY <1>8 DEF NotMoved, Done, requests
<1>9. CASE TurnOff
  BY <1>9 DEF TurnOff, Begin, requests
<1>10. CASE Shutdown
  BY <1>10 DEF Shutdown, Begin, requests
<1>11. CASE Navigate
  BY <1>11 DEF Navigate, Begin, requests
<1>12. CASE TurnedOff
  BY <1>12 DEF TurnedOff, Deactivate, Done, requests
<1>13. CASE ShutDown
  BY <1>13 DEF ShutDown, Deactivate, requests
<1>14. CASE Restores
  BY <1>14 DEF Restores, Deactivate, requests
<1>15. CASE RestoresNothing
  BY <1>15 DEF RestoresNothing, Deactivate, Done, requests
<1>16. CASE Asks
  BY <1>16 DEF Asks, requests
<1>17. CASE Asked
  BY <1>17
<1>18. CASE Chooses
  BY <1>18 DEF Chooses, requests
<1>19. CASE Edit
  BY <1>19 DEF Edit, requests
<1>20. CASE ModelChanges
  BY <1>20 DEF ModelChanges, requests
<1>21. CASE Crash
  BY <1>21 DEF Crash, Restart, requests
<1>22. CASE Reopen
  BY <1>22 DEF Reopen, Restart, requests
<1>23. CASE UNCHANGED modeVars
  BY <1>23 DEF modeVars, requests
<1> QED
  BY <1>1, <1>2, <1>3, <1>4, <1>5, <1>6, <1>7, <1>8, <1>9, <1>10, <1>11, <1>12, <1>13,
    <1>14, <1>15, <1>16, <1>17, <1>18, <1>19, <1>20, <1>21, <1>22, <1>23 DEF ModeStep,
    Handlers

(* A call's rejection is a request's first, and the next request reads the  *)
(* file afresh.                                                             *)
LEMMA MisledStep ==
  ASSUME ConfigurationTypeOK, MisledInv, Unspent, [Next]_vars
  PROVE  MisledInv'
<1> USE DEF MisledInv
<1>1. CASE Mode
  <2>1. CASE edits' # edits
    BY <1>1, <2>1 DEF Mode
  <2>2. CASE edits' = edits
    <3>1. file' = file
      BY <1>1, <2>2 DEF Mode, ModeNext, ModelChanges, Edit, EditFile, configuration,
         ConfigurationTypeOK
    <3>2. misled' = misled /\ told' = (told /\ ~(asking /\ ~asking'))
      BY <1>1, <2>2 DEF Mode
    <3>3. Asked \/ block' = None \/ (block' = block /\ ~(asking /\ ~asking'))
      BY StepOfMode, RequestStep
    <3>4. Asked /\ file # Broken => block' = file.profiles
      BY DEF Asked, CurrentProfiles
    <3> QED
      BY <3>1, <3>2, <3>3, <3>4
  <2> QED
    BY <2>1, <2>2
<1>2. CASE Calling
  <2>1. file' = file /\ block' = block
    BY <1>2 DEF Calling, modeVars, requests, configuration
  <2>2. PICK c \in Calls :
          /\ misled' = IF Misleads(c) THEN misled + 1 ELSE misled
          /\ told' = (told \/ Misleads(c))
    BY <1>2 DEF Calling
  <2>3. CASE Misleads(c)
    <3>1. file # Broken /\ ~told /\ told' /\ block \in Profiles /\ block # file.profiles
      BY <2>2, <2>3 DEF Misleads, LoadRejected, Unspent
    <3>2. misled = 0
      BY <3>1, ConfigurationAssumption
    <3> QED
      BY <2>1, <2>2, <2>3, <3>1, <3>2
  <2>4. CASE ~Misleads(c)
    <3>1. misled' = misled /\ (told => told')
      BY <2>2, <2>4
    <3> QED
      BY <2>1, <3>1
  <2> QED
    BY <2>3, <2>4
<1>3. CASE Restarts
  BY <1>3 DEF Restarts, Crash, Reopen, Restart, configuration
<1>4. CASE UNCHANGED vars
  BY <1>4 DEF vars, history, modeVars, requests, configuration
<1> QED
  BY <1>1, <1>2, <1>3, <1>4 DEF Next

-----------------------------------------------------------------------------
(* The report.                                                              *)

LEMMA SumOfSame ==
  ASSUME NEW S, IsFiniteSet(S), NEW f \in [S -> Int], NEW h, \A x \in S : h[x] = f[x]
  PROVE  SumFunctionOnSet(h, S) = SumFunctionOnSet(f, S)
<1>1. PICK g \in [SUBSET S -> Int] : Sums(f, S, g)
  BY SumsExist
<1>2. \A s \in SUBSET S : s # {} => h[Pick(s)] = f[Pick(s)]
  BY PickIn
<1>3. Sums(h, S, g)
  BY <1>1, <1>2 DEF Sums
<1> QED
  BY <1>1, <1>3, SumIs

LEMMA SumOfNats ==
  ASSUME NEW S, IsFiniteSet(S), NEW f \in [S -> Nat], NEW s \in SUBSET S
  PROVE  SumFunctionOnSet(f, s) \in Nat
<1> DEFINE T == {n \in Nat : \A r \in SUBSET S : Cardinality(r) <= n => SumFunctionOnSet(f, r) \in Nat}
<1>0. /\ Cardinality(S) \in Nat
      /\ \A r \in SUBSET S : Cardinality(r) \in Nat /\ Cardinality(r) <= Cardinality(S)
      /\ \A r \in SUBSET S : Cardinality(r) = 0 <=> r = {}
      /\ f \in [S -> Int]
  BY FS_Subset, FS_CardinalityType, FS_EmptySet
<1>1. 0 \in T
  BY <1>0, SumOfNone
<1>2. ASSUME NEW n \in Nat, n \in T
      PROVE  n + 1 \in T
  <2> SUFFICES ASSUME NEW r \in SUBSET S, Cardinality(r) <= n + 1, r # {}
               PROVE  SumFunctionOnSet(f, r) \in Nat
    BY SumOfNone
  <2> DEFINE rest == SumFunctionOnSet(f, r \ {Pick(r)})
  <2>1. SumFunctionOnSet(f, r) = f[Pick(r)] + rest
    BY <1>0, SumAfterPick
  <2>2. rest \in Nat
    BY <1>0, <1>2, RemovePick
  <2>3. f[Pick(r)] \in Nat
    BY PickIn
  <2> HIDE DEF rest
  <2> QED
    BY <2>1, <2>2, <2>3
<1>3. Cardinality(S) \in T
  <2> HIDE DEF T
  <2> QED
    BY <1>0, <1>1, <1>2, Reaches
<1> QED
  BY <1>0, <1>3

LEMMA MaxOfTwo ==
  ASSUME NEW a \in Int, NEW b \in Int
  PROVE  Max({a, b}) \in {a, b} /\ Max({a, b}) >= a /\ Max({a, b}) >= b
<1>1. \E x \in {a, b} : \A y \in {a, b} : x >= y
  OBVIOUS
<1> QED
  BY <1>1 DEF Max

Size == Cardinality(Tasks)

LEMMA SizeType == Size \in Nat /\ Nodes = 1..Size /\ IsFiniteSet(Nodes)
BY ToolAssumption, FS_CardinalityType, FS_Interval DEF Size, Nodes

LEMMA ShapeType ==
  ASSUME NEW shape \in [Nodes -> Shapes], NEW i \in Nodes
  PROVE  /\ shape[i].reported \in BOOLEAN
         /\ shape[i].full \in Nat /\ shape[i].brief \in Nat /\ shape[i].unrounded \in Nat
         /\ shape[i].bare \in Nat /\ shape[i].base \in Nat
BY ToolAssumption

(* What is kept for the nodes still to come, one node after the other.      *)
LEMMA ReserveSplits ==
  ASSUME NEW shape \in [Nodes -> Shapes]
  PROVE  /\ Reserve(shape, Size + 1) = 0
         /\ \A i \in 1 .. Size + 1 : Reserve(shape, i) \in Nat
         /\ \A i \in Nodes : Reserve(shape, i) = shape[i].bare + Reserve(shape, i + 1)
<1> DEFINE f == [i \in Nodes |-> shape[i].bare]
<1>1. f \in [Nodes -> Nat] /\ f \in [Nodes -> Int]
  BY ShapeType
<1>2. \A i : Reserve(shape, i) = SumFunctionOnSet(f, i..Size)
  BY DEF Reserve, Size
<1>3. (Size + 1) .. Size = {}
  BY SizeType
<1>4. \A i \in 1 .. Size + 1 : i .. Size \in SUBSET Nodes
  BY SizeType
<1>5. \A i \in Nodes : i \in i .. Size /\ (i .. Size) \ {i} = (i + 1) .. Size
  BY SizeType
<1> HIDE DEF f
<1>6. Reserve(shape, Size + 1) = 0
  BY <1>2, <1>3, SumOfNone
<1>7. \A i \in 1 .. Size + 1 : Reserve(shape, i) \in Nat
  BY <1>1, <1>2, <1>4, SizeType, SumOfNats
<1>8. ASSUME NEW i \in Nodes
      PROVE  Reserve(shape, i) = shape[i].bare + Reserve(shape, i + 1)
  <2>1. i .. Size \in SUBSET Nodes
    BY <1>4, SizeType
  <2> DEFINE s == i .. Size
  <2>2. SumFunctionOnSet(f, s) = f[i] + SumFunctionOnSet(f, s \ {i})
    <3>1. s \in SUBSET Nodes /\ i \in s /\ IsFiniteSet(Nodes)
      BY <1>5, <2>1, SizeType
    <3> HIDE DEF s
    <3> QED
      BY <1>1, <3>1, SumSplits
  <2>3. f[i] = shape[i].bare
    BY DEF f
  <2> QED
    BY <1>2, <1>5, <2>2, <2>3
<1> QED
  BY <1>6, <1>7, <1>8, SizeType

(* The excess of the nodes up to k.                                         *)
ExcessUpTo(shape, k) == SumFunctionOnSet([i \in Nodes |-> Excess(shape[i])], 1..k)

LEMMA ExcessType ==
  ASSUME NEW shape \in [Nodes -> Shapes], NEW i \in Nodes
  PROVE  /\ Excess(shape[i]) \in Nat
         /\ ~shape[i].reported => Excess(shape[i]) >= shape[i].base - shape[i].bare
<1>1. /\ shape[i].base - shape[i].bare \in Int
      /\ shape[i].reported \in BOOLEAN
  BY ShapeType
<1> DEFINE d == shape[i].base - shape[i].bare
<1>2. Max({0, d}) \in {0, d} /\ Max({0, d}) >= 0 /\ Max({0, d}) >= d
  <2>1. d \in Int
    BY <1>1
  <2> HIDE DEF d
  <2> QED
    BY <2>1, MaxOfTwo
<1>3. Excess(shape[i]) = IF shape[i].reported THEN 0 ELSE Max({0, d})
  BY DEF Excess
<1>4. d \in Int
  BY <1>1
<1> HIDE DEF d
<1>5. Excess(shape[i]) \in Nat /\ (~shape[i].reported => Excess(shape[i]) >= d)
  BY <1>1, <1>2, <1>3, <1>4
<1> QED
  BY <1>5 DEF d

LEMMA ExcessSplits ==
  ASSUME NEW shape \in [Nodes -> Shapes]
  PROVE  /\ ExcessUpTo(shape, 0) = 0
         /\ \A k \in 0 .. Size : ExcessUpTo(shape, k) \in Nat
         /\ \A k \in 1 .. Size : ExcessUpTo(shape, k) = Excess(shape[k]) + ExcessUpTo(shape, k - 1)
<1> DEFINE f == [i \in Nodes |-> Excess(shape[i])]
<1>1. f \in [Nodes -> Nat] /\ f \in [Nodes -> Int]
  BY ExcessType
<1>2. \A k : ExcessUpTo(shape, k) = SumFunctionOnSet(f, 1 .. k)
  BY DEF ExcessUpTo
<1>3. \A k \in 1 .. Size : f[k] = Excess(shape[k])
  BY SizeType
<1> HIDE DEF f
<1>4. 1 .. 0 = {}
  OBVIOUS
<1>5. \A k \in 0 .. Size : 1 .. k \in SUBSET Nodes
  BY SizeType
<1>6. ASSUME NEW k \in Nodes
      PROVE  ExcessUpTo(shape, k) = Excess(shape[k]) + ExcessUpTo(shape, k - 1)
  <2>1. k \in 1 .. k /\ (1 .. k) \ {k} = 1 .. (k - 1) /\ 1 .. k \in SUBSET Nodes
    BY SizeType
  <2> DEFINE s == 1 .. k
  <2>2. SumFunctionOnSet(f, s) = f[k] + SumFunctionOnSet(f, s \ {k})
    <3>1. s \in SUBSET Nodes /\ k \in s
      BY <2>1
    <3>2. IsFiniteSet(Nodes)
      BY SizeType
    <3>3. f \in [Nodes -> Int]
      BY <1>1
    <3> HIDE DEF s
    <3> QED
      BY <3>1, <3>2, <3>3, SumSplits
  <2> QED
    BY <1>2, <1>3, <2>1, <2>2, SizeType
<1>7. ExcessUpTo(shape, 0) = 0
  BY <1>2, <1>4, SumOfNone
<1>8. \A k \in 0 .. Size : ExcessUpTo(shape, k) \in Nat
  BY <1>1, <1>2, <1>5, SizeType, SumOfNats
<1> QED
  BY <1>6, <1>7, <1>8, SizeType

LEMMA ReviewType ==
  ASSUME NEW shape \in [Nodes -> Shapes], NEW i \in Nodes, NEW x \in Int
  PROVE  Review(shape, i, x) \in Nat
BY ShapeType DEF Review

(* The running size of the report, node by node.                            *)
Grows(shape, g) ==
  g = [i \in 0 .. Cardinality(Tasks) |->
         IF i = 0 THEN 0 ELSE g[i - 1] + Review(shape, i, g[i - 1])]

LEMMA ReportSizeIs ==
  ASSUME NEW shape
  PROVE  ReportSize(shape) = (CHOOSE g : Grows(shape, g))[Cardinality(Tasks)]
BY DEF ReportSize, Grows

LEMMA ReportGrows ==
  ASSUME NEW shape \in [Nodes -> Shapes]
  PROVE  \E g \in [0 .. Size -> Int] : Grows(shape, g)
<1> DEFINE Upto(n, g) == \A i \in 0 .. Size : i <= n =>
                           g[i] = IF i = 0 THEN 0 ELSE g[i - 1] + Review(shape, i, g[i - 1])
           T == {n \in Nat : \E g \in [0 .. Size -> Int] : Upto(n, g)}
<1>1. 0 \in T
  <2> DEFINE g == [i \in 0 .. Size |-> 0]
  <2>1. g \in [0 .. Size -> Int] /\ Upto(0, g)
    BY SizeType
  <2> HIDE DEF g, Upto
  <2> QED
    BY <2>1
<1>2. ASSUME NEW n \in 0 .. Size - 1, n \in T
      PROVE  n + 1 \in T
  <2>1. PICK g \in [0 .. Size -> Int] : Upto(n, g)
    BY <1>2
  <2> DEFINE r == g[n] + Review(shape, n + 1, g[n])
             h == [g EXCEPT ![n + 1] = r]
  <2>2. n \in 0 .. Size /\ n + 1 \in Nodes /\ n + 1 \in 0 .. Size /\ n \in Nat
    BY SizeType
  <2>3. r \in Int
    <3>1. g[n] \in Int
      BY <2>2
    <3>2. Review(shape, n + 1, g[n]) \in Nat
      BY <2>2, <3>1, ReviewType
    <3> QED
      BY <3>1, <3>2
  <2>4. /\ h \in [0 .. Size -> Int] /\ h[n + 1] = r
        /\ \A i \in 0 .. Size : i <= n => h[i] = g[i]
    <3> HIDE DEF r
    <3> QED
      BY <2>2, <2>3
  <2> HIDE DEF h
  <2>5. ASSUME NEW i \in 0 .. Size, i <= n + 1
        PROVE  h[i] = IF i = 0 THEN 0 ELSE h[i - 1] + Review(shape, i, h[i - 1])
    <3>1. CASE i = n + 1
      <4>1. i # 0 /\ i - 1 = n /\ h[n] = g[n]
        BY <3>1, <2>2, <2>4
      <4> QED
        BY <3>1, <4>1, <2>4
    <3>2. CASE i # n + 1
      <4>1. i <= n /\ h[i] = g[i] /\ (i # 0 => i - 1 \in 0 .. Size /\ h[i - 1] = g[i - 1])
        BY <3>2, <2>2, <2>4, <2>5, SizeType
      <4> QED
        BY <4>1, <2>1
    <3> QED
      BY <3>1, <3>2
  <2>6. Upto(n + 1, h)
    BY <2>5
  <2> HIDE DEF Upto
  <2> QED
    BY <2>2, <2>4, <2>6
<1>3. Size \in T
  <2> HIDE DEF T
  <2> QED
    BY <1>1, <1>2, SizeType, Reaches
<1>4. PICK g \in [0 .. Size -> Int] : Upto(Size, g)
  BY <1>3
<1>5. \A i \in 0 .. Size : g[i] = IF i = 0 THEN 0 ELSE g[i - 1] + Review(shape, i, g[i - 1])
  BY <1>4, SizeType
<1>6. Grows(shape, g)
  BY <1>5 DEF Grows, Size
<1> QED
  BY <1>6

(* What a node adds is what was kept for it, or fits beside what is kept    *)
(* for the others, or is its excess.                                        *)
LEMMA ReviewFits ==
  ASSUME NEW shape \in [Nodes -> Shapes], NEW i \in Nodes, NEW x \in Int
  PROVE  \/ Review(shape, i, x) <= shape[i].bare + Excess(shape[i])
         \/ x + Review(shape, i, x) + Reserve(shape, i + 1) <= MaxBytes
<1> USE ShapeType, ExcessType
<1>1. CASE ~shape[i].reported
  BY <1>1 DEF Review
<1>2. CASE shape[i].reported
  <2>1. PICK size \in {shape[i].full, shape[i].brief, shape[i].unrounded, shape[i].bare} :
          Review(shape, i, x) = size /\ (size = shape[i].bare \/ Fits(shape, i, x + size))
    BY <1>2 DEF Review
  <2>2. CASE size = shape[i].bare
    BY <2>1, <2>2
  <2>3. CASE Fits(shape, i, x + size)
    BY <2>1, <2>3 DEF Fits
  <2> QED
    BY <2>1, <2>2, <2>3
<1> QED
  BY <1>1, <1>2

(* A report never weighs more than it may.                                  *)
LEMMA ReportBounded ==
  ASSUME NEW shape \in [Nodes -> Shapes]
  PROVE  /\ ReportSize(shape) \in Int /\ Allowance(shape) \in Int
         /\ ReportSize(shape) <= Allowance(shape)
<1> DEFINE u == CHOOSE g : Grows(shape, g)
           M == Max({MaxBytes, Reserve(shape, 1)})
           T == {n \in 0 .. Size : u[n] \in Int
                   /\ u[n] + Reserve(shape, n + 1) <= M + ExcessUpTo(shape, n)}
<1>0. Size \in Nat /\ Nodes = 1 .. Size
  BY SizeType
<1>1. Grows(shape, u)
  BY ReportGrows
<1>2. \A i \in 0 .. Size : u[i] = IF i = 0 THEN 0 ELSE u[i - 1] + Review(shape, i, u[i - 1])
  BY <1>1 DEF Grows, Size
<1> HIDE DEF u
<1>3. M \in Int /\ M >= MaxBytes /\ M >= Reserve(shape, 1)
  <2>1. MaxBytes \in Int /\ Reserve(shape, 1) \in Int
    BY ToolAssumption, ReserveSplits, <1>0
  <2> QED
    BY <2>1, MaxOfTwo
<1> HIDE DEF M
<1>4. 0 \in T
  <2>1. u[0] = 0 /\ ExcessUpTo(shape, 0) = 0 /\ Reserve(shape, 1) \in Nat
    <3>1. 0 \in 0 .. Size /\ 1 \in 1 .. Size + 1
      BY <1>0
    <3> QED
      BY <1>2, <3>1, ReserveSplits, ExcessSplits
  <2>2. u[0] + Reserve(shape, 0 + 1) <= M + ExcessUpTo(shape, 0)
    BY <1>3, <2>1
  <2> QED
    BY <1>0, <2>1, <2>2
<1>5. ASSUME NEW n \in 0 .. Size - 1, n \in T
      PROVE  n + 1 \in T
  <2> DEFINE i == n + 1
             R == Review(shape, i, u[n])
  <2>1. i \in Nodes /\ i \in 0 .. Size /\ i \in 1 .. Size /\ i - 1 = n /\ i # 0
        /\ i \in 1 .. Size + 1 /\ i + 1 \in 1 .. Size + 1 /\ n \in 0 .. Size
    BY <1>0
  <2>2. u[i] = u[n] + R
    BY <1>2, <2>1
  <2>3. R \in Nat
    BY <1>5, <2>1, ReviewType
  <2>4. /\ Reserve(shape, i) = shape[i].bare + Reserve(shape, i + 1)
        /\ Reserve(shape, i) \in Nat /\ Reserve(shape, i + 1) \in Nat
    BY <2>1, ReserveSplits
  <2>5. /\ ExcessUpTo(shape, i) = Excess(shape[i]) + ExcessUpTo(shape, n)
        /\ ExcessUpTo(shape, n) \in Nat
    BY <2>1, ExcessSplits
  <2>6. Excess(shape[i]) \in Nat /\ shape[i].bare \in Nat
    BY <2>1, ExcessType, ShapeType
  <2>7. R <= shape[i].bare + Excess(shape[i]) \/ u[n] + R + Reserve(shape, i + 1) <= MaxBytes
    BY <1>5, <2>1, ReviewFits
  <2>8. u[n] \in Int /\ u[n] + Reserve(shape, i) <= M + ExcessUpTo(shape, n) /\ MaxBytes \in Nat
    BY <1>5, ToolAssumption
  <2> HIDE DEF R
  <2>9. u[i] \in Int /\ u[i] + Reserve(shape, i + 1) <= M + ExcessUpTo(shape, i)
    BY <1>3, <2>2, <2>3, <2>4, <2>5, <2>6, <2>7, <2>8
  <2> QED
    BY <2>1, <2>9
<1>6. Size \in T
  <2> HIDE DEF T
  <2> QED
    BY <1>0, <1>4, <1>5, Reaches
<1>7. ReportSize(shape) = u[Size]
  BY ReportSizeIs DEF u, Size
<1>8. Allowance(shape) = M + ExcessUpTo(shape, Size)
  BY <1>0 DEF Allowance, M, ExcessUpTo
<1>9. Reserve(shape, Size + 1) = 0 /\ ExcessUpTo(shape, Size) \in Nat
  BY <1>0, ReserveSplits, ExcessSplits
<1> QED
  BY <1>3, <1>6, <1>7, <1>8, <1>9

LEMMA NothingOverruns == Overruns \subseteq {0}
<1> SUFFICES ASSUME NEW shape \in [Nodes -> Shapes]
             PROVE  Max({0, ReportSize(shape) - Allowance(shape)}) = 0
  BY DEF Overruns
<1> DEFINE d == ReportSize(shape) - Allowance(shape)
<1>1. d \in Int /\ d <= 0
  BY ReportBounded
<1> HIDE DEF d
<1>2. Max({0, d}) \in {0, d} /\ Max({0, d}) >= 0
  BY <1>1, MaxOfTwo
<1>3. Max({0, d}) = 0
  BY <1>1, <1>2
<1> QED
  BY <1>3 DEF d

-----------------------------------------------------------------------------
(* The tool.                                                                *)

ToolStep ==
  \/ (\E c \in Calls : Call(c)) /\ UNCHANGED configuration
  \/ Forget \/ UNCHANGED toolVars

LEMMA StepOfTool ==
  ASSUME [Next]_vars
  PROVE  ToolStep
BY DEF vars, Next, Mode, Calling, Restarts, ToolStep, ModeNext, Edit, ModelChanges

LEMMA UsageType ==
  ASSUME NEW us \in [Tasks -> {None} \cup 0..MaxUse]
  PROVE  AggregateUsage(us) \in Nat
<1> DEFINE S == {t \in Tasks : us[t] # None}
           f == [t \in S |-> us[t]]
<1>1. IsFiniteSet(S)
  BY ToolAssumption, FS_Subset
<1>2. f \in [S -> Nat] /\ f \in [S -> Int] /\ \A t \in S : us[t] = f[t]
  BY ToolAssumption
<1>3. AggregateUsage(us) = SumFunctionOnSet(us, S)
  BY DEF AggregateUsage
<1> HIDE DEF f, S
<1>4. SumFunctionOnSet(us, S) = SumFunctionOnSet(f, S)
  BY <1>1, <1>2, SumOfSame
<1>5. SumFunctionOnSet(f, S) \in Nat
  BY <1>1, <1>2, SumOfNats
<1> QED
  BY <1>3, <1>4, <1>5

GraphTypes ==
  /\ ceiling \in {None} \cup 1..MaxCost /\ updates \in [Tasks -> {None} \cup 0..MaxUse]
  /\ budgetSpent \in {None} \cup Nat /\ overBudget \in BOOLEAN /\ stop \in {None} \cup Nat
  /\ emitted \in 0..MaxUpdates /\ crossed \in BOOLEAN
  /\ overrun \in Nat

LEMMA NewGraphTypes ==
  ASSUME NewGraph
  PROVE  GraphTypes'
<1>1. updates' \in [Tasks -> {None} \cup 0..MaxUse]
  BY DEF NewGraph
<1>2. emitted' \in 0..MaxUpdates /\ overrun' \in Nat
  BY ToolAssumption DEF NewGraph
<1>3. overBudget' \in BOOLEAN /\ crossed' \in BOOLEAN
  BY DEF NewGraph
<1>4. ceiling' \in {None} \cup 1..MaxCost /\ budgetSpent' \in {None} \cup Nat /\ stop' \in {None} \cup Nat
  BY DEF NewGraph
<1> QED
  BY <1>1, <1>2, <1>3, <1>4 DEF GraphTypes

(* The tool's state keeps its types.                                         *)
LEMMA CallTypes ==
  ASSUME ToolTypeOK, ConfigurationTypeOK, NEW c \in Calls, Call(c)
  PROVE  ToolTypeOK'
<1> USE ToolAssumption, ConfigurationAssumption DEF ToolTypeOK
<1>1. CASE Starts(c)
  <2>1. GraphTypes' /\ busy' \in BOOLEAN /\ named' \in {None} \cup Profiles
    BY <1>1, NewGraphTypes DEF Starts
  <2>2. call' \in [Calls -> {"idle", "loading", "running", "reporting"}]
    BY <1>1 DEF Starts
  <2> QED
    BY <2>1, <2>2 DEF GraphTypes
<1>2. CASE LoadRejected(c)
  <2>1. GraphTypes' /\ busy' \in BOOLEAN /\ named' \in {None} \cup Profiles
    BY <1>2, NewGraphTypes DEF LoadRejected, Throws
  <2>2. call' \in [Calls -> {"idle", "loading", "running", "reporting"}]
    BY <1>2 DEF LoadRejected, Throws
  <2> QED
    BY <2>1, <2>2 DEF GraphTypes
<1>3. CASE Loads(c)
  <2>1. file.ceiling \in {None} \cup 1..MaxCost
    BY <1>3 DEF Loads, ConfigurationTypeOK, Readable
  <2> QED
    BY <1>3, <2>1 DEF Loads
<1>4. CASE Progress(c)
  <2>1. updates' \in [Tasks -> {None} \cup 0..MaxUse]
    BY <1>4 DEF Progress
  <2>2. AggregateUsage(updates') \in Nat
    BY <2>1, UsageType
  <2>3. budgetSpent' \in {None} \cup Nat /\ overBudget' \in BOOLEAN
    BY <1>4, <2>2 DEF Progress, Latch
  <2>4. emitted' \in 0..MaxUpdates
    BY <1>4 DEF Progress
  <2>5. crossed' \in BOOLEAN
    BY <1>4 DEF Progress
  <2>6. UNCHANGED <<busy, call, named, ceiling, stop, overrun>>
    BY <1>4 DEF Progress
  <2> QED
    BY <2>1, <2>3, <2>4, <2>5, <2>6
<1>5. CASE GraphFails(c)
  <2>1. GraphTypes' /\ busy' \in BOOLEAN /\ named' \in {None} \cup Profiles
    BY <1>5, NewGraphTypes DEF GraphFails, Throws
  <2>2. call' \in [Calls -> {"idle", "loading", "running", "reporting"}]
    BY <1>5 DEF GraphFails, Throws
  <2> QED
    BY <2>1, <2>2 DEF GraphTypes
<1>6. CASE Reports(c)
  <2>1. overrun' \in Nat
    BY <1>6, NothingOverruns DEF Reports
  <2> QED
    BY <1>6, <2>1 DEF Reports
<1>7. CASE Returns(c)
  <2>1. GraphTypes' /\ busy' \in BOOLEAN /\ named' \in {None} \cup Profiles
    BY <1>7, NewGraphTypes DEF Returns
  <2>2. call' \in [Calls -> {"idle", "loading", "running", "reporting"}]
    BY <1>7 DEF Returns
  <2> QED
    BY <2>1, <2>2 DEF GraphTypes
<1> QED
  BY <1>1, <1>2, <1>3, <1>4, <1>5, <1>6, <1>7 DEF Call

LEMMA ToolTypeStep ==
  ASSUME ToolTypeOK, ConfigurationTypeOK, ToolStep
  PROVE  ToolTypeOK'
<1>1. CASE Forget
  BY <1>1, NewGraphTypes DEF Forget, GraphTypes, ToolTypeOK
<1>2. CASE UNCHANGED toolVars
  BY <1>2 DEF toolVars, graph, ToolTypeOK
<1> QED
  BY <1>1, <1>2, CallTypes DEF ToolStep

(* A call that begins finds no other, and one that ends leaves none.          *)
LEMMA CallIsOne ==
  ASSUME ToolTypeOK, OneCall, NEW c \in Calls, Call(c)
  PROVE  OneCall'
<1> USE DEF ToolTypeOK, OneCall
<1>1. CASE Starts(c)
  BY <1>1 DEF Starts, Free
<1>2. CASE LoadRejected(c)
  BY <1>2 DEF LoadRejected, Throws
<1>3. CASE Loads(c)
  BY <1>3 DEF Loads
<1>4. CASE Progress(c)
  BY <1>4 DEF Progress
<1>5. CASE GraphFails(c)
  BY <1>5 DEF GraphFails, Throws
<1>6. CASE Reports(c)
  BY <1>6 DEF Reports
<1>7. CASE Returns(c)
  BY <1>7 DEF Returns
<1> QED
  BY <1>1, <1>2, <1>3, <1>4, <1>5, <1>6, <1>7 DEF Call

LEMMA CallUnspent ==
  ASSUME ToolTypeOK, OneCall, Unspent, NEW c \in Calls, Call(c)
  PROVE  Unspent'
<1> USE ToolAssumption, ConfigurationAssumption DEF ToolTypeOK, OneCall, Unspent
<1>1. CASE Starts(c)
  BY <1>1 DEF Starts, NewGraph
<1>2. CASE LoadRejected(c)
  BY <1>2 DEF LoadRejected, Throws, NewGraph
<1>3. CASE Loads(c)
  BY <1>3 DEF Loads
<1>4. CASE Progress(c)
  BY <1>4 DEF Progress
<1>5. CASE GraphFails(c)
  BY <1>5 DEF GraphFails, Throws, NewGraph
<1>6. CASE Reports(c)
  BY <1>6 DEF Reports
<1>7. CASE Returns(c)
  BY <1>7 DEF Returns, NewGraph
<1> QED
  BY <1>1, <1>2, <1>3, <1>4, <1>5, <1>6, <1>7 DEF Call

(* The latch is set by the update that crosses the ceiling, and by no other.  *)
LEMMA CallStops ==
  ASSUME ToolTypeOK, OneCall, Unspent, BudgetStops, NEW c \in Calls, Call(c)
  PROVE  BudgetStops'
<1> USE ToolAssumption, ConfigurationAssumption DEF ToolTypeOK, OneCall, Unspent, BudgetStops
<1>1. CASE Starts(c)
  BY <1>1 DEF Starts, NewGraph
<1>2. CASE LoadRejected(c)
  BY <1>2 DEF LoadRejected, Throws, NewGraph
<1>3. CASE Loads(c)
  BY <1>3 DEF Loads
<1>4. CASE Progress(c)
  <2>1. updates' \in [Tasks -> {None} \cup 0..MaxUse]
    BY <1>4 DEF Progress
  <2> DEFINE spent == AggregateUsage(updates')
  <2>2. spent \in Nat /\ spent # None
    BY <2>1, UsageType
  <2>3. /\ IF ceiling # None /\ budgetSpent = None /\ spent > ceiling
          THEN budgetSpent' = spent /\ overBudget' = TRUE
          ELSE UNCHANGED <<budgetSpent, overBudget>>
        /\ crossed' = (crossed \/ (ceiling # None /\ spent > ceiling))
        /\ call[c] = "running" /\ UNCHANGED <<call, ceiling, stop>>
    BY <1>4 DEF Progress, Latch
  <2> HIDE DEF spent
  <2>4. \A d \in Calls : call'[d] # "reporting"
    BY <2>3
  <2>5. /\ overBudget' <=> crossed'
        /\ budgetSpent' # None <=> crossed'
        /\ crossed' => budgetSpent' > ceiling'
    <3>1. CASE ceiling # None /\ budgetSpent = None /\ spent > ceiling
      BY <2>2, <2>3, <3>1
    <3>2. CASE ~(ceiling # None /\ budgetSpent = None /\ spent > ceiling)
      BY <2>2, <2>3, <3>2
    <3> QED
      BY <3>1, <3>2
  <2> QED
    BY <2>4, <2>5
<1>5. CASE GraphFails(c)
  BY <1>5 DEF GraphFails, Throws, NewGraph
<1>6. CASE Reports(c)
  BY <1>6 DEF Reports
<1>7. CASE Returns(c)
  BY <1>7 DEF Returns, NewGraph
<1> QED
  BY <1>1, <1>2, <1>3, <1>4, <1>5, <1>6, <1>7 DEF Call

LEMMA ToolInvStep ==
  ASSUME ToolTypeOK, ToolInv, ToolStep
  PROVE  ToolInv'
<1>1. CASE Forget
  BY <1>1 DEF Forget, NewGraph, ToolInv, OneCall, Unspent, BudgetStops, ReportFits
<1>2. CASE UNCHANGED toolVars
  BY <1>2 DEF toolVars, graph, ToolInv, OneCall, Unspent, BudgetStops, ReportFits
<1>3. ASSUME NEW c \in Calls, Call(c)
      PROVE  ReportFits'
  BY <1>3, NothingOverruns DEF ToolInv, ReportFits, Call, Starts, LoadRejected, Loads, Progress,
     GraphFails, Throws, NewGraph, Reports, Returns
<1> QED
  BY <1>1, <1>2, <1>3, CallIsOne, CallUnspent, CallStops DEF ToolStep, ToolInv

LEMMA OneCallIsOneGraph ==
  ASSUME OneCall, busy \in BOOLEAN
  PROVE  OneGraph
<1> DEFINE S == {c \in Calls : call[c] # "idle"}
<1>1. CASE ~busy
  <2>1. S = {}
    BY <1>1 DEF OneCall
  <2> QED
    BY <1>1, <2>1, FS_EmptySet DEF OneGraph
<1>2. CASE busy
  <2>1. PICK c \in Calls : \A d \in Calls : call[d] # "idle" <=> d = c
    BY <1>2 DEF OneCall
  <2>2. S = {c}
    BY <2>1
  <2> QED
    BY <1>2, <2>2, FS_Singleton DEF OneGraph
<1> QED
  BY <1>1, <1>2

-----------------------------------------------------------------------------
(* The theorems.                                                            *)

LEMMA Initially ==
  ASSUME Init
  PROVE  IInv
<1>1. ConfigurationTypeOK
  BY ConfigurationAssumption DEF Init, ConfigurationInit, ConfigurationTypeOK
<1>2. ModeTypeOK
  <2>1. PlainType
    BY ModeAssumption DEF Init, ModeInit, PlainType, Models, ToolSets
  <2>2. LogType /\ local \in Locals /\ mishaps \in 0..MaxMishaps
    BY ModeAssumption, NewEntry DEF Init, ModeInit, LogType
  <2> QED
    BY <2>1, <2>2, TypeParts
<1>3. ToolTypeOK
  <2>1. updates \in [Tasks -> {None} \cup 0..MaxUse]
    BY DEF Init, ToolInit
  <2>2. emitted \in 0..MaxUpdates /\ overrun \in Nat
    BY ToolAssumption DEF Init, ToolInit
  <2>3. /\ ceiling \in {None} \cup 1..MaxCost /\ budgetSpent \in {None} \cup Nat
        /\ stop \in {None} \cup Nat /\ overBudget \in BOOLEAN /\ crossed \in BOOLEAN
    BY DEF Init, ToolInit
  <2>4. busy \in BOOLEAN /\ call \in [Calls -> {"idle", "loading", "running", "reporting"}]
        /\ named \in {None} \cup Profiles
    BY DEF Init, ToolInit
  <2> QED
    BY <2>1, <2>2, <2>3, <2>4 DEF ToolTypeOK
<1>4. HandlerInv
  BY DEF Init, ModeInit, HandlerInv, AwaitInv, EntryInv, SnapshotInv, Activating, Idle, Off
<1>5. ModelInv /\ MisledInv
  BY ModeAssumption DEF Init, ModeInit, ModelInv, MisledInv, Idle, Off
<1>6. ToolInv
  BY DEF Init, ToolInit, ToolInv, OneCall, Unspent, BudgetStops, ReportFits
<1>7. misled \in Nat /\ told \in BOOLEAN
  BY DEF Init
<1> QED
  BY <1>1, <1>2, <1>3, <1>4, <1>5, <1>6, <1>7 DEF IInv, TypeOK

LEMMA HistoryTypes ==
  ASSUME told \in BOOLEAN, [Next]_vars
  PROVE  told' \in BOOLEAN
<1>1. CASE Calling
  <2>1. PICK c \in Calls : told' = (told \/ Misleads(c))
    BY <1>1 DEF Calling
  <2> QED
    BY <2>1
<1> QED
  BY <1>1 DEF Next, Mode, Restarts, vars, history

LEMMA Inductive ==
  ASSUME IInv, [Next]_vars
  PROVE  IInv'
<1>1. ConfigurationTypeOK /\ ModeTypeOK /\ ToolTypeOK /\ HandlerInv /\ ModelInv /\ MisledInv /\ ToolInv
  BY DEF IInv, TypeOK
<1>2. ModeStep /\ ToolStep
  BY StepOfMode, StepOfTool
<1>3. mishaps' \in 0..MaxMishaps
  BY <1>1, ModeAssumption DEF vars, modeVars, Next, Mode, ModeNext, Edit, ModelChanges, Mishap, Calling,
     Restarts, Crash, Reopen, ModeTypeOK
<1>4. ConfigurationTypeOK' /\ ModeTypeOK' /\ ToolTypeOK'
  BY <1>1, <1>2, <1>3, ConfigurationStep, ModeTypeStep, ToolTypeStep DEF HandlerInv
<1>5. HandlerInv' /\ ModelInv'
  BY <1>1, <1>2, HandlerStep, ModelStep
<1>6. MisledInv'
  BY <1>1, MisledStep DEF ToolInv
<1>7. ToolInv'
  BY <1>1, <1>2, ToolInvStep
<1>8. misled' \in Nat /\ told' \in BOOLEAN
  BY <1>6, HistoryTypes DEF MisledInv, IInv, TypeOK
<1> QED
  BY <1>4, <1>5, <1>6, <1>7, <1>8 DEF IInv, TypeOK

(* What holds of the session at every await of its handlers and of its tool *)
(* calls, from which the properties below follow.                           *)
THEOREM Invariance == Spec => []IInv
<1>1. Init => IInv
  BY Initially
<1>2. IInv /\ [Next]_vars => IInv'
  BY Inductive
<1> QED
  BY <1>1, <1>2, PTL DEF Spec

(* Every variable of the session keeps its type.                            *)
THEOREM TypeCorrect == Spec => []TypeOK
<1>1. IInv => TypeOK
  BY DEF IInv
<1> QED
  BY <1>1, Invariance, PTL

(* Whatever commands, navigations, refusals, crashes and restarts led       *)
(* there, a session between two handlers has the tools of its mode, and an  *)
(* entry of the mode has the tools to put back (activate and deactivate of  *)
(* extension.ts, README "restores the exact snapshot").                     *)
THEOREM SnapshotIsRestored == Spec => []ToolsFollowMode
<1>1. IInv => ToolsFollowMode
  BY DEF IInv, HandlerInv, SnapshotInv, EntryInv, ToolsFollowMode
<1> QED
  BY <1>1, Invariance, PTL

(* A session out of the mode is on its own model, but where a handler or a  *)
(* crash left it on the mode's (applyModel, persistModeState).              *)
THEOREM ModelIsRestored == Spec => []ModelReturns
<1>1. IInv => ModelReturns
  BY DEF IInv, ModelInv, ModelReturns
<1> QED
  BY <1>1, Invariance, PTL

(* A mode that is on is the mode the session's branch records, and one that *)
(* is off remembers no snapshot (persistModeState, restoreModeState).       *)
THEOREM ModeIsRecorded == Spec => []RecordIsMode
<1>1. IInv => RecordIsMode
  <2> SUFFICES ASSUME IInv PROVE RecordIsMode
    OBVIOUS
  <2>1. Idle /\ enabled => branch.tools = {"write"}
    BY DEF IInv, TypeOK, ModeTypeOK, HandlerInv, SnapshotInv, EntryInv
  <2> QED
    BY <2>1 DEF IInv, HandlerInv, SnapshotInv, RecordIsMode
<1> QED
  BY <1>1, Invariance, PTL

(* One graph at a time, and none once no call runs: a call that throws      *)
(* gives the tool back (graphRunning of orchestrator.ts).                   *)
THEOREM OneGraphAtATime == Spec => []OneGraph
<1>1. IInv => OneGraph
  BY OneCallIsOneGraph DEF IInv, TypeOK, ToolTypeOK, ToolInv
<1> QED
  BY <1>1, Invariance, PTL

(* The update that passes the ceiling stops the graph, nothing else does,   *)
(* and the result tells of it with the spend that did (onProgress).         *)
THEOREM CeilingStops == Spec => []BudgetStops
<1>1. IInv => BudgetStops
  BY DEF IInv, ToolInv
<1> QED
  BY <1>1, Invariance, PTL

(* A report is within its bound for any number of nodes, of any sizes, as   *)
(* far as their smallest forms leave that possible (collectNodeReviews).    *)
THEOREM ReportWithinBound == Spec => []ReportFits
<1>1. IInv => ReportFits
  BY DEF IInv, ToolInv
<1> QED
  BY <1>1, Invariance, PTL

(* After an edit of the configuration, calls that name what they were given *)
(* are rejected for one request at most, however often the file is edited   *)
(* and whatever was remembered (currentProfiles of extension.ts).           *)
THEOREM DivergenceOfOneRequest == Spec => []DivergenceEnds
<1>1. IInv => DivergenceEnds
  BY DEF IInv, MisledInv, DivergenceEnds
<1> QED
  BY <1>1, Invariance, PTL
=============================================================================
