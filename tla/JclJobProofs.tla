---------------------------- MODULE JclJobProofs ----------------------------
(***************************************************************************)
(* What IRXJCL, IRXEXEC and the load routine guarantee together, for every *)
(* library, every exec, any nesting of execs and any shortage of storage.  *)
(***************************************************************************)
EXTENDS JclJob, SequenceTheorems, TLAPS

-----------------------------------------------------------------------------
(* The inductive invariant: what is true of a level at each of its steps.  *)

LoadSteps == {"load", "search", "read", "line", "loaded"}
WalkSteps == {"tokenize", "vpool", "parser", "args", "labels", "walk"}

\* The steps at which a level has set the name, stack end and error number of
\* the work block, and at which it has set the source too.
Claimed == {"init", "compile", "bytecode", "cleanup", "ran"} \cup WalkSteps
RetainSteps == {"compile", "bytecode"} \cup WalkSteps
Steps == LoadSteps \cup {"dispatch", "source", "returned"} \cup Claimed

Retains(l) == l.step \in RetainSteps \/ (l.step = "cleanup" /\ l.retained)
ExecutingSteps == {"bytecode", "walk"}

Fields == {"step", "exec", "reader", "call", "rc", "told", "result", "engines"}

\* What dispatch and run remember of the level b below is what b had set.
Remembers(l, d, b) ==
    /\ l.step \in Claimed =>
          /\ {"oldname", "oldstack"} \subseteq DOMAIN l
          /\ d > 1 => l.oldname = b.exec.name /\ l.oldstack = d - 1
    /\ l.step \in RetainSteps \cup {"cleanup"} => {"retained", "exit"} \subseteq DOMAIN l
    /\ l.step \in RetainSteps => l.retained
    /\ l.step = "loaded" => "loadrc" \in DOMAIN l
    /\ l.step = "ran" => "exit" \in DOMAIN l
    /\ Retains(l) => "oldsource" \in DOMAIN l /\ (d > 1 => l.oldsource = d - 1)

\* The storage a level can hold at each step; the source buffer while it runs.
Instblk == {"hdr", "pool"}
MayHold(l) ==
    CASE l.step = "load" -> {}
      [] l.step = "search" -> Tables
      [] l.step \in {"read", "line"} -> Tables \cup Reader
      [] l.step = "loaded" -> IF l.loadrc = "OK" THEN Instblk ELSE {}
      [] l.step = "bytecode" -> Instblk \cup {"src", "bc"}
      [] l.step \in WalkSteps \cup {"cleanup"} -> Instblk \cup {"src"} \cup WalkNames
      [] l.step \in {"init", "compile", "ran"} -> Instblk \cup {"src"}
      [] OTHER -> Instblk
Holds(l, d, h) ==
    /\ \A x \in h : x[2] = d => x[1] \in MayHold(l)
    /\ l.step \in Claimed => <<"src", d>> \in h

Ended == {"cleanup", "ran", "returned"}
RanOnce(l) == Len(l.engines) <= 1 /\ (l.step \notin Ended => l.engines = <<>>)

LevelOK(l, d, b, h) ==
    /\ Fields \subseteq DOMAIN l /\ l.step \in Steps
    /\ Remembers(l, d, b) /\ Holds(l, d, h) /\ RanOnce(l)

\* Whose source, name and stack end the work block has: those of the innermost
\* level l that has claimed them, else those of the level b below.
WbFields == {"source", "name", "stack", "address", "error", "bytecode", "execs", "fallbacks",
             "cond", "fresh", "errors"}
Owns(l, d, b, w) ==
    /\ IF l.step \in Claimed THEN w.name = l.exec.name /\ w.stack = d
       ELSE d > 1 => w.name = b.exec.name /\ w.stack = d - 1
    /\ IF Retains(l) THEN w.source = d ELSE d > 1 => w.source = d - 1

\* The error number is the one this level reported.  It is not once the level
\* executes clauses: an exec they call may leave its own.
Reports(l, w) ==
    /\ l.step \in Claimed \ (ExecutingSteps \cup Ended) =>
          w.error = 0 /\ l.rc = 0 /\ l.told = 0
    /\ l.step \in {"dispatch", "source"} \cup LoadSteps => l.rc = 0 /\ l.told = 0
    /\ l.step \in {"cleanup", "ran"} =>
          \/ l.rc = 0 /\ l.exit = EXIT
          \/ l.rc = 20 /\ w.error = l.told
    /\ l.step = "source" => Verdict(l.call) = 0
    /\ l.step = "returned" /\ Verdict(l.call) = 0 =>
          l.result = CASE l.rc = 0 -> EXIT
                       [] l.rc # 0 /\ l.told # 0 -> SYNTAX_BASE + l.told
                       [] OTHER -> 20

RunInv ==
    /\ \E S : levels \in Seq(S)
    /\ WbFields \subseteq DOMAIN wb
    /\ \A d \in 1 .. Depth : LevelOK(levels[d], d, levels[d - 1], held)
    /\ \A d \in 1 .. Depth - 1 : levels[d].step \in ExecutingSteps
    /\ levels # <<>> => Owns(Top, Depth, levels[Depth - 1], wb) /\ Reports(Top, wb)
    /\ \A x \in held : x = <<x[1], x[2]>> /\ x[2] \in 1 .. Depth

\* The job: an exec runs while IRXJCL does, in the environment that was there or
\* in one of its own.
JobFields == {"step", "via", "lost", "before", "said", "rc", "count"}
JobInv ==
    /\ JobFields \subseteq DOMAIN job
    /\ job.step \in {"logon", "idle", "run", "ending"}
    /\ job.step # "run" => levels = <<>>
    /\ job.count \in Nat
    /\ env \in {"none", "found", "own"} /\ job.before \in {"none", "found"}
    /\ job.step \in {"run", "ending"} => env = job.before \/ (job.before = "none" /\ env = "own")
    /\ job.step \in {"logon", "idle"} => env # "own"
    /\ job.step = "logon" => env = "none" /\ job.count = 0
    /\ job.step = "idle" /\ "IRXTERM" \notin job.lost => env = job.before \/ job.count = 0

JclInv == RunInv /\ JobInv

-----------------------------------------------------------------------------
(* Levels: setting fields of the innermost, adding one, dropping it.       *)

LEMMA OverlayFields ==
  ASSUME NEW f, NEW l
  PROVE  /\ DOMAIN Overlay(f, l) = DOMAIN f \cup DOMAIN l
         /\ \A x \in DOMAIN f : Overlay(f, l)[x] = f[x]
         /\ \A x \in DOMAIN l \ DOMAIN f : Overlay(f, l)[x] = l[x]
  BY DEF Overlay

LEMMA DepthNat ==
  ASSUME RunInv
  PROVE  /\ Depth \in Nat /\ (levels # <<>> <=> Depth > 0)
         /\ \E S : levels \in Seq(S)
  BY EmptySeq DEF RunInv, Depth

LEMMA UpdateLevels ==
  ASSUME RunInv, levels # <<>>, NEW f, Update(f)
  PROVE  /\ \E S : levels' \in Seq(S)
         /\ Depth' = Depth
         /\ levels' # <<>>
         /\ levels'[Depth] = Overlay(f, Top)
         /\ \A d \in 1 .. Depth - 1 : levels'[d] = levels[d]
<1>1. PICK S : levels \in Seq(S)
  BY DepthNat
<1>2. levels' \in Seq(S \cup {Overlay(f, Top)})
  BY <1>1 DEF Update, Depth, Top
<1> QED
  BY <1>1, <1>2, DepthNat DEF Update, Depth, Top

LEMMA FrontLevels ==
  ASSUME RunInv, levels # <<>>, levels' = Front(levels)
  PROVE  /\ \E S : levels' \in Seq(S)
         /\ Depth' = Depth - 1
         /\ \A d \in 1 .. Depth - 1 : levels'[d] = levels[d]
<1>1. PICK S : levels \in Seq(S)
  BY DepthNat
<1>2. Len(levels) \in Nat /\ Len(levels) > 0
  BY <1>1, DepthNat DEF Depth
<1>3. \A i \in 1 .. Len(levels) - 1 : levels[i] \in S
  BY <1>1, <1>2
<1>4. /\ SubSeq(levels, 1, Len(levels) - 1) \in Seq(S)
      /\ Len(SubSeq(levels, 1, Len(levels) - 1)) = Len(levels) - 1
      /\ \A d \in 1 .. Len(levels) - 1 : SubSeq(levels, 1, Len(levels) - 1)[d] = levels[d]
  <2> DEFINE n == Len(levels) - 1
  <2>1. n \in Nat /\ n \in Int /\ 1 \in Int /\ n - 1 + 1 = n
    BY <1>2
  <2>2. \A i \in 1 .. n : levels[i] \in S
    BY <1>3
  <2> HIDE DEF n
  <2>3. /\ SubSeq(levels, 1, n) \in Seq(S)
        /\ Len(SubSeq(levels, 1, n)) = IF 1 <= n THEN n - 1 + 1 ELSE 0
        /\ \A i \in 1 .. n - 1 + 1 : SubSeq(levels, 1, n)[i] = levels[1 + i - 1]
    BY <2>1, <2>2, SubSeqProperties
  <2>4. \A d \in 1 .. n : SubSeq(levels, 1, n)[d] = levels[d]
    BY <2>1, <2>3
  <2>5. Len(SubSeq(levels, 1, n)) = n
    BY <2>1, <2>3
  <2> QED
    BY <2>3, <2>4, <2>5 DEF n
<1> QED
  BY <1>2, <1>4 DEF Front, Depth

\* A level does not depend on the one below when there is none.
LEMMA FirstLevel ==
  ASSUME NEW l, NEW b, NEW c, NEW h, NEW w
  PROVE  /\ LevelOK(l, 1, b, h) => LevelOK(l, 1, c, h)
         /\ Owns(l, 1, b, w) => Owns(l, 1, c, w)
  BY DEF LevelOK, Remembers, Owns

\* Storage of other levels does not concern a level.
LEMMA OtherStorage ==
  ASSUME NEW l, NEW d, NEW b, NEW h, NEW k, LevelOK(l, d, b, h),
         \A x : x[2] = d => (x \in k <=> x \in h)
  PROVE  LevelOK(l, d, b, k)
  BY DEF LevelOK, Holds

\* What the innermost level gets and gives back.
Swapped(got, freed) == held' = (held \ Mine(freed)) \cup Mine(got)

LEMMA StorageSteps ==
  ASSUME NEW names
  PROVE  /\ Got(names) => Swapped(names, {})
         /\ Freed(names) \/ Short(names) => Swapped({}, names)
         /\ UNCHANGED held => Swapped({}, {})
<1>1. Mine({}) = {}
  BY DEF Mine
<1> QED
  BY <1>1 DEF Swapped, Got, Freed, Short

LEMMA SwappedHolds ==
  ASSUME RunInv, NEW l, NEW m, NEW got, NEW freed, Swapped(got, freed),
         Holds(l, Depth, held), (MayHold(l) \ freed) \cup got \subseteq MayHold(m),
         m.step \in Claimed => "src" \in got \/ (l.step \in Claimed /\ "src" \notin freed)
  PROVE  /\ Holds(m, Depth, held')
         /\ \A x : x[2] # Depth => (x \in held' <=> x \in held)
         /\ \A x \in held' : x = <<x[1], x[2]>>
<1>1. \A x \in held : x = <<x[1], x[2]>>
  BY DEF RunInv
<1> QED
  BY <1>1 DEF Holds, Mine, Swapped

\* What the innermost level does with its own storage, fields and the work block
\* keeps the invariant if it keeps the part about the innermost level.
LEMMA TopStep ==
  ASSUME RunInv, levels # <<>>, NEW f, Update(f), NEW got, NEW freed,
         Swapped(got, freed),
         WbFields \subseteq DOMAIN wb',
         LET l == Overlay(f, Top)
             b == levels[Depth - 1] IN
         /\ l.step \in Steps
         /\ Fields \subseteq DOMAIN l
         /\ Remembers(l, Depth, b)
         /\ RanOnce(l)
         /\ Owns(l, Depth, b, wb')
         /\ Reports(l, wb')
         /\ (MayHold(Top) \ freed) \cup got \subseteq MayHold(l)
         /\ l.step \in Claimed =>
              "src" \in got \/ (Top.step \in Claimed /\ "src" \notin freed)
  PROVE  RunInv'
<1>1. Depth \in Nat /\ Depth > 0
  BY DepthNat
<1>2. /\ \E S : levels' \in Seq(S)
      /\ Depth' = Depth
      /\ levels' # <<>>
      /\ levels'[Depth] = Overlay(f, Top)
      /\ \A d \in 1 .. Depth - 1 : levels'[d] = levels[d]
  BY UpdateLevels
<1>3. LevelOK(Top, Depth, levels[Depth - 1], held)
  BY <1>1 DEF RunInv, Top
<1>4. /\ Holds(Overlay(f, Top), Depth, held')
      /\ \A x : x[2] # Depth => (x \in held' <=> x \in held)
      /\ \A x \in held' : x = <<x[1], x[2]>>
  BY <1>3, SwappedHolds DEF LevelOK
<1>5. ASSUME NEW d \in 1 .. Depth PROVE LevelOK(levels'[d], d, levels'[d - 1], held')
  <2>1. LevelOK(levels'[d], d, levels[d - 1], held')
    <3>1. CASE d = Depth
      BY <1>2, <1>4, <3>1 DEF LevelOK
    <3>2. CASE d # Depth
      <4>1. LevelOK(levels[d], d, levels[d - 1], held)
        BY DEF RunInv
      <4>2. \A x : x[2] = d => (x \in held' <=> x \in held)
        BY <1>4, <3>2
      <4>3. LevelOK(levels[d], d, levels[d - 1], held')
        BY <4>1, <4>2, OtherStorage
      <4>4. levels'[d] = levels[d]
        BY <1>1, <1>2, <3>2
      <4> QED
        BY <4>3, <4>4
    <3> QED
      BY <3>1, <3>2
  <2>2. CASE d = 1
    BY <2>1, <2>2, FirstLevel
  <2>3. CASE d # 1
    BY <1>1, <1>2, <2>1, <2>3
  <2> QED
    BY <2>2, <2>3
<1>6. \A d \in 1 .. Depth - 1 : levels'[d].step \in ExecutingSteps
  BY <1>2 DEF RunInv
<1>7. Owns(levels'[Depth], Depth, levels'[Depth - 1], wb')
  <2>1. CASE Depth = 1
    BY <1>2, <2>1, FirstLevel
  <2>2. CASE Depth # 1
    BY <1>1, <1>2, <2>2
  <2> QED
    BY <2>1, <2>2
<1>8. \A x \in held' : x = <<x[1], x[2]>> /\ x[2] \in 1 .. Depth
  BY <1>1, <1>4 DEF RunInv
<1>9. Top' = levels'[Depth]
  BY <1>2 DEF Top
<1> QED
  BY <1>2, <1>5, <1>6, <1>7, <1>8, <1>9 DEF RunInv

\* The innermost level, as the invariant has it.
LEMMA TopOK ==
  ASSUME RunInv, levels # <<>>
  PROVE  /\ LevelOK(Top, Depth, levels[Depth - 1], held)
         /\ Owns(Top, Depth, levels[Depth - 1], wb)
         /\ Reports(Top, wb)
         /\ WbFields \subseteq DOMAIN wb
         /\ Fields \subseteq DOMAIN Top
  BY DepthNat DEF RunInv, Top, LevelOK

\* Fields an operation does not set stay.
LEMMA KeptFields ==
  ASSUME RunInv, levels # <<>>, NEW f
  PROVE  /\ Fields \subseteq DOMAIN Overlay(f, Top)
         /\ \A x \in Fields \ DOMAIN f : Overlay(f, Top)[x] = Top[x]
<1>1. Fields \subseteq DOMAIN Top
  BY TopOK
<1>2. DOMAIN Overlay(f, Top) = DOMAIN f \cup DOMAIN Top
  BY OverlayFields
<1>3. ASSUME NEW x \in Fields \ DOMAIN f
      PROVE  Overlay(f, Top)[x] = Top[x]
  <2>1. x \in DOMAIN Top \ DOMAIN f
    BY <1>1
  <2> QED
    BY <2>1 DEF Overlay
<1> QED
  BY <1>1, <1>2, <1>3

-----------------------------------------------------------------------------
(* The load routine.                                                       *)

\* A step of a load: the level stays a load, no run field of it changes.
LEMMA LoadTop ==
  ASSUME RunInv, levels # <<>>, Top.step \in LoadSteps, NEW f, Update(f),
         NEW got, NEW freed, Swapped(got, freed), UNCHANGED wb,
         DOMAIN f \cap (Fields \ {"step"}) = {},
         LET l == Overlay(f, Top) IN
         /\ l.step \in LoadSteps
         /\ l.step = "loaded" => "loadrc" \in DOMAIN l
         /\ (MayHold(Top) \ freed) \cup got \subseteq MayHold(l)
  PROVE  RunInv'
<1> DEFINE l == Overlay(f, Top)
           b == levels[Depth - 1]
<1>1. /\ LevelOK(Top, Depth, b, held) /\ Owns(Top, Depth, b, wb) /\ Reports(Top, wb)
      /\ WbFields \subseteq DOMAIN wb
  BY TopOK
<1>2. /\ Fields \subseteq DOMAIN l
      /\ \A x \in Fields \ {"step"} : l[x] = Top[x]
  BY KeptFields
<1>3. /\ l.exec = Top.exec /\ l.rc = Top.rc /\ l.told = Top.told
      /\ l.call = Top.call /\ l.engines = Top.engines
  BY <1>2 DEF Fields
<1>4. /\ l.step \in LoadSteps /\ l.step \notin Claimed /\ l.step \notin Ended
      /\ Top.step \notin Claimed /\ Top.step \notin Ended
      /\ ~Retains(l) /\ ~Retains(Top)
      /\ l.step \in Steps /\ l.step \notin RetainSteps \cup {"cleanup"}
  BY DEF LoadSteps, Claimed, Ended, Retains, RetainSteps, WalkSteps, Steps
<1>5. Remembers(l, Depth, b)
  BY <1>4 DEF Remembers, LoadSteps
<1>6. RanOnce(l)
  BY <1>1, <1>3, <1>4 DEF LevelOK, RanOnce
<1>7. Owns(l, Depth, b, wb')
  BY <1>1, <1>4 DEF Owns
<1>8. Reports(l, wb')
  BY <1>1, <1>3, <1>4 DEF Reports, LoadSteps, Claimed, WalkSteps
<1> HIDE DEF b
<1> QED
  BY <1>1, <1>2, <1>4, <1>5, <1>6, <1>7, <1>8, TopStep DEF b

\* The innermost level at a step of its load.
LEMMA AtStep ==
  ASSUME NEW step, At(step)
  PROVE  levels # <<>> /\ Top.step = step
  BY DEF At

LEMMA MayHoldWhileLoading ==
  ASSUME NEW l
  PROVE  /\ l.step = "load" => MayHold(l) = {}
         /\ l.step = "search" => MayHold(l) = Tables
         /\ l.step \in {"read", "line"} => MayHold(l) = Tables \cup Reader
         /\ l.step = "loaded" => MayHold(l) = IF l.loadrc = "OK" THEN Instblk ELSE {}
<1>1. l.step = "load" => MayHold(l) = {}
  BY DEF MayHold, WalkSteps
<1>2. l.step = "search" => MayHold(l) = Tables
  BY DEF MayHold, WalkSteps
<1>3. l.step \in {"read", "line"} => MayHold(l) = Tables \cup Reader
  BY DEF MayHold, WalkSteps
<1>4. l.step = "loaded" => MayHold(l) = IF l.loadrc = "OK" THEN Instblk ELSE {}
  BY DEF MayHold, WalkSteps
<1> QED
  BY <1>1, <1>2, <1>3, <1>4

\* The end of a load that failed: everything it had is given back.
LEMMA LoadFails ==
  ASSUME RunInv, levels # <<>>, Top.step \in LoadSteps, NEW rc, rc # "OK",
         Update(Unloaded(rc)), UNCHANGED wb, NEW names,
         Swapped({}, names), MayHold(Top) \subseteq names
  PROVE  RunInv'
<1> DEFINE f == [step |-> "loaded", loadrc |-> rc]
           l == Overlay(f, Top)
<1>1. DOMAIN f = {"step", "loadrc"} /\ f.step = "loaded" /\ f.loadrc = rc
  OBVIOUS
<1>2. l.step = "loaded" /\ l.loadrc = rc /\ "loadrc" \in DOMAIN l
  BY <1>1 DEF Overlay
<1>3. MayHold(l) = {}
  BY <1>2, MayHoldWhileLoading
<1>4. DOMAIN f \cap (Fields \ {"step"}) = {}
  BY <1>1 DEF Fields
<1>5. l.step \in LoadSteps
  BY <1>2 DEF LoadSteps
<1>6. Update(f)
  BY DEF Unloaded
<1> HIDE DEF f
<1> QED
  BY <1>2, <1>3, <1>4, <1>5, <1>6, LoadTop

\* A step of a load that sets fields of its own, and perhaps goes on.
LEMMA LoadGoesOn ==
  ASSUME RunInv, levels # <<>>, Top.step \in {"load", "search", "read", "line"},
         NEW f, Update(f), DOMAIN f \subseteq {"step", "acc", "dd", "blocks", "records"},
         Overlay(f, Top).step \in {"search", "read", "line"}, UNCHANGED wb,
         NEW got, Swapped(got, {}),
         MayHold(Top) \cup got \subseteq MayHold(Overlay(f, Top))
  PROVE  RunInv'
<1>1. DOMAIN f \cap (Fields \ {"step"}) = {}
  BY DEF Fields
<1>2. Top.step \in LoadSteps /\ Overlay(f, Top).step \in LoadSteps
  BY DEF LoadSteps
<1> QED
  BY <1>1, <1>2, LoadTop

LEMMA LoadBeginRun ==
  ASSUME RunInv, LoadBegin, UNCHANGED wb
  PROVE  RunInv'
<1>1. levels # <<>> /\ Top.step = "load" /\ Top.step \in LoadSteps
  BY AtStep DEF LoadBegin, LoadSteps
<1>2. MayHold(Top) = {}
  BY <1>1, MayHoldWhileLoading
<1>3. CASE Got(Tables) /\ Update([step |-> "search", acc |-> NewAcc, dd |-> 1])
  <2> DEFINE f == [step |-> "search", acc |-> NewAcc, dd |-> 1]
  <2>1. DOMAIN f = {"step", "acc", "dd"} /\ f.step = "search"
    OBVIOUS
  <2>2. Overlay(f, Top).step = "search"
    BY <2>1 DEF Overlay
  <2>3. MayHold(Overlay(f, Top)) = Tables
    BY <2>2, MayHoldWhileLoading
  <2>4. Swapped(Tables, {})
    BY <1>3, StorageSteps
  <2> HIDE DEF f
  <2> QED
    BY <1>1, <1>2, <1>3, <2>1, <2>2, <2>3, <2>4, LoadGoesOn DEF f
<1>4. CASE Short(Tables) /\ Update(Unloaded("NOTFOUND"))
  BY <1>1, <1>2, <1>4, StorageSteps, LoadFails
<1> QED
  BY <1>3, <1>4 DEF LoadBegin

LEMMA LoadNotFoundRun ==
  ASSUME RunInv, LoadNotFound, UNCHANGED wb
  PROVE  RunInv'
<1>1. levels # <<>> /\ Top.step = "search" /\ Top.step \in LoadSteps
  BY AtStep DEF LoadNotFound, LoadSteps
<1>2. MayHold(Top) = Tables
  BY <1>1, MayHoldWhileLoading
<1> QED
  BY <1>1, <1>2, StorageSteps, LoadFails DEF LoadNotFound

\* Reading(m), the record a load begins a member with.
LEMMA ReadingFields ==
  ASSUME NEW m
  PROVE  /\ DOMAIN Reading(m) = {"step", "acc", "blocks"}
         /\ Overlay(Reading(m), Top).step = "read"
         /\ MayHold(Overlay(Reading(m), Top)) = Tables \cup Reader
<1>1. DOMAIN Reading(m) = {"step", "acc", "blocks"} /\ Reading(m).step = "read"
  BY DEF Reading
<1>2. Overlay(Reading(m), Top).step = "read"
  BY <1>1 DEF Overlay
<1> QED
  BY <1>1, <1>2, MayHoldWhileLoading

\* Looking in the next DD.
LEMMA NextDDRun ==
  ASSUME RunInv, levels # <<>>, Top.step = "search",
         Update([dd |-> Top.dd + 1]), UNCHANGED <<wb, held>>
  PROVE  RunInv'
<1> DEFINE f == [dd |-> Top.dd + 1]
<1>1. DOMAIN f = {"dd"}
  OBVIOUS
<1>2. Overlay(f, Top).step = "search"
  BY <1>1, KeptFields DEF Fields
<1>3. MayHold(Top) = Tables /\ MayHold(Overlay(f, Top)) = Tables
  BY <1>2, MayHoldWhileLoading
<1> HIDE DEF f
<1> QED
  BY <1>1, <1>2, <1>3, StorageSteps, LoadGoesOn DEF f

LEMMA LoadFopenRun ==
  ASSUME RunInv, LoadFopen, UNCHANGED wb
  PROVE  RunInv'
<1>1. levels # <<>> /\ Top.step = "search" /\ UNCHANGED held
  BY AtStep DEF LoadFopen
<1>2. CASE Update(Reading(Here))
  BY <1>1, <1>2, ReadingFields, MayHoldWhileLoading, StorageSteps, LoadGoesOn
<1>3. CASE Update([dd |-> Top.dd + 1])
  BY <1>1, <1>3, NextDDRun
<1> QED
  BY <1>2, <1>3 DEF LoadFopen

LEMMA LoadOpenRun ==
  ASSUME RunInv, LoadOpen, UNCHANGED wb
  PROVE  RunInv'
<1>1. levels # <<>> /\ Top.step = "search" /\ Top.step \in LoadSteps
  BY AtStep DEF LoadOpen, LoadSteps
<1>2. MayHold(Top) = Tables
  BY <1>1, MayHoldWhileLoading
<1>3. CASE Got({"bpam", "buf", "open"}) /\ Update(Reading(Here))
  BY <1>1, <1>2, <1>3, ReadingFields, StorageSteps, LoadGoesOn DEF Reader
<1>4. CASE Update([dd |-> Top.dd + 1]) /\ UNCHANGED <<held, shortages>>
  BY <1>1, <1>4, NextDDRun
<1>5. CASE (Freed(Tables) \/ Short(Tables))
           /\ (Update(Unloaded("ERROR")) \/ Update(Unloaded("NOMEM")))
  BY <1>1, <1>2, <1>5, StorageSteps, LoadFails
<1> QED
  BY <1>3, <1>4, <1>5 DEF LoadOpen

\* A load that goes on reading the same member.
LEMMA ReadsOn ==
  ASSUME RunInv, levels # <<>>, Top.step \in {"read", "line"}, NEW f, Update(f),
         DOMAIN f \subseteq {"step", "acc", "blocks", "records"},
         "step" \in DOMAIN f => f.step \in {"read", "line"}, UNCHANGED <<wb, held>>
  PROVE  RunInv'
<1>1. Overlay(f, Top).step \in {"read", "line"}
  <2>1. CASE "step" \in DOMAIN f
    BY <2>1 DEF Overlay
  <2>2. CASE "step" \notin DOMAIN f
    BY <2>2, KeptFields DEF Fields
  <2> QED
    BY <2>1, <2>2
<1>2. MayHold(Top) \subseteq MayHold(Overlay(f, Top))
  BY <1>1, MayHoldWhileLoading
<1> QED
  BY <1>1, <1>2, StorageSteps, LoadGoesOn

LEMMA NextBlockRun ==
  ASSUME RunInv, levels # <<>>, Top.step = "read", NEW records, NextBlock(records),
         UNCHANGED <<wb, held>>
  PROVE  RunInv'
<1> DEFINE f == [step |-> "line", blocks |-> Tail(Top.blocks), records |-> records]
<1>1. DOMAIN f = {"step", "blocks", "records"} /\ f.step = "line" /\ Update(f)
  BY DEF NextBlock
<1> HIDE DEF f
<1> QED
  BY <1>1, ReadsOn

\* The end of a load that failed while it read.
LEMMA ReadFails ==
  ASSUME RunInv, levels # <<>>, Top.step \in {"read", "line"},
         NEW rc \in {"ERROR", "NOMEM"}, Update(Unloaded(rc)), UNCHANGED wb,
         Freed(Reader \cup Tables) \/ Short(Reader \cup Tables)
  PROVE  RunInv'
<1>1. MayHold(Top) \subseteq Reader \cup Tables /\ Top.step \in LoadSteps
  BY MayHoldWhileLoading DEF LoadSteps
<1> QED
  BY <1>1, StorageSteps, LoadFails

LEMMA LoadBlockRun ==
  ASSUME RunInv, LoadBlock, UNCHANGED wb
  PROVE  RunInv'
<1>1. levels # <<>> /\ Top.step = "read"
  BY AtStep DEF LoadBlock
<1> QED
  BY <1>1, NextBlockRun, ReadFails DEF LoadBlock

LEMMA LoadFgetsRun ==
  ASSUME RunInv, LoadFgets, UNCHANGED wb
  PROVE  RunInv'
<1>1. levels # <<>> /\ Top.step = "read" /\ UNCHANGED held
  BY AtStep DEF LoadFgets
<1>2. ASSUME Update([blocks |-> <<>>]) PROVE RunInv'
  BY <1>1, <1>2, ReadsOn
<1> QED
  BY <1>1, <1>2, NextBlockRun DEF LoadFgets

LEMMA LoadLineRun ==
  ASSUME RunInv, LoadLine, UNCHANGED wb
  PROVE  RunInv'
<1>1. levels # <<>> /\ Top.step = "line"
  BY AtStep DEF LoadLine
<1>2. ASSUME GoTo("read"), UNCHANGED held PROVE RunInv'
  BY <1>1, <1>2, ReadsOn DEF GoTo
<1>3. ASSUME NEW acc, Update([acc |-> acc, records |-> Tail(Top.records)]), UNCHANGED held
      PROVE  RunInv'
  <2> DEFINE f == [acc |-> acc, records |-> Tail(Top.records)]
  <2>1. DOMAIN f = {"acc", "records"}
    OBVIOUS
  <2> HIDE DEF f
  <2> QED
    BY <1>1, <1>3, <2>1, ReadsOn DEF f
<1>4. ASSUME Short(Reader \cup Tables), Update(Unloaded("NOMEM")) PROVE RunInv'
  BY <1>1, <1>4, ReadFails
<1> QED
  BY <1>1, <1>2, <1>3, <1>4 DEF LoadLine

LEMMA LoadBuildRun ==
  ASSUME RunInv, LoadBuild, UNCHANGED wb
  PROVE  RunInv'
<1>1. levels # <<>> /\ Top.step = "read" /\ Top.step \in LoadSteps
  BY AtStep DEF LoadBuild, LoadSteps
<1>2. ASSUME NEW instblk,
             held' = (held \ Mine(Reader \cup Tables)) \cup Mine({"hdr", "pool"}),
             Update([step |-> "loaded", loadrc |-> "OK", instblk |-> instblk])
      PROVE  RunInv'
  <2> DEFINE f == [step |-> "loaded", loadrc |-> "OK", instblk |-> instblk]
             l == Overlay(f, Top)
  <2>1. /\ DOMAIN f = {"step", "loadrc", "instblk"}
        /\ f.step = "loaded" /\ f.loadrc = "OK"
    OBVIOUS
  <2>2. l.step = "loaded" /\ l.loadrc = "OK" /\ "loadrc" \in DOMAIN l
    BY <2>1 DEF Overlay
  <2>3. DOMAIN f \cap (Fields \ {"step"}) = {} /\ l.step \in LoadSteps
    BY <2>1, <2>2 DEF Fields, LoadSteps
  <2>4. (MayHold(Top) \ (Reader \cup Tables)) \cup Instblk \subseteq MayHold(l)
    BY <1>1, <2>2, MayHoldWhileLoading
  <2>5. Swapped(Instblk, Reader \cup Tables)
    BY <1>2 DEF Swapped, Instblk
  <2> HIDE DEF f
  <2> QED
    BY <1>1, <1>2, <2>2, <2>3, <2>4, <2>5, LoadTop DEF f
<1>3. ASSUME Short(Reader \cup Tables), Update(Unloaded("NOMEM")) PROVE RunInv'
  BY <1>1, <1>3, ReadFails
<1> QED
  BY <1>2, <1>3 DEF LoadBuild

\* Every step of a load keeps the invariant.
LEMMA LoadRun ==
  ASSUME RunInv, LoadNext, UNCHANGED wb
  PROVE  RunInv'
  BY LoadBeginRun, LoadNotFoundRun, LoadFopenRun, LoadOpenRun, LoadBlockRun,
     LoadFgetsRun, LoadLineRun, LoadBuildRun DEF LoadNext

-----------------------------------------------------------------------------
(* irx_exec_dispatch_stk                                                   *)

LEMMA MayHoldWhileRunning ==
  ASSUME NEW l
  PROVE  /\ l.step \in {"dispatch", "source", "returned"} => MayHold(l) = Instblk
         /\ l.step \in {"init", "compile", "ran"} => MayHold(l) = Instblk \cup {"src"}
         /\ l.step = "bytecode" => MayHold(l) = Instblk \cup {"src", "bc"}
         /\ l.step \in WalkSteps \cup {"cleanup"} =>
              MayHold(l) = Instblk \cup {"src"} \cup WalkNames
<1>1. l.step \in {"dispatch", "source", "returned"} => MayHold(l) = Instblk
  BY DEF MayHold, WalkSteps
<1>2. l.step \in {"init", "compile", "ran"} => MayHold(l) = Instblk \cup {"src"}
  BY DEF MayHold, WalkSteps
<1>3. l.step = "bytecode" => MayHold(l) = Instblk \cup {"src", "bc"}
  BY DEF MayHold, WalkSteps
<1>4. l.step \in WalkSteps \cup {"cleanup"} =>
        MayHold(l) = Instblk \cup {"src"} \cup WalkNames
  BY DEF MayHold, WalkSteps
<1> QED
  BY <1>1, <1>2, <1>3, <1>4

\* The level has not claimed the work block, and does not do so now.
LEMMA OutsideStep ==
  ASSUME RunInv, levels # <<>>, NEW f, Update(f),
         Top.step \notin Claimed,
         Overlay(f, Top).step \in {"dispatch", "source", "returned"},
         Overlay(f, Top).exec = Top.exec,
         RanOnce(Overlay(f, Top)),
         Reports(Overlay(f, Top), wb'),
         MayHold(Top) \subseteq Instblk, UNCHANGED held,
         WbFields \subseteq DOMAIN wb',
         wb'.name = wb.name, wb'.stack = wb.stack, wb'.source = wb.source
  PROVE  RunInv'
<1> DEFINE l == Overlay(f, Top)
           b == levels[Depth - 1]
<1>1. Owns(Top, Depth, b, wb) /\ Fields \subseteq DOMAIN l
  BY TopOK, KeptFields
<1>2. /\ l.step \in Steps /\ l.step \notin Claimed
      /\ ~Retains(l) /\ ~Retains(Top) /\ l.step # "loaded"
      /\ l.step \notin RetainSteps \cup {"cleanup"}
  BY DEF Claimed, Retains, RetainSteps, WalkSteps, Steps
<1>3. Remembers(l, Depth, b)
  BY <1>2 DEF Remembers, Claimed
<1>4. Owns(l, Depth, b, wb')
  BY <1>1, <1>2 DEF Owns
<1>5. MayHold(Top) \subseteq MayHold(l)
  BY MayHoldWhileRunning
<1> HIDE DEF b
<1> QED
  BY <1>1, <1>2, <1>3, <1>4, <1>5, StorageSteps, TopStep DEF b

LEMMA DispatchChecksRun ==
  ASSUME RunInv, DispatchChecks
  PROVE  RunInv'
<1>1. /\ levels # <<>> /\ Top.step = "dispatch" /\ UNCHANGED held
      /\ wb' = Override(Top.call, wb)
  BY AtStep DEF DispatchChecks, Idle
<1>2. /\ LevelOK(Top, Depth, levels[Depth - 1], held) /\ Reports(Top, wb)
      /\ WbFields \subseteq DOMAIN wb
  BY <1>1, TopOK
<1>3. /\ WbFields \subseteq DOMAIN wb'
      /\ wb'.name = wb.name /\ wb'.stack = wb.stack /\ wb'.source = wb.source
  BY <1>1, <1>2 DEF Override, WbFields
<1>4. Top.step \notin Claimed /\ Top.step \notin Ended /\ MayHold(Top) = Instblk
  BY <1>1, MayHoldWhileRunning DEF Claimed, Ended, WalkSteps
<1>5. Top.rc = 0 /\ Top.told = 0 /\ Top.engines = <<>>
  BY <1>1, <1>2, <1>4 DEF Reports, LevelOK, RanOnce
<1>6. CASE Verdict(Top.call) = 0 /\ Update([step |-> "source"])
  <2> DEFINE f == [step |-> "source"]
             l == Overlay(f, Top)
  <2>1. DOMAIN f = {"step"} /\ f.step = "source"
    OBVIOUS
  <2> HIDE DEF f
  <2>2. /\ l.step = "source" /\ l.exec = Top.exec /\ l.call = Top.call
        /\ l.rc = Top.rc /\ l.told = Top.told /\ l.engines = Top.engines
    BY <1>1, <2>1, KeptFields DEF Overlay, Fields
  <2>3. RanOnce(l)
    BY <1>2, <1>5, <2>2 DEF LevelOK, RanOnce
  <2>4. Reports(l, wb')
    BY <1>5, <1>6, <2>2 DEF Reports, Claimed, WalkSteps
  <2> QED
    BY <1>1, <1>3, <1>4, <1>6, <2>2, <2>3, <2>4, OutsideStep DEF f
<1>7. CASE Verdict(Top.call) # 0 /\ Update(Returned(Verdict(Top.call)))
  <2> DEFINE f == Returned(Verdict(Top.call))
             l == Overlay(f, Top)
  <2>1. DOMAIN f = {"step", "result"} /\ f.step = "returned"
    BY DEF Returned
  <2> HIDE DEF f
  <2>2. /\ l.step = "returned" /\ l.exec = Top.exec /\ l.call = Top.call
        /\ l.engines = Top.engines
    BY <1>1, <2>1, KeptFields DEF Overlay, Fields
  <2>3. RanOnce(l)
    BY <1>2, <1>5, <2>2 DEF LevelOK, RanOnce
  <2>4. Reports(l, wb')
    BY <1>7, <2>2 DEF Reports, Claimed, WalkSteps, LoadSteps, Ended
  <2> QED
    BY <1>1, <1>3, <1>4, <1>7, <2>2, <2>3, <2>4, OutsideStep DEF f
<1> QED
  BY <1>6, <1>7 DEF DispatchChecks

LEMMA DispatchSourceRun ==
  ASSUME RunInv, DispatchSource
  PROVE  RunInv'
<1> DEFINE b == levels[Depth - 1]
<1>1. levels # <<>> /\ Top.step = "source"
  BY AtStep DEF DispatchSource
<1>2. /\ LevelOK(Top, Depth, b, held) /\ Owns(Top, Depth, b, wb) /\ Reports(Top, wb)
      /\ WbFields \subseteq DOMAIN wb
  BY <1>1, TopOK
<1>3. /\ Top.step \notin Claimed /\ Top.step \notin Ended /\ ~Retains(Top)
      /\ MayHold(Top) = Instblk
  BY <1>1, MayHoldWhileRunning DEF Claimed, Ended, WalkSteps, Retains, RetainSteps
<1>4. /\ Top.rc = 0 /\ Top.told = 0 /\ Top.engines = <<>> /\ Verdict(Top.call) = 0
  BY <1>1, <1>2, <1>3 DEF Reports, LevelOK, RanOnce
<1>5. CASE /\ Got({"src"}) /\ wb' = ClaimWorkBlock(wb)
           /\ Update([step |-> "init", oldname |-> wb.name, oldstack |-> wb.stack])
  <2> DEFINE f == [step |-> "init", oldname |-> wb.name, oldstack |-> wb.stack]
             l == Overlay(f, Top)
  <2>1. /\ DOMAIN f = {"step", "oldname", "oldstack"} /\ f.step = "init"
        /\ f.oldname = wb.name /\ f.oldstack = wb.stack
    OBVIOUS
  <2> HIDE DEF f
  <2>2. /\ l.step = "init" /\ l.exec = Top.exec /\ l.call = Top.call
        /\ l.rc = 0 /\ l.told = 0 /\ l.engines = <<>>
        /\ Fields \subseteq DOMAIN l
    BY <1>1, <1>4, <2>1, KeptFields DEF Overlay, Fields
  <2>3. /\ l.oldname = wb.name /\ l.oldstack = wb.stack
        /\ {"oldname", "oldstack"} \subseteq DOMAIN l
    BY <2>1 DEF Overlay
  <2>4. /\ l.step \in Steps /\ l.step \in Claimed /\ ~Retains(l)
        /\ l.step \notin RetainSteps \cup {"cleanup"}
        /\ MayHold(l) = Instblk \cup {"src"}
    BY <2>2, MayHoldWhileRunning DEF Claimed, Retains, RetainSteps, WalkSteps, Steps
  <2>5. Remembers(l, Depth, b)
    BY <1>2, <1>3, <2>2, <2>3, <2>4 DEF Remembers, Owns
  <2>6. RanOnce(l)
    BY <2>2, EmptySeq DEF RanOnce
  <2>7. /\ WbFields \subseteq DOMAIN wb'
        /\ wb'.name = Top.exec.name /\ wb'.stack = Depth /\ wb'.error = 0
        /\ wb'.source = wb.source
    BY <1>2, <1>5 DEF ClaimWorkBlock, WbFields
  <2>8. Owns(l, Depth, b, wb')
    BY <1>2, <1>3, <2>2, <2>4, <2>7 DEF Owns
  <2>9. Reports(l, wb')
    BY <2>2, <2>7 DEF Reports, LoadSteps
  <2>10. Swapped({"src"}, {})
    BY <1>5, StorageSteps
  <2> HIDE DEF b
  <2> QED
    BY <1>1, <1>3, <1>5, <2>2, <2>4, <2>5, <2>6, <2>7, <2>8, <2>9, <2>10, TopStep DEF f, b
<1>6. CASE /\ Short({}) /\ Noted(SYNTAX_STORAGE)
           /\ Update([step |-> "returned", result |-> 20, rc |-> 20])
  <2> DEFINE f == [step |-> "returned", result |-> 20, rc |-> 20]
             l == Overlay(f, Top)
  <2>1. /\ DOMAIN f = {"step", "result", "rc"} /\ f.step = "returned"
        /\ f.result = 20 /\ f.rc = 20
    OBVIOUS
  <2> HIDE DEF f
  <2>2. /\ l.step = "returned" /\ l.exec = Top.exec /\ l.told = 0 /\ l.engines = <<>>
        /\ l.result = 20 /\ l.rc = 20
    BY <1>1, <1>4, <2>1, KeptFields DEF Overlay, Fields
  <2>3. RanOnce(l)
    BY <2>2, EmptySeq DEF RanOnce
  <2>4. Reports(l, wb')
    BY <2>2 DEF Reports, Claimed, WalkSteps, LoadSteps, Ended
  <2>5. /\ WbFields \subseteq DOMAIN wb'
        /\ wb'.name = wb.name /\ wb'.stack = wb.stack /\ wb'.source = wb.source
    BY <1>2, <1>6 DEF Noted, WbFields
  <2>6. UNCHANGED held
    BY <1>6 DEF Short, Mine
  <2> QED
    BY <1>1, <1>3, <1>6, <2>2, <2>3, <2>4, <2>5, <2>6, OutsideStep DEF f
<1> QED
  BY <1>5, <1>6 DEF DispatchSource

-----------------------------------------------------------------------------
(* irx_exec_run                                                            *)

\* The work block when the source is retained and cond_base taken.
Begun == [wb EXCEPT !.source = Depth, !.fresh = @ \cap 1 .. Depth - 1,
                    !.errors = {x \in @ : x[1] < Depth}]

LEMMA RunInitRun ==
  ASSUME RunInv, RunInit
  PROVE  RunInv'
<1> DEFINE b == levels[Depth - 1]
<1>1. levels # <<>> /\ Top.step = "init" /\ UNCHANGED held
  BY AtStep DEF RunInit, Idle, Short, Mine
<1>2. /\ LevelOK(Top, Depth, b, held) /\ Owns(Top, Depth, b, wb) /\ Reports(Top, wb)
      /\ WbFields \subseteq DOMAIN wb
  BY <1>1, TopOK
<1>3. /\ Top.step \in Claimed /\ Top.step \notin Ended \cup ExecutingSteps /\ ~Retains(Top)
      /\ MayHold(Top) = Instblk \cup {"src"}
  BY <1>1, MayHoldWhileRunning
  DEF Claimed, Ended, ExecutingSteps, WalkSteps, Retains, RetainSteps
<1>4. /\ Top.rc = 0 /\ Top.told = 0 /\ Top.engines = <<>> /\ wb.error = 0
      /\ {"oldname", "oldstack"} \subseteq DOMAIN Top
  BY <1>2, <1>3 DEF Reports, LevelOK, RanOnce, Remembers
<1>5. ASSUME NEW step \in {"compile", "tokenize"},
             Update([step |-> step, exit |-> 0, retained |-> TRUE,
                     oldsource |-> wb.source]),
             wb' = Begun
      PROVE  RunInv'
  <2> DEFINE f == [step |-> step, exit |-> 0, retained |-> TRUE, oldsource |-> wb.source]
             l == Overlay(f, Top)
  <2>1. /\ DOMAIN f = {"step", "exit", "retained", "oldsource"}
        /\ f.step = step /\ f.retained = TRUE /\ f.oldsource = wb.source
    OBVIOUS
  <2> HIDE DEF f
  <2>2. /\ l.step = step /\ l.exec = Top.exec /\ l.rc = 0 /\ l.told = 0
        /\ l.engines = <<>> /\ Fields \subseteq DOMAIN l
    BY <1>1, <1>4, <2>1, KeptFields DEF Overlay, Fields
  <2>3. /\ l.oldname = Top.oldname /\ l.oldstack = Top.oldstack
        /\ l.oldsource = wb.source /\ l.retained
        /\ {"oldname", "oldstack", "oldsource", "retained", "exit"} \subseteq DOMAIN l
    BY <1>4, <2>1 DEF Overlay
  <2>4. /\ l.step \in Steps /\ l.step \in Claimed \ (ExecutingSteps \cup Ended)
        /\ l.step \in RetainSteps /\ Retains(l)
    BY <2>2 DEF Claimed, ExecutingSteps, Ended, Retains, RetainSteps, WalkSteps, Steps
  <2>5. Instblk \cup {"src"} \subseteq MayHold(l)
    BY <2>2, MayHoldWhileRunning DEF WalkSteps
  <2>6. Remembers(l, Depth, b)
    BY <1>2, <1>3, <2>2, <2>3, <2>4 DEF LevelOK, Remembers, Owns
  <2>7. RanOnce(l)
    BY <2>2, EmptySeq DEF RanOnce
  <2>8. /\ WbFields \subseteq DOMAIN wb'
        /\ wb'.name = wb.name /\ wb'.stack = wb.stack /\ wb'.error = 0
        /\ wb'.source = Depth
    BY <1>2, <1>4, <1>5 DEF WbFields, Begun
  <2>9. Owns(l, Depth, b, wb')
    BY <1>2, <1>3, <2>2, <2>4, <2>8 DEF Owns
  <2>10. Reports(l, wb')
    BY <2>2, <2>4, <2>8 DEF Reports, LoadSteps, Ended
  <2> HIDE DEF b
  <2> QED
    BY <1>1, <1>3, <1>5, <2>2, <2>4, <2>5, <2>6, <2>7, <2>8, <2>9, <2>10,
       StorageSteps, TopStep DEF f, b
<1>6. ASSUME Update([step |-> "cleanup", rc |-> 20, exit |-> 0, retained |-> FALSE]),
             UNCHANGED wb
      PROVE  RunInv'
  <2> DEFINE f == [step |-> "cleanup", rc |-> 20, exit |-> 0, retained |-> FALSE]
             l == Overlay(f, Top)
  <2>1. /\ DOMAIN f = {"step", "rc", "exit", "retained"}
        /\ f.step = "cleanup" /\ f.rc = 20 /\ f.retained = FALSE
    OBVIOUS
  <2> HIDE DEF f
  <2>2. /\ l.step = "cleanup" /\ l.exec = Top.exec /\ l.rc = 20 /\ l.told = 0
        /\ l.engines = <<>> /\ Fields \subseteq DOMAIN l
    BY <1>1, <1>4, <2>1, KeptFields DEF Overlay, Fields
  <2>3. /\ l.oldname = Top.oldname /\ l.oldstack = Top.oldstack /\ ~l.retained
        /\ {"oldname", "oldstack", "retained", "exit"} \subseteq DOMAIN l
    BY <1>4, <2>1 DEF Overlay
  <2>4. /\ l.step \in Steps /\ l.step \in Claimed /\ ~Retains(l)
        /\ l.step \notin RetainSteps
        /\ Instblk \cup {"src"} \subseteq MayHold(l)
    BY <2>2, <2>3, MayHoldWhileRunning DEF Claimed, Retains, RetainSteps, WalkSteps, Steps
  <2>5. Remembers(l, Depth, b)
    BY <1>2, <1>3, <2>2, <2>3, <2>4 DEF LevelOK, Remembers
  <2>6. RanOnce(l)
    BY <2>2, EmptySeq DEF RanOnce
  <2>7. Owns(l, Depth, b, wb')
    BY <1>2, <1>3, <1>6, <2>2, <2>4 DEF Owns
  <2>8. Reports(l, wb')
    BY <1>4, <1>6, <2>2 DEF Reports, LoadSteps, Ended, ExecutingSteps
  <2>9. WbFields \subseteq DOMAIN wb'
    BY <1>2, <1>6
  <2> HIDE DEF b
  <2> QED
    BY <1>1, <1>3, <1>6, <2>2, <2>4, <2>5, <2>6, <2>7, <2>8, <2>9,
       StorageSteps, TopStep DEF f, b
<1>7. RunInit => \/ \E step \in {"compile", "tokenize"} :
                      /\ Update([step |-> step, exit |-> 0, retained |-> TRUE,
                                 oldsource |-> wb.source])
                      /\ wb' = Begun
                 \/ /\ Update([step |-> "cleanup", rc |-> 20, exit |-> 0, retained |-> FALSE])
                    /\ UNCHANGED wb
  BY DEF RunInit, Begun
<1> QED
  BY <1>5, <1>6, <1>7

\* A step of a run while it retains its source.
LEMMA RetainingStep ==
  ASSUME RunInv, levels # <<>>, NEW f, Update(f), NEW got, NEW freed,
         Swapped(got, freed), "src" \notin freed,
         Top.step \in RetainSteps,
         DOMAIN f \subseteq {"step", "rc", "exit", "engines", "told"},
         WbFields \subseteq DOMAIN wb',
         wb'.name = wb.name, wb'.stack = wb.stack, wb'.source = wb.source,
         LET l == Overlay(f, Top) IN
         /\ l.step \in RetainSteps \cup {"cleanup"}
         /\ RanOnce(l)
         /\ Reports(l, wb')
         /\ (MayHold(Top) \ freed) \cup got \subseteq MayHold(l)
  PROVE  RunInv'
<1> DEFINE l == Overlay(f, Top)
           b == levels[Depth - 1]
<1>1. /\ LevelOK(Top, Depth, b, held) /\ Owns(Top, Depth, b, wb)
      /\ WbFields \subseteq DOMAIN wb
  BY TopOK
<1>2. Top.step \in Claimed /\ Retains(Top) /\ l.step \in Claimed /\ l.step \in Steps
  BY DEF Claimed, Retains, RetainSteps, WalkSteps, Steps
<1>3. /\ {"oldname", "oldstack", "oldsource", "retained", "exit"} \subseteq DOMAIN Top
      /\ Top.retained
  BY <1>1, <1>2 DEF LevelOK, Remembers
<1>4. /\ l.oldname = Top.oldname /\ l.oldstack = Top.oldstack
      /\ l.oldsource = Top.oldsource /\ l.retained
      /\ {"oldname", "oldstack", "oldsource", "retained", "exit"} \subseteq DOMAIN l
  BY <1>3 DEF Overlay
<1>5. l.exec = Top.exec /\ Fields \subseteq DOMAIN l
  BY KeptFields DEF Fields
<1>6. Retains(l) /\ l.step # "loaded"
  BY <1>4 DEF Retains, RetainSteps, WalkSteps
<1>7. Remembers(l, Depth, b)
  BY <1>1, <1>2, <1>4, <1>6 DEF LevelOK, Remembers
<1>8. Owns(l, Depth, b, wb')
  BY <1>1, <1>2, <1>5, <1>6 DEF Owns
<1> HIDE DEF b
<1> QED
  BY <1>1, <1>2, <1>5, <1>7, <1>8, TopStep DEF b

\* A run before its clauses are executed: no error, no clause.
LEMMA BeforeClauses ==
  ASSUME RunInv, levels # <<>>, Top.step \in RetainSteps \ ExecutingSteps
  PROVE  /\ Top.rc = 0 /\ Top.told = 0 /\ wb.error = 0 /\ Top.engines = <<>>
         /\ WbFields \subseteq DOMAIN wb
         /\ MayHold(Top) \subseteq Instblk \cup {"src"} \cup WalkNames
<1>1. Top.step \in Claimed \ (ExecutingSteps \cup Ended)
  BY DEF Claimed, RetainSteps, WalkSteps, Ended
<1>2. /\ LevelOK(Top, Depth, levels[Depth - 1], held) /\ Reports(Top, wb)
      /\ WbFields \subseteq DOMAIN wb
  BY TopOK
<1>3. Top.step \in WalkSteps \/ Top.step = "compile"
  BY DEF RetainSteps, ExecutingSteps
<1> QED
  BY <1>1, <1>2, <1>3, MayHoldWhileRunning DEF LevelOK, Reports, RanOnce

\* It goes on with the next step.
LEMMA GoesOn ==
  ASSUME RunInv, levels # <<>>, Top.step \in RetainSteps \ ExecutingSteps,
         NEW step \in RetainSteps, GoTo(step), NEW got, Swapped(got, {}),
         WbFields \subseteq DOMAIN wb', wb'.error = wb.error,
         wb'.name = wb.name, wb'.stack = wb.stack, wb'.source = wb.source,
         MayHold(Top) \cup got \subseteq MayHold(Overlay([step |-> step], Top))
  PROVE  RunInv'
<1> DEFINE f == [step |-> step]
           l == Overlay(f, Top)
<1>1. DOMAIN f = {"step"} /\ f.step = step /\ Update(f)
  BY DEF GoTo
<1>2. MayHold(Top) \cup got \subseteq MayHold(Overlay(f, Top))
  OBVIOUS
<1> HIDE DEF f
<1>3. /\ l.step = step /\ l.rc = 0 /\ l.told = 0 /\ l.engines = <<>>
  BY <1>1, KeptFields, BeforeClauses DEF Overlay, Fields
<1>4. RanOnce(l)
  BY <1>3, EmptySeq DEF RanOnce
<1>5. Reports(l, wb')
  BY <1>3, BeforeClauses DEF Reports, RetainSteps, WalkSteps, LoadSteps
<1> QED
  BY <1>1, <1>2, <1>3, <1>4, <1>5, RetainingStep

\* It fails, with message n and what that leaves in the work block, or, if n is
\* 0, without.
LEMMA FailsBefore ==
  ASSUME RunInv, levels # <<>>, Top.step \in RetainSteps \ ExecutingSteps, NEW n,
         UNCHANGED held,
         \/ Noted(n) /\ Update(Failed(n))
         \/ UNCHANGED wb /\ n = 0 /\ Update(Silent)
  PROVE  RunInv'
<1>1. PICK f :
         /\ Update(f)
         /\ \/ f = Failed(n) /\ Noted(n)
            \/ f = Silent /\ UNCHANGED wb /\ n = 0
  OBVIOUS
<1> DEFINE l == Overlay(f, Top)
<1>2. /\ DOMAIN f \subseteq {"step", "rc", "told"} /\ {"step", "rc"} \subseteq DOMAIN f
      /\ f.step = "cleanup" /\ f.rc = 20
      /\ \/ "told" \in DOMAIN f /\ f.told = n
         \/ "told" \notin DOMAIN f /\ n = 0
  BY <1>1 DEF Failed, Silent
<1>3. l.step = "cleanup" /\ l.rc = 20 /\ l.told = n /\ l.engines = <<>>
  <2>1. Top.told = 0 /\ Top.engines = <<>>
    BY BeforeClauses
  <2>2. l.engines = Top.engines /\ ("told" \notin DOMAIN f => l.told = Top.told)
    BY <1>2, KeptFields DEF Fields
  <2>3. /\ l.step = "cleanup" /\ l.rc = 20
        /\ "told" \in DOMAIN f => l.told = f.told
    BY <1>2 DEF Overlay
  <2> QED
    BY <1>2, <2>1, <2>2, <2>3
<1>4. /\ WbFields \subseteq DOMAIN wb'
      /\ wb'.name = wb.name /\ wb'.stack = wb.stack /\ wb'.source = wb.source
      /\ wb'.error = n
  BY <1>1, BeforeClauses DEF Noted, WbFields
<1>5. RanOnce(l)
  BY <1>3, EmptySeq DEF RanOnce
<1>6. Reports(l, wb')
  BY <1>3, <1>4 DEF Reports, LoadSteps, Ended
<1>7. MayHold(Top) \subseteq MayHold(l)
  BY <1>3, BeforeClauses, MayHoldWhileRunning
<1> QED
  BY <1>1, <1>2, <1>3, <1>4, <1>5, <1>6, <1>7, StorageSteps, RetainingStep

LEMMA NothingShort ==
  ASSUME Short({}) \/ Idle
  PROVE  UNCHANGED held
  BY DEF Short, Idle, Mine

LEMMA CompileRun ==
  ASSUME RunInv, Compile
  PROVE  RunInv'
<1>1. levels # <<>> /\ Top.step = "compile"
  BY AtStep DEF Compile
<1>2. /\ Top.step \in RetainSteps \ ExecutingSteps
      /\ MayHold(Top) = Instblk \cup {"src"} /\ WbFields \subseteq DOMAIN wb
  BY <1>1, MayHoldWhileRunning, TopOK DEF RetainSteps, ExecutingSteps
<1>3. ASSUME NEW step \in {"bytecode", "tokenize"}
      PROVE  /\ step \in RetainSteps
             /\ MayHold(Overlay([step |-> step], Top)) =
                  IF step = "bytecode" THEN Instblk \cup {"src", "bc"}
                  ELSE Instblk \cup {"src"} \cup WalkNames
  BY MayHoldWhileRunning DEF Overlay, RetainSteps, WalkSteps
<1>4. ASSUME Got({"bc"}), GoTo("bytecode"), UNCHANGED wb PROVE RunInv'
  BY <1>1, <1>2, <1>3, <1>4, StorageSteps, GoesOn
<1>5. ASSUME Idle, GoTo("tokenize"),
             wb' = wb \/ wb' = [wb EXCEPT !.fallbacks = @ + 1]
      PROVE RunInv'
  <2>1. /\ WbFields \subseteq DOMAIN wb' /\ wb'.error = wb.error
        /\ wb'.name = wb.name /\ wb'.stack = wb.stack /\ wb'.source = wb.source
    BY <1>2, <1>5 DEF WbFields
  <2> QED
    BY <1>1, <1>2, <1>3, <1>5, <2>1, StorageSteps, NothingShort, GoesOn
<1>6. ASSUME NEW n, Idle \/ Short({}), Noted(n), Update(Failed(n)) PROVE RunInv'
  BY <1>1, <1>2, <1>6, NothingShort, FailsBefore
<1> QED
  BY <1>4, <1>5, <1>6 DEF Compile

LEMMA TokenizeRun ==
  ASSUME RunInv, Tokenize
  PROVE  RunInv'
<1>1. levels # <<>> /\ Top.step = "tokenize"
  BY AtStep DEF Tokenize
<1>2. /\ Top.step \in RetainSteps \ ExecutingSteps /\ "vpool" \in RetainSteps
      /\ MayHold(Top) = Instblk \cup {"src"} \cup WalkNames
      /\ MayHold(Overlay([step |-> "vpool"], Top)) = Instblk \cup {"src"} \cup WalkNames
      /\ "tokens" \in WalkNames /\ WbFields \subseteq DOMAIN wb
  BY <1>1, MayHoldWhileRunning, TopOK
  DEF Overlay, RetainSteps, WalkSteps, ExecutingSteps, WalkNames
<1>3. ASSUME Got({"tokens"}), GoTo("vpool"), UNCHANGED wb PROVE RunInv'
  BY <1>1, <1>2, <1>3, StorageSteps, GoesOn
<1>4. ASSUME NEW n, Idle \/ Short({}), Noted(n), Update(Failed(n)) PROVE RunInv'
  BY <1>1, <1>2, <1>4, NothingShort, FailsBefore
<1> QED
  BY <1>3, <1>4 DEF Tokenize

LEMMA WalkStorageRun ==
  ASSUME RunInv, WalkStorage
  PROVE  RunInv'
<1>1. /\ levels # <<>> /\ Top.step \in {"vpool", "parser", "args", "labels"}
      /\ UNCHANGED wb
  BY AtStep DEF WalkStorage
<1>2. /\ Top.step \in RetainSteps \ ExecutingSteps /\ WbFields \subseteq DOMAIN wb
      /\ MayHold(Top) = Instblk \cup {"src"} \cup WalkNames
  BY <1>1, MayHoldWhileRunning, TopOK DEF RetainSteps, WalkSteps, ExecutingSteps
<1>3. ASSUME NEW got \in SUBSET WalkNames, NEW step \in WalkSteps,
             Swapped(got, {}), GoTo(step)
      PROVE  RunInv'
  <2>1. /\ step \in RetainSteps
        /\ MayHold(Overlay([step |-> step], Top)) = Instblk \cup {"src"} \cup WalkNames
    BY MayHoldWhileRunning DEF Overlay, RetainSteps
  <2> QED
    BY <1>1, <1>2, <1>3, <2>1, GoesOn
<1>4. CASE \E names \in SUBSET WalkNames, step \in WalkSteps :
             (Got(names) \/ Idle) /\ GoTo(step)
  BY <1>3, <1>4, StorageSteps, NothingShort
<1>5. CASE Short({}) /\ Update(Silent)
  BY <1>1, <1>2, <1>5, NothingShort, FailsBefore
<1>6. WalkStorage =>
         \/ \E names \in SUBSET WalkNames, step \in WalkSteps :
              (Got(names) \/ Idle) /\ GoTo(step)
         \/ Short({}) /\ Update(Silent)
  BY DEF WalkStorage, WalkNames, WalkSteps
<1> QED
  BY <1>4, <1>5, <1>6

\* One engine has executed the clauses.
LEMMA OneEngine ==
  ASSUME NEW l, NEW engine, l.step \in Ended, l.engines = Append(<<>>, engine)
  PROVE  RanOnce(l)
<1>1. <<>> \in Seq({engine}) /\ Len(<<>>) = 0
  OBVIOUS
<1>2. Len(Append(<<>>, engine)) = 1
  BY <1>1
<1>3. Len(l.engines) = 1
  BY <1>2
<1> QED
  BY <1>3 DEF RanOnce

\* The clauses are executed, to an EXIT or to error n.
LEMMA ExecutesClauses ==
  ASSUME RunInv, levels # <<>>, Top.step \in ExecutingSteps, NEW n, NEW told, NEW engine,
         Update(Result(engine, n, told)),
         NEW freed, Swapped({}, freed), "src" \notin freed,
         Top.step = "bytecode" => "bc" \in freed,
         WbFields \subseteq DOMAIN wb', n # 0 => wb'.error = told,
         wb'.name = wb.name, wb'.stack = wb.stack, wb'.source = wb.source
  PROVE  RunInv'
<1> DEFINE f == Result(engine, n, told)
           l == Overlay(f, Top)
<1>1. Top.step \in RetainSteps /\ Top.step \notin Ended
  BY DEF ExecutingSteps, RetainSteps, WalkSteps, Ended
<1>2. Top.engines = <<>>
  BY <1>1, TopOK DEF LevelOK, RanOnce
<1>3. /\ DOMAIN f = {"step", "rc", "exit", "engines", "told"}
      /\ f.step = "cleanup" /\ f.rc = (IF n = 0 THEN 0 ELSE 20) /\ f.told = told
      /\ f.exit = (IF n = 0 THEN EXIT ELSE 0) /\ f.engines = Append(<<>>, engine)
  BY <1>2 DEF Clauses, Result, AfterBytecode
<1> HIDE DEF f
<1>4. /\ l.step = "cleanup" /\ l.rc = (IF n = 0 THEN 0 ELSE 20) /\ l.told = told
      /\ l.exit = (IF n = 0 THEN EXIT ELSE 0) /\ l.engines = Append(<<>>, engine)
  BY <1>3 DEF Overlay
<1>5. RanOnce(l)
  BY <1>4, OneEngine DEF Ended
<1>6. Reports(l, wb')
  BY <1>4 DEF Reports, LoadSteps, Ended, ExecutingSteps
<1>7. MayHold(Top) \ freed \subseteq MayHold(l)
  BY <1>4, MayHoldWhileRunning DEF ExecutingSteps, WalkSteps
<1>8. Update(f)
  BY DEF f
<1> QED
  BY <1>1, <1>3, <1>4, <1>5, <1>6, <1>7, <1>8, RetainingStep

\* A work block that differs from v in what a run may do to it.
Likewise(w, v) ==
    /\ WbFields \subseteq DOMAIN w
    /\ w.name = v.name /\ w.stack = v.stack /\ w.source = v.source

LEMMA RaisedLikewise ==
  ASSUME NEW v, NEW w, Likewise(w, v), NEW c
  PROVE  Likewise(Raised(c, w), v)
  BY DEF Likewise, Raised, WbFields

\* An engine ends with an EXIT or with an error told.
LEMMA ExecutedEnds ==
  ASSUME NEW engine, NEW traps, NEW w, Likewise(w, wb), Executed(engine, traps, w)
  PROVE  \E n, told : /\ Update(Result(engine, n, told))
                      /\ Likewise(wb', wb) /\ (n # 0 => wb'.error = told)
<1>1. CASE Update(Result(engine, 0, 0)) /\ wb' = w
  BY <1>1
<1>2. ASSUME NEW n, NEW after, Likewise(after, wb), EngineFails(engine, n, after)
      PROVE  \E told : /\ Update(Result(engine, n, told))
                       /\ Likewise(wb', wb) /\ wb'.error = told
  BY <1>2 DEF EngineFails, Likewise, WbFields
<1>3. \A c : Likewise(Raised(c, w), wb)
  BY RaisedLikewise
<1>4. CASE \E after \in {w, Raised(Top.exec.ends, w)} : EngineFails(engine, Top.exec.ends, after)
  BY <1>2, <1>3, <1>4
<1>5. CASE \E after \in {w} \cup {Raised(c, w) : c \in traps \cup {SYNTAX_STORAGE}} :
             EngineFails(engine, SYNTAX_STORAGE, after)
  BY <1>2, <1>3, <1>5
<1> QED
  BY <1>1, <1>4, <1>5 DEF Executed

LEMMA ExecuteBytecodeRun ==
  ASSUME RunInv, ExecuteBytecode
  PROVE  RunInv'
<1>1. levels # <<>> /\ Top.step = "bytecode" /\ Top.step \in ExecutingSteps
  BY AtStep DEF ExecuteBytecode, ExecutingSteps
<1>2. Swapped({}, {"bc"}) /\ "src" \notin {"bc"}
  BY DEF Swapped, Mine, ExecuteBytecode
<1>3. Likewise([wb EXCEPT !.execs = @ + 1], wb)
  BY <1>1, TopOK DEF Likewise, WbFields
<1>4. \E n, told : /\ Update(Result("vm", n, told))
                   /\ Likewise(wb', wb) /\ (n # 0 => wb'.error = told)
  BY <1>3, ExecutedEnds DEF ExecuteBytecode
<1> QED
  BY <1>1, <1>2, <1>4, ExecutesClauses DEF Likewise

LEMMA ExecuteWalkRun ==
  ASSUME RunInv, ExecuteWalk
  PROVE  RunInv'
<1>1. levels # <<>> /\ Top.step = "walk" /\ Top.step \in ExecutingSteps
  BY AtStep DEF ExecuteWalk, ExecutingSteps
<1>2. Swapped({}, {}) /\ "src" \notin {} /\ Top.step # "bytecode"
  BY <1>1, StorageSteps DEF ExecuteWalk
<1>3. Likewise(wb, wb)
  BY <1>1, TopOK DEF Likewise
<1>4. \E n, told : /\ Update(Result("walk", n, told))
                   /\ Likewise(wb', wb) /\ (n # 0 => wb'.error = told)
  BY <1>3, ExecutedEnds DEF ExecuteWalk
<1> QED
  BY <1>1, <1>2, <1>4, ExecutesClauses DEF Likewise

\* A trap changes the condition record only.
LEMMA TrapRun ==
  ASSUME RunInv, Trap
  PROVE  RunInv'
<1>1. /\ levels # <<>> /\ Top.step \in ExecutingSteps /\ UNCHANGED <<levels, held>>
      /\ Top' = Top /\ Depth' = Depth
  BY AtStep DEF Trap, Idle, ExecutingSteps, Top, Depth
<1>2. /\ WbFields \subseteq DOMAIN wb /\ Owns(Top, Depth, levels[Depth - 1], wb)
  BY <1>1, TopOK
<1>3. Likewise(wb', wb)
  BY <1>2 DEF Trap, Raised, Likewise, WbFields
<1>4. Owns(Top, Depth, levels[Depth - 1], wb')
  BY <1>2, <1>3 DEF Owns, Likewise
<1>5. Reports(Top, wb')
  BY <1>1 DEF Reports, ExecutingSteps, LoadSteps
<1> QED
  BY <1>1, <1>3, <1>4, <1>5 DEF RunInv, Likewise

\* cleanup: of irx_exec_run gives the source of the level below back.
LEMMA CleanupRun ==
  ASSUME RunInv, Cleanup
  PROVE  RunInv'
<1> DEFINE f == [step |-> "ran"]
           l == Overlay(f, Top)
           b == levels[Depth - 1]
<1>1. /\ levels # <<>> /\ Top.step = "cleanup" /\ Update(f)
      /\ Freed(WalkNames) /\ wb' = RestoreSource(wb, Top)
  BY AtStep DEF Cleanup, CleanupNames, GoTo
<1>2. DOMAIN f = {"step"} /\ f.step = "ran"
  OBVIOUS
<1>3. /\ LevelOK(Top, Depth, b, held) /\ Owns(Top, Depth, b, wb) /\ Reports(Top, wb)
      /\ WbFields \subseteq DOMAIN wb
  BY <1>1, TopOK
<1>4. /\ Top.step \in Claimed /\ (Retains(Top) <=> Top.retained)
      /\ MayHold(Top) = Instblk \cup {"src"} \cup WalkNames
  BY <1>1, MayHoldWhileRunning DEF Claimed, Retains, RetainSteps, WalkSteps
<1>5. {"oldname", "oldstack", "retained", "exit"} \subseteq DOMAIN Top
  BY <1>1, <1>3, <1>4 DEF LevelOK, Remembers
<1> HIDE DEF f
<1>6. /\ l.step = "ran" /\ l.exec = Top.exec /\ l.rc = Top.rc /\ l.told = Top.told
      /\ l.engines = Top.engines /\ Fields \subseteq DOMAIN l
  BY <1>1, <1>2, KeptFields DEF Overlay, Fields
<1>7. /\ l.oldname = Top.oldname /\ l.oldstack = Top.oldstack /\ l.exit = Top.exit
      /\ {"oldname", "oldstack", "exit"} \subseteq DOMAIN l
  BY <1>2, <1>5 DEF Overlay
<1>8. /\ l.step \in Steps /\ l.step \in Claimed /\ ~Retains(l) /\ l.step \in Ended
      /\ l.step \notin RetainSteps \cup {"cleanup"} /\ "src" \notin WalkNames
      /\ MayHold(l) = Instblk \cup {"src"}
  BY <1>6, MayHoldWhileRunning
  DEF Claimed, Retains, RetainSteps, WalkSteps, Steps, Ended, WalkNames
<1>9. Remembers(l, Depth, b)
  BY <1>3, <1>4, <1>6, <1>7, <1>8 DEF LevelOK, Remembers
<1>10. RanOnce(l)
  BY <1>3, <1>6, <1>8 DEF LevelOK, RanOnce
<1>11. /\ WbFields \subseteq DOMAIN wb'
       /\ wb'.name = wb.name /\ wb'.stack = wb.stack /\ wb'.error = wb.error
       /\ wb'.source = IF Top.retained THEN Top.oldsource ELSE wb.source
  BY <1>1, <1>3 DEF RestoreSource, WbFields
<1>12. Depth > 1 => wb'.source = Depth - 1
  <2>1. Retains(Top) => (Depth > 1 => Top.oldsource = Depth - 1)
    BY <1>3 DEF LevelOK, Remembers
  <2>2. ~Retains(Top) => (Depth > 1 => wb.source = Depth - 1)
    BY <1>3 DEF Owns
  <2> QED
    BY <1>4, <1>11, <2>1, <2>2
<1>13. Owns(l, Depth, b, wb')
  BY <1>3, <1>4, <1>6, <1>8, <1>11, <1>12 DEF Owns
<1>14. Reports(l, wb')
  BY <1>1, <1>3, <1>6, <1>7, <1>8, <1>11 DEF Reports, LoadSteps
<1> HIDE DEF b
<1> QED
  BY <1>1, <1>4, <1>6, <1>8, <1>9, <1>10, <1>11, <1>13, <1>14, StorageSteps, TopStep DEF b

\* The end of irx_exec_dispatch_stk gives its name and stack end back.
LEMMA DispatchReturnRun ==
  ASSUME RunInv, DispatchReturn
  PROVE  RunInv'
<1> DEFINE f == Returned(ReturnCode(Top.rc, Top.exit, wb.error))
           l == Overlay(f, Top)
           b == levels[Depth - 1]
<1>1. /\ levels # <<>> /\ Top.step = "ran" /\ Update(f)
      /\ Freed({"src"}) /\ wb' = Restore(wb, Top)
  BY AtStep DEF DispatchReturn
<1>2. /\ DOMAIN f = {"step", "result"} /\ f.step = "returned"
      /\ f.result = ReturnCode(Top.rc, Top.exit, wb.error)
  BY DEF Returned
<1>3. /\ LevelOK(Top, Depth, b, held) /\ Owns(Top, Depth, b, wb) /\ Reports(Top, wb)
      /\ WbFields \subseteq DOMAIN wb
  BY <1>1, TopOK
<1>4. /\ Top.step \in Claimed /\ ~Retains(Top) /\ Top.step \in Ended
      /\ MayHold(Top) = Instblk \cup {"src"}
  BY <1>1, MayHoldWhileRunning DEF Claimed, Retains, RetainSteps, WalkSteps, Ended
<1> HIDE DEF f
<1>5. /\ l.step = "returned" /\ l.exec = Top.exec /\ l.rc = Top.rc /\ l.told = Top.told
      /\ l.result = ReturnCode(Top.rc, Top.exit, wb.error)
      /\ l.engines = Top.engines /\ Fields \subseteq DOMAIN l
  BY <1>1, <1>2, KeptFields DEF Overlay, Fields
<1>6. /\ l.step \in Steps /\ l.step \notin Claimed /\ ~Retains(l) /\ l.step \in Ended
      /\ l.step \notin RetainSteps \cup {"cleanup"} /\ "src" \notin Instblk
      /\ MayHold(l) = Instblk
  BY <1>5, MayHoldWhileRunning
  DEF Claimed, Retains, RetainSteps, WalkSteps, Steps, Ended, Instblk
<1>7. Remembers(l, Depth, b)
  BY <1>5, <1>6 DEF Remembers
<1>8. RanOnce(l)
  BY <1>3, <1>5, <1>6 DEF LevelOK, RanOnce
<1>9. /\ WbFields \subseteq DOMAIN wb' /\ wb'.source = wb.source
      /\ wb'.name = Top.oldname /\ wb'.stack = Top.oldstack
  BY <1>1, <1>3 DEF Restore, WbFields
<1>10. Owns(l, Depth, b, wb')
  BY <1>3, <1>4, <1>6, <1>9 DEF Owns, LevelOK, Remembers
<1>11. Reports(l, wb')
  <2>1. \/ Top.rc = 0 /\ Top.exit = EXIT
        \/ Top.rc = 20 /\ wb.error = Top.told
    BY <1>1, <1>3 DEF Reports
  <2>2. l.result = CASE l.rc = 0 -> EXIT
                     [] l.rc # 0 /\ l.told # 0 -> SYNTAX_BASE + l.told
                     [] OTHER -> 20
    BY <1>5, <2>1 DEF ReturnCode
  <2> QED
    BY <1>5, <1>6, <2>2 DEF Reports, LoadSteps
<1> HIDE DEF b
<1> QED
  BY <1>1, <1>4, <1>5, <1>6, <1>7, <1>8, <1>9, <1>10, <1>11, StorageSteps, TopStep DEF b

-----------------------------------------------------------------------------
(* Levels that begin and end.                                              *)

\* A level about to load an exec.
LEMMA NewLevel ==
  ASSUME NEW e, NEW r, NEW c, NEW d, NEW b, NEW h, NEW w, \A x \in h : x[2] # d,
         d > 1 => w.name = b.exec.name /\ w.stack = d - 1 /\ w.source = d - 1
  PROVE  LET l == Level("load", e, r, c) IN
         LevelOK(l, d, b, h) /\ Owns(l, d, b, w) /\ Reports(l, w)
<1> DEFINE l == Level("load", e, r, c)
<1>1. /\ l.step = "load" /\ l.exec = e /\ l.rc = 0 /\ l.told = 0 /\ l.engines = <<>>
      /\ Fields \subseteq DOMAIN l
  BY DEF Level, Fields
<1> HIDE DEF l
<1>2. /\ l.step \in Steps /\ l.step \notin Claimed /\ ~Retains(l)
      /\ l.step \notin RetainSteps \cup {"cleanup"} /\ l.step \notin Ended
  BY <1>1 DEF Claimed, Retains, RetainSteps, WalkSteps, Steps, LoadSteps, Ended
<1>3. Remembers(l, d, b) /\ Holds(l, d, h)
  BY <1>1, <1>2 DEF Remembers, Holds
<1>4. RanOnce(l)
  BY <1>1, EmptySeq DEF RanOnce
<1>5. Owns(l, d, b, w)
  BY <1>2 DEF Owns
<1>6. Reports(l, w)
  BY <1>1, <1>2 DEF Reports
<1> QED
  BY <1>1, <1>2, <1>3, <1>4, <1>5, <1>6 DEF LevelOK, l

LEMMA CallNestedRun ==
  ASSUME RunInv, CallNested
  PROVE  RunInv'
<1>1. /\ levels # <<>> /\ Top.step \in ExecutingSteps /\ UNCHANGED <<held, wb>>
  BY AtStep DEF CallNested, Executing, ExecutingSteps
<1>2. PICK e, c : levels' = Append(levels, Level("load", e, "bpam", c))
  BY DEF CallNested
<1> DEFINE l == Level("load", e, "bpam", c)
<1>3. PICK S : levels \in Seq(S)
  BY DepthNat
<1>4. Depth \in Nat /\ Depth > 0
  BY <1>1, DepthNat
<1>5. levels' = Append(levels, l)
  BY <1>2
<1> HIDE DEF l
<1>6. /\ levels' \in Seq(S \cup {l}) /\ Depth' = Depth + 1 /\ levels' # <<>>
      /\ levels'[Depth + 1] = l
      /\ \A d \in 1 .. Depth : levels'[d] = levels[d]
  BY <1>3, <1>4, <1>5 DEF Depth
<1>7. \A x \in held : x = <<x[1], x[2]>> /\ x[2] \in 1 .. Depth
  BY DEF RunInv
<1>8. Owns(Top, Depth, levels[Depth - 1], wb) /\ WbFields \subseteq DOMAIN wb
  BY <1>1, TopOK
<1>9. wb.name = Top.exec.name /\ wb.stack = Depth /\ wb.source = Depth
  BY <1>1, <1>8 DEF Owns, ExecutingSteps, Claimed, WalkSteps, Retains, RetainSteps
<1>10. /\ LevelOK(l, Depth + 1, Top, held) /\ Owns(l, Depth + 1, Top, wb)
       /\ Reports(l, wb)
  <2> DEFINE n == Depth + 1
  <2>1. \A x \in held : x[2] # n
    BY <1>4, <1>7
  <2>2. wb.name = Top.exec.name /\ wb.stack = n - 1 /\ wb.source = n - 1
    BY <1>4, <1>9
  <2> HIDE DEF n
  <2>3. LevelOK(l, n, Top, held) /\ Owns(l, n, Top, wb) /\ Reports(l, wb)
    BY <2>1, <2>2, NewLevel DEF l
  <2> QED
    BY <2>3 DEF n
<1>11. levels'[Depth] = Top
  BY <1>4, <1>6 DEF Top
<1>12. ASSUME NEW d \in 1 .. Depth + 1
       PROVE  LevelOK(levels'[d], d, levels'[d - 1], held')
  <2>1. CASE d = Depth + 1
    BY <1>1, <1>4, <1>6, <1>10, <1>11, <2>1
  <2>2. CASE d # Depth + 1
    <3>1. LevelOK(levels'[d], d, levels[d - 1], held')
      BY <1>1, <1>4, <1>6, <2>2 DEF RunInv
    <3>2. CASE d = 1
      BY <3>1, <3>2, FirstLevel
    <3>3. CASE d # 1
      BY <1>4, <1>6, <2>2, <3>1, <3>3
    <3> QED
      BY <3>2, <3>3
  <2> QED
    BY <2>1, <2>2
<1>13. \A d \in 1 .. Depth : levels'[d].step \in ExecutingSteps
  BY <1>1, <1>4, <1>6, <1>11 DEF RunInv
<1>14. Top' = l /\ Depth' - 1 = Depth
  BY <1>4, <1>6 DEF Top
<1> QED
  BY <1>1, <1>4, <1>6, <1>7, <1>8, <1>10, <1>11, <1>12, <1>13, <1>14 DEF RunInv

\* A nested level ends: the one below goes on executing.
LEMMA PopRun ==
  ASSUME RunInv, levels # <<>>, Depth > 1, levels' = Front(levels), UNCHANGED wb,
         Top.step \notin Claimed, NEW names, held' = held \ Mine(names),
         MayHold(Top) \subseteq names
  PROVE  RunInv'
<1> DEFINE b == levels[Depth - 1]
<1>1. Depth \in Nat /\ Depth > 1
  BY DepthNat
<1>2. /\ \E S : levels' \in Seq(S)
      /\ Depth' = Depth - 1
      /\ \A d \in 1 .. Depth - 1 : levels'[d] = levels[d]
  BY FrontLevels
<1>3. /\ LevelOK(Top, Depth, b, held) /\ Owns(Top, Depth, b, wb)
      /\ WbFields \subseteq DOMAIN wb
  BY TopOK
<1>4. b.step \in ExecutingSteps /\ Top' = b
  BY <1>1, <1>2 DEF RunInv, Top
<1>5. b.step \in Claimed /\ Retains(b) /\ ~Retains(Top)
  BY <1>4 DEF ExecutingSteps, Claimed, Retains, RetainSteps, WalkSteps
<1>6. Owns(b, Depth - 1, levels[Depth - 2], wb)
  BY <1>1, <1>3, <1>5 DEF Owns
<1>7. Reports(b, wb)
  BY <1>4 DEF Reports, ExecutingSteps, LoadSteps, Ended
<1>8. \A x \in held' : x = <<x[1], x[2]>> /\ x[2] \in 1 .. Depth - 1
  <2>1. \A x \in held : x = <<x[1], x[2]>> /\ x[2] \in 1 .. Depth
    BY DEF RunInv
  <2>2. \A x \in held : x[2] = Depth => x[1] \in names
    BY <1>3 DEF LevelOK, Holds
  <2>3. \A x \in held : x[2] = Depth => x \in Mine(names)
    BY <2>1, <2>2 DEF Mine
  <2> QED
    BY <1>1, <2>1, <2>3
<1>9. ASSUME NEW d \in 1 .. Depth - 1
      PROVE  LevelOK(levels'[d], d, levels'[d - 1], held')
  <2>1. LevelOK(levels'[d], d, levels[d - 1], held)
    BY <1>1, <1>2 DEF RunInv
  <2>2. \A x : x[2] = d => (x \in held' <=> x \in held)
    BY <1>1 DEF Mine
  <2>3. LevelOK(levels'[d], d, levels[d - 1], held')
    BY <2>1, <2>2, OtherStorage
  <2>4. CASE d = 1
    BY <2>3, <2>4, FirstLevel
  <2>5. CASE d # 1
    BY <1>1, <1>2, <2>3, <2>5
  <2> QED
    BY <2>4, <2>5
<1>10. \A d \in 1 .. Depth - 2 : levels'[d].step \in ExecutingSteps
  <2>1. \A d \in 1 .. Depth - 2 : d \in 1 .. Depth - 1
    BY <1>1
  <2>2. \A d \in 1 .. Depth - 1 : levels[d].step \in ExecutingSteps
    BY DEF RunInv
  <2> QED
    BY <1>2, <2>1, <2>2
<1>11. Owns(b, Depth - 1, levels'[Depth - 2], wb)
  <2>1. CASE Depth - 1 = 1
    BY <1>6, <2>1, FirstLevel
  <2>2. CASE Depth - 1 # 1
    BY <1>1, <1>2, <1>6, <2>2
  <2> QED
    BY <2>1, <2>2
<1>12. Depth' - 1 = Depth - 2
  BY <1>1, <1>2
<1> QED
  BY <1>2, <1>3, <1>4, <1>7, <1>8, <1>9, <1>10, <1>11, <1>12 DEF RunInv

\* A level that has its exec runs it.
LEMMA DispatchesRun ==
  ASSUME RunInv, levels # <<>>, Top.step = "loaded", Top.loadrc = "OK",
         GoTo("dispatch"), UNCHANGED <<held, wb>>
  PROVE  RunInv'
<1> DEFINE f == [step |-> "dispatch"]
           l == Overlay(f, Top)
<1>1. DOMAIN f = {"step"} /\ f.step = "dispatch" /\ Update(f)
  BY DEF GoTo
<1> HIDE DEF f
<1>2. Top.step \notin Claimed \cup Ended /\ Top.step \in LoadSteps /\ MayHold(Top) = Instblk
  BY MayHoldWhileLoading DEF Claimed, Ended, WalkSteps, LoadSteps
<1>3. /\ LevelOK(Top, Depth, levels[Depth - 1], held) /\ Reports(Top, wb)
      /\ WbFields \subseteq DOMAIN wb
  BY TopOK
<1>4. Top.rc = 0 /\ Top.told = 0 /\ Top.engines = <<>>
  BY <1>2, <1>3 DEF Reports, LevelOK, RanOnce
<1>5. /\ l.step = "dispatch" /\ l.exec = Top.exec /\ l.rc = 0 /\ l.told = 0
      /\ l.engines = <<>>
  BY <1>1, <1>4, KeptFields DEF Overlay, Fields
<1>6. RanOnce(l)
  BY <1>5, EmptySeq DEF RanOnce
<1>7. Reports(l, wb')
  BY <1>5 DEF Reports, Claimed, WalkSteps
<1> QED
  BY <1>1, <1>2, <1>3, <1>5, <1>6, <1>7, OutsideStep

LEMMA NestedGoesOnRun ==
  ASSUME RunInv, NestedGoesOn
  PROVE  RunInv'
<1>1. UNCHANGED wb /\ Depth > 1
  BY DEF NestedGoesOn
<1>2. CASE At("loaded") /\ Top.loadrc = "OK" /\ GoTo("dispatch") /\ Idle
  BY <1>1, <1>2, AtStep, NothingShort, DispatchesRun
<1>3. CASE At("loaded") /\ Top.loadrc # "OK" /\ levels' = Front(levels) /\ Idle
  <2>1. levels # <<>> /\ Top.step = "loaded" /\ Top.step \notin Claimed
    BY <1>3, AtStep DEF Claimed, WalkSteps
  <2>2. MayHold(Top) = {} /\ held' = held \ Mine({})
    BY <1>3, <2>1, MayHoldWhileLoading DEF Idle, Mine
  <2> QED
    BY <1>1, <1>3, <2>1, <2>2, PopRun
<1>4. CASE At("returned") /\ FreeInstblk /\ levels' = Front(levels)
  <2>1. levels # <<>> /\ Top.step = "returned" /\ Top.step \notin Claimed
    BY <1>4, AtStep DEF Claimed, WalkSteps
  <2>2. MayHold(Top) = Instblk /\ held' = held \ Mine(Instblk)
    BY <1>4, <2>1, MayHoldWhileRunning DEF FreeInstblk, Instblk
  <2> QED
    BY <1>1, <1>4, <2>1, <2>2, PopRun
<1> QED
  BY <1>2, <1>3, <1>4 DEF NestedGoesOn

\* Every step of a run keeps the invariant.
LEMMA RunRun ==
  ASSUME RunInv, RunNext
  PROVE  RunInv'
  BY DispatchChecksRun, DispatchSourceRun, DispatchReturnRun, RunInitRun, CompileRun,
     ExecuteBytecodeRun, TrapRun, TokenizeRun, WalkStorageRun, ExecuteWalkRun, CleanupRun,
     CallNestedRun, NestedGoesOnRun DEF RunNext

-----------------------------------------------------------------------------
(* The job.                                                                *)

\* No level, no storage.
LEMMA NoLevels ==
  ASSUME levels = <<>>, WbFields \subseteq DOMAIN wb, held = {}
  PROVE  RunInv
<1>1. Depth = 0 /\ <<>> \in Seq({})
  BY DEF Depth
<1> QED
  BY <1>1 DEF RunInv

\* Between execs nothing is held.
LEMMA NothingHeld ==
  ASSUME RunInv, levels = <<>>
  PROVE  held = {} /\ WbFields \subseteq DOMAIN wb
<1>1. Depth = 0
  BY DEF Depth
<1> QED
  BY <1>1 DEF RunInv

LEMMA WorkBlockFields ==
  ASSUME NEW b
  PROVE  WbFields \subseteq DOMAIN NewWorkBlock(b)
  BY DEF NewWorkBlock, WbFields

\* The exec of the job step ends: no level, no storage.
LEMMA MainlineEnds ==
  ASSUME RunInv, levels # <<>>, Depth = 1, levels' = <<>>, NEW names,
         held' = held \ Mine(names), MayHold(Top) \subseteq names,
         WbFields \subseteq DOMAIN wb'
  PROVE  RunInv'
<1>1. \A x \in held : x = <<x[1], x[2]>> /\ x[2] \in 1 .. 1
  BY DEF RunInv
<1>2. \A x \in held : x[2] = 1
  BY <1>1
<1>3. \A x \in held : x[1] \in names
  BY <1>2, TopOK DEF LevelOK, Holds
<1>4. held' = {}
  BY <1>1, <1>2, <1>3 DEF Mine
<1>5. Depth' = 0 /\ <<>> \in Seq({})
  BY DEF Depth
<1> QED
  BY <1>4, <1>5 DEF RunInv

LEMMA InitInv ==
  ASSUME Init
  PROVE  JclInv
<1>1. RunInv
  BY NoLevels, WorkBlockFields DEF Init, NoEnv
<1>2. JobInv
  BY DEF Init, JobInv, JobFields
<1> QED
  BY <1>1, <1>2 DEF JclInv

LEMMA LogonStep ==
  ASSUME JclInv, Logon
  PROVE  JclInv'
<1>1. RunInv'
  <2>1. levels = <<>> /\ held = {} /\ WbFields \subseteq DOMAIN wb
    BY NothingHeld DEF JclInv, JobInv, Logon
  <2>2. levels' = <<>> /\ held' = {} /\ WbFields \subseteq DOMAIN wb'
    BY <2>1, WorkBlockFields DEF Logon, loadvars
  <2>3. Depth' = 0 /\ <<>> \in Seq({})
    BY <2>2 DEF Depth
  <2> QED
    BY <2>2, <2>3 DEF RunInv
<1>2. JobInv'
  BY DEF JclInv, JobInv, JobFields, Logon, loadvars
<1> QED
  BY <1>1, <1>2 DEF JclInv

LEMMA JclStartStep ==
  ASSUME JclInv, JclStart
  PROVE  JclInv'
<1>1. /\ levels = <<>> /\ held = {} /\ held' = {} /\ WbFields \subseteq DOMAIN wb
      /\ JobFields \subseteq DOMAIN job /\ job.count \in Nat /\ job.step = "idle"
      /\ env \in {"none", "found"}
  BY NothingHeld DEF JclInv, JobInv, JclStart, JobIdle
<1>2. ASSUME NEW via, NEW lost
      PROVE  /\ JobFields \subseteq DOMAIN Called(via, lost)
             /\ Called(via, lost).before = env /\ Called(via, lost).count \in Nat
  BY <1>1 DEF JobFields, Called
<1>3. ASSUME NEW via, NEW lost, NEW rc, Refused(Called(via, lost), rc)
      PROVE  JclInv'
  <2>1. JobInv'
    BY <1>1, <1>2, <1>3 DEF JobInv, JobFields, Refused
  <2>2. Depth' = 0 /\ <<>> \in Seq({})
    BY <1>1, <1>3 DEF Depth, Refused
  <2>3. RunInv'
    BY <1>1, <1>3, <2>2 DEF RunInv, Refused
  <2> QED
    BY <2>1, <2>3 DEF JclInv
<1>4. ASSUME NEW via, NEW lost, NEW e, NEW reader, NEW b,
             Runs(Called(via, lost), e, reader),
             UNCHANGED <<env, wb>> \/ (env = "none" /\ env' = "own" /\ wb' = NewWorkBlock(b))
      PROVE  JclInv'
  <2>1. JobInv'
    BY <1>1, <1>2, <1>4 DEF JobInv, JobFields, Runs
  <2>2. WbFields \subseteq DOMAIN wb'
    BY <1>1, <1>4, WorkBlockFields
  <2> DEFINE l == Level("load", e, reader, OwnCall)
  <2>3. levels' = <<l>>
    BY <1>4 DEF Runs
  <2>4. ASSUME NEW below PROVE LevelOK(l, 1, below, {}) /\ Owns(l, 1, below, wb') /\ Reports(l, wb')
    BY NewLevel
  <2> HIDE DEF l
  <2>5. /\ levels' \in Seq({l}) /\ Depth' = 1 /\ levels' # <<>> /\ Top' = l
        /\ levels'[1] = l
    BY <2>3 DEF Depth, Top
  <2>6. RunInv'
    BY <1>1, <2>2, <2>4, <2>5 DEF RunInv
  <2> QED
    BY <2>1, <2>6 DEF JclInv
<1> QED
  BY <1>3, <1>4 DEF JclStart

\* While there is a level, the job runs.
LEMMA JobRuns ==
  ASSUME JclInv, levels # <<>>
  PROVE  job.step = "run"
  BY DEF JclInv, JobInv

LEMMA JclLoadedStep ==
  ASSUME JclInv, JclLoaded
  PROVE  JclInv'
<1>1. /\ RunInv /\ JobInv /\ levels # <<>> /\ Depth = 1 /\ Top.step = "loaded"
      /\ job.step = "run" /\ WbFields \subseteq DOMAIN wb /\ UNCHANGED env
  BY JobRuns, AtStep, TopOK DEF JclInv, JclLoaded, Mainline
<1>2. CASE Top.loadrc = "OK" /\ GoTo("dispatch") /\ UNCHANGED <<job, wb, held>>
  <2>1. RunInv'
    BY <1>1, <1>2, DispatchesRun
  <2>2. JobInv'
    BY <1>1, <1>2 DEF JobInv
  <2> QED
    BY <2>1, <2>2 DEF JclInv
<1>3. CASE /\ Top.loadrc = "OK" /\ FreeInstblk /\ levels' = <<>> /\ UNCHANGED wb
           /\ job' = [job EXCEPT !.step = "ending", !.rc = 20, !.said = {"0110"}]
  <2>1. RunInv'
    BY <1>1, <1>3, MayHoldWhileLoading, MainlineEnds DEF FreeInstblk, Instblk
  <2>2. JobInv'
    BY <1>1, <1>3 DEF JobInv, JobFields
  <2> QED
    BY <2>1, <2>2 DEF JclInv
<1>4. CASE /\ Top.loadrc # "OK" /\ levels' = <<>> /\ UNCHANGED held
           /\ job' = [job EXCEPT !.step = "ending", !.rc = 20, !.said = LoadMessages(Top.loadrc)]
           /\ wb' = IF Top.loadrc = "NOMEM" /\ job.via = "c"
                    THEN [wb EXCEPT !.error = SYNTAX_STORAGE] ELSE wb
  <2>1. WbFields \subseteq DOMAIN wb'
    BY <1>1, <1>4
  <2>2. held' = held \ Mine({}) /\ MayHold(Top) \subseteq {}
    BY <1>1, <1>4, MayHoldWhileLoading DEF Mine
  <2>3. RunInv'
    BY <1>1, <1>4, <2>1, <2>2, MainlineEnds
  <2>4. JobInv'
    BY <1>1, <1>4 DEF JobInv, JobFields
  <2> QED
    BY <2>3, <2>4 DEF JclInv
<1> QED
  BY <1>2, <1>3, <1>4 DEF JclLoaded

LEMMA JclFreeStep ==
  ASSUME JclInv, JclFree
  PROVE  JclInv'
<1>1. /\ RunInv /\ JobInv /\ levels # <<>> /\ Depth = 1 /\ Top.step = "returned"
      /\ job.step = "run" /\ WbFields \subseteq DOMAIN wb
  BY JobRuns, AtStep, TopOK DEF JclInv, JclFree, Mainline
<1>2. RunInv'
  BY <1>1, MayHoldWhileRunning, MainlineEnds DEF JclFree, FreeInstblk, Instblk
<1>3. JobInv'
  BY <1>1 DEF JobInv, JobFields, JclFree, Finish
<1> QED
  BY <1>2, <1>3 DEF JclInv

LEMMA JclEndStep ==
  ASSUME JclInv, JclEnd
  PROVE  JclInv'
<1>1. /\ levels = <<>> /\ held = {} /\ WbFields \subseteq DOMAIN wb /\ JobInv
  BY NothingHeld DEF JclInv, JobInv, JclEnd
<1>2. levels' = <<>> /\ held' = {} /\ WbFields \subseteq DOMAIN wb'
  BY <1>1, WorkBlockFields DEF JclEnd, loadvars, NoEnv
<1>3. Depth' = 0 /\ <<>> \in Seq({})
  BY <1>2 DEF Depth
<1>4. RunInv'
  BY <1>2, <1>3 DEF RunInv
<1>5. JobInv'
  BY <1>1, <1>2 DEF JobInv, JobFields, JclEnd, EndsOwn
<1> QED
  BY <1>4, <1>5 DEF JclInv

\* Steps of loads and runs leave the job and its environment alone.
LEMMA JobStays ==
  ASSUME JclInv, UNCHANGED <<env, job>>, levels # <<>>
  PROVE  JobInv'
  BY JobRuns DEF JclInv, JobInv

LEMMA StepsHaveALevel ==
  ASSUME LoadNext \/ RunNext
  PROVE  levels # <<>>
<1>1. LoadNext => levels # <<>>
  BY DEF LoadNext, LoadBegin, LoadNotFound, LoadFopen, LoadOpen, LoadBlock, LoadFgets,
         LoadLine, LoadBuild, At
<1>2. RunNext => levels # <<>>
  BY DEF RunNext, DispatchChecks, DispatchSource, DispatchReturn, RunInit, Compile,
         ExecuteBytecode, Trap, Tokenize, WalkStorage, ExecuteWalk, Cleanup, CallNested,
         NestedGoesOn, Executing, At
<1> QED
  BY <1>1, <1>2

LEMMA NextInv ==
  ASSUME JclInv, [Next]_vars
  PROVE  JclInv'
<1>1. ASSUME LoadNext, UNCHANGED <<wb, nested, env, job>> PROVE JclInv'
  BY <1>1, LoadRun, JobStays, StepsHaveALevel DEF JclInv
<1>2. ASSUME RunNext, UNCHANGED <<env, job>> PROVE JclInv'
  BY <1>2, RunRun, JobStays, StepsHaveALevel DEF JclInv
<1>3. ASSUME UNCHANGED vars PROVE JclInv'
  <2>1. /\ UNCHANGED <<levels, held, wb, env, job>> /\ Top' = Top /\ Depth' = Depth
    BY <1>3 DEF vars, runvars, loadvars, Top, Depth
  <2>2. RunInv'
    BY <2>1 DEF JclInv, RunInv
  <2>3. JobInv'
    BY <2>1 DEF JclInv, JobInv
  <2> QED
    BY <2>2, <2>3 DEF JclInv
<1> QED
  BY <1>1, <1>2, <1>3, LogonStep, JclStartStep, JclLoadedStep, JclFreeStep, JclEndStep
  DEF Next

-----------------------------------------------------------------------------
(* The errors of the levels.                                               *)

\* A condition that is fresh to a level was raised in it or in one it called.
FreshOK(w) == \A d \in w.fresh : w.cond # 0 => <<d, w.cond>> \in w.errors

ErrorsInv ==
    /\ FreshOK(wb)
    /\ \A d \in 1 .. Depth : levels[d].told # 0 => <<d, levels[d].told>> \in wb.errors

\* What a step of the innermost level may do to the work block.
Grows(w, v) == FreshOK(w) /\ v.errors \subseteq w.errors

\* The innermost level sets fields.
LEMMA TopErrors ==
  ASSUME RunInv, ErrorsInv, levels # <<>>, NEW f, Update(f), FreshOK(wb'),
         \A d \in 1 .. Depth - 1 : \A n : <<d, n>> \in wb.errors => <<d, n>> \in wb'.errors,
         LET l == Overlay(f, Top) IN l.told # 0 => <<Depth, l.told>> \in wb'.errors
  PROVE  ErrorsInv'
<1>1. /\ Depth' = Depth /\ levels'[Depth] = Overlay(f, Top) /\ Depth \in Nat
      /\ \A d \in 1 .. Depth - 1 : levels'[d] = levels[d]
  BY UpdateLevels, DepthNat
<1>2. ASSUME NEW d \in 1 .. Depth, levels'[d].told # 0
      PROVE  <<d, levels'[d].told>> \in wb'.errors
  <2>1. CASE d = Depth
    BY <1>1, <1>2, <2>1
  <2>2. CASE d # Depth
    <3>1. d \in 1 .. Depth - 1 /\ levels'[d] = levels[d]
      BY <1>1, <2>2
    <3>2. <<d, levels[d].told>> \in wb.errors
      BY <1>2, <3>1 DEF ErrorsInv
    <3> QED
      BY <3>1, <3>2
  <2> QED
    BY <2>1, <2>2
<1> QED
  BY <1>1, <1>2 DEF ErrorsInv

\* It reports nothing.
KeepsTold == levels # <<>> /\ \E f : Update(f) /\ "told" \notin DOMAIN f

LEMMA QuietErrors ==
  ASSUME RunInv, ErrorsInv, KeepsTold, Grows(wb', wb)
  PROVE  ErrorsInv'
<1>1. PICK f : Update(f) /\ "told" \notin DOMAIN f
  BY DEF KeepsTold
<1>2. levels # <<>> /\ Depth > 0 /\ Depth \in Nat
  BY DepthNat DEF KeepsTold
<1>3. Overlay(f, Top).told = Top.told
  BY <1>1, <1>2, KeptFields DEF Fields
<1>4. Top.told # 0 => <<Depth, Top.told>> \in wb.errors
  BY <1>2 DEF ErrorsInv, Top
<1> QED
  BY <1>1, <1>2, <1>3, <1>4, TopErrors DEF Grows

LEMMA GoToKeeps ==
  ASSUME levels # <<>>, NEW step, GoTo(step)
  PROVE  KeepsTold
<1>1. "told" \notin DOMAIN [step |-> step]
  OBVIOUS
<1> QED
  BY <1>1 DEF GoTo, KeepsTold

LEMMA LoadKeepsTold ==
  ASSUME LoadNext
  PROVE  KeepsTold
<1>1. levels # <<>>
  BY StepsHaveALevel
<1>2. \A rc : Update(Unloaded(rc)) => KeepsTold
  BY <1>1 DEF Unloaded, KeepsTold
<1>3. \A m : Update(Reading(m)) => KeepsTold
  BY <1>1 DEF Reading, KeepsTold
<1>4. \A dd : Update([dd |-> dd]) => KeepsTold
  BY <1>1 DEF KeepsTold
<1>5. LoadBegin => KeepsTold
  BY <1>1, <1>2 DEF LoadBegin, KeepsTold
<1>6. LoadNotFound \/ LoadFopen \/ LoadOpen => KeepsTold
  BY <1>2, <1>3, <1>4 DEF LoadNotFound, LoadFopen, LoadOpen
<1>7. \A records : NextBlock(records) => KeepsTold
  BY <1>1 DEF NextBlock, KeepsTold
<1>8. LoadBlock => KeepsTold
  BY <1>2, <1>7 DEF LoadBlock
<1>9. LoadFgets => KeepsTold
  BY <1>1, <1>7 DEF LoadFgets, KeepsTold
<1>10. \A acc, records : Update([acc |-> acc, records |-> records]) => KeepsTold
  BY <1>1 DEF KeepsTold
<1>11. LoadLine => KeepsTold
  BY <1>1, <1>2, <1>10, GoToKeeps DEF LoadLine
<1>12. LoadBuild => KeepsTold
  BY <1>1, <1>2 DEF LoadBuild, KeepsTold
<1> QED
  BY <1>5, <1>6, <1>8, <1>9, <1>11, <1>12 DEF LoadNext

\* The work block grows by an error of the innermost level.
LEMMA NotedErrors ==
  ASSUME RunInv, ErrorsInv, levels # <<>>, NEW n, Noted(n)
  PROVE  Grows(wb', wb) /\ <<Depth, n>> \in wb'.errors
<1>1. WbFields \subseteq DOMAIN wb
  BY TopOK
<1> QED
  BY <1>1 DEF Noted, WbFields, Grows, FreshOK, ErrorsInv

LEMMA FailedErrors ==
  ASSUME RunInv, ErrorsInv, levels # <<>>, NEW n, Noted(n), Update(Failed(n))
  PROVE  ErrorsInv'
<1>1. Grows(wb', wb) /\ <<Depth, n>> \in wb'.errors
  BY NotedErrors
<1>2. Overlay(Failed(n), Top).told = n
  BY DEF Failed, Overlay
<1> QED
  BY <1>1, <1>2, TopErrors DEF Grows

\* An engine that ends answers for an error the level has.
LEMMA RaisedGrows ==
  ASSUME levels # <<>>, Depth \in Nat, NEW w, WbFields \subseteq DOMAIN w, NEW c
  PROVE  Grows(Raised(c, w), w)
  BY DEF Raised, Grows, FreshOK, WbFields

LEMMA FailsErrors ==
  ASSUME RunInv, ErrorsInv, levels # <<>>, NEW engine, NEW n, NEW w,
         WbFields \subseteq DOMAIN w, Grows(w, wb), EngineFails(engine, n, w)
  PROVE  ErrorsInv'
<1> DEFINE told == Errnum(n, w)
           f == Result(engine, n, told)
<1>1. Update(f) /\ wb' = [w EXCEPT !.error = told, !.errors = @ \cup {<<Depth, n>>}]
  BY DEF EngineFails
<1>2. Overlay(f, Top).told = told
  BY DEF Result, Overlay
<1>3. w.errors \subseteq wb'.errors /\ <<Depth, n>> \in wb'.errors /\ FreshOK(wb')
  BY <1>1 DEF WbFields, Grows, FreshOK
<1>4. <<Depth, told>> \in wb'.errors
  BY <1>3 DEF Errnum, Grows, FreshOK
<1> HIDE DEF f, told
<1> QED
  BY <1>1, <1>2, <1>3, <1>4, TopErrors DEF Grows

LEMMA ExecutedErrors ==
  ASSUME RunInv, ErrorsInv, levels # <<>>, NEW engine, NEW traps, NEW w,
         WbFields \subseteq DOMAIN w, Grows(w, wb), Executed(engine, traps, w)
  PROVE  ErrorsInv'
<1>1. \A c : /\ Grows(Raised(c, w), wb)
             /\ WbFields \subseteq DOMAIN Raised(c, w)
  <2>1. \A c : WbFields \subseteq DOMAIN Raised(c, w)
    BY DEF Raised, WbFields
  <2> QED
    BY <2>1, RaisedGrows, DepthNat DEF Grows
<1>2. CASE Update(Result(engine, 0, 0)) /\ wb' = w
  <2>1. Overlay(Result(engine, 0, 0), Top).told = 0
    BY DEF Result, Overlay
  <2> QED
    BY <1>2, <2>1, TopErrors DEF Grows
<1>3. CASE \E after \in {w, Raised(Top.exec.ends, w)} : EngineFails(engine, Top.exec.ends, after)
  BY <1>1, <1>3, FailsErrors
<1>4. CASE \E after \in {w} \cup {Raised(c, w) : c \in traps \cup {SYNTAX_STORAGE}} :
             EngineFails(engine, SYNTAX_STORAGE, after)
  BY <1>1, <1>4, FailsErrors
<1> QED
  BY <1>2, <1>3, <1>4 DEF Executed

\* Levels come and go.
LEMMA FewerErrors ==
  ASSUME ErrorsInv, UNCHANGED wb, Depth' \in 0 .. Depth, Depth \in Nat,
         \A d \in 1 .. Depth' : levels'[d] = levels[d]
  PROVE  ErrorsInv'
  BY DEF ErrorsInv

LEMMA RunErrors ==
  ASSUME RunInv, ErrorsInv, RunNext
  PROVE  ErrorsInv'
<1>1. levels # <<>> /\ WbFields \subseteq DOMAIN wb /\ Depth \in Nat /\ Depth > 0
  BY StepsHaveALevel, TopOK, DepthNat
<1>2. ASSUME NEW w, w.cond = wb.cond, w.fresh = wb.fresh, w.errors = wb.errors
      PROVE  Grows(w, wb)
  BY <1>2 DEF ErrorsInv, Grows, FreshOK
<1>3. CASE DispatchChecks
  <2>1. KeepsTold
    BY <1>1, <1>3 DEF DispatchChecks, Returned, KeepsTold
  <2>2. Grows(wb', wb)
    BY <1>1, <1>2, <1>3 DEF DispatchChecks, Override, WbFields
  <2> QED
    BY <2>1, <2>2, QuietErrors
<1>4. CASE DispatchSource
  <2>1. KeepsTold
    BY <1>1, <1>4 DEF DispatchSource, KeepsTold
  <2>2. CASE wb' = ClaimWorkBlock(wb)
    BY <1>1, <1>2, <2>1, <2>2, QuietErrors DEF ClaimWorkBlock, WbFields
  <2>3. CASE Noted(SYNTAX_STORAGE)
    BY <1>1, <2>1, <2>3, NotedErrors, QuietErrors
  <2> QED
    BY <1>4, <2>2, <2>3 DEF DispatchSource
<1>5. CASE DispatchReturn
  <2>1. KeepsTold
    BY <1>1, <1>5 DEF DispatchReturn, Returned, KeepsTold
  <2>2. Grows(wb', wb)
    BY <1>1, <1>2, <1>5 DEF DispatchReturn, Restore, WbFields
  <2> QED
    BY <2>1, <2>2, QuietErrors
<1>6. CASE RunInit
  <2>1. PICK f : Update(f) /\ "told" \notin DOMAIN f
    BY <1>6 DEF RunInit
  <2>2. Overlay(f, Top).told = 0
    <3>1. Top.step = "init" /\ Reports(Top, wb)
      BY <1>6, AtStep, TopOK DEF RunInit
    <3>2. Top.told = 0
      BY <3>1 DEF Reports, Claimed, ExecutingSteps, WalkSteps, Ended
    <3> QED
      BY <1>1, <2>1, <3>2, KeptFields DEF Fields
  <2>3. CASE wb' = Begun
    <3>1. /\ wb'.cond = wb.cond /\ wb'.fresh = wb.fresh \cap 1 .. Depth - 1
          /\ wb'.errors = {x \in wb.errors : x[1] < Depth}
      BY <1>1, <2>3 DEF Begun, WbFields
    <3>2. \A d \in 1 .. Depth - 1 : \A n : <<d, n>> \in wb.errors => <<d, n>> \in wb'.errors
      BY <1>1, <3>1
    <3>3. FreshOK(wb')
      BY <3>1, <3>2 DEF FreshOK, ErrorsInv
    <3> QED
      BY <1>1, <2>1, <2>2, <3>2, <3>3, TopErrors
  <2>4. CASE UNCHANGED wb
    BY <1>1, <1>2, <2>1, <2>4, QuietErrors DEF KeepsTold
  <2> QED
    BY <1>6, <2>3, <2>4 DEF RunInit, Begun
<1>7. CASE Compile
  <2>1. ASSUME NEW step, GoTo(step), UNCHANGED wb \/ wb' = [wb EXCEPT !.fallbacks = @ + 1]
        PROVE  ErrorsInv'
    <3>1. wb'.cond = wb.cond /\ wb'.fresh = wb.fresh /\ wb'.errors = wb.errors
      BY <1>1, <2>1 DEF WbFields
    <3> QED
      BY <1>1, <1>2, <2>1, <3>1, GoToKeeps, QuietErrors
  <2> QED
    BY <1>1, <1>7, <2>1, FailedErrors DEF Compile
<1>8. CASE Tokenize
  <2>1. ASSUME NEW step, GoTo(step), UNCHANGED wb PROVE ErrorsInv'
    BY <1>1, <1>2, <2>1, GoToKeeps, QuietErrors
  <2> QED
    BY <1>1, <1>8, <2>1, FailedErrors DEF Tokenize
<1>9. CASE ExecuteBytecode
  <2> DEFINE w == [wb EXCEPT !.execs = @ + 1]
  <2>1. WbFields \subseteq DOMAIN w /\ w.cond = wb.cond /\ w.fresh = wb.fresh /\ w.errors = wb.errors
    BY <1>1 DEF WbFields
  <2>2. Executed("vm", Top.exec.traps, w)
    BY <1>9 DEF ExecuteBytecode
  <2> HIDE DEF w
  <2> QED
    BY <1>1, <1>2, <2>1, <2>2, ExecutedErrors
<1>10. CASE ExecuteWalk
  BY <1>1, <1>2, <1>10, ExecutedErrors DEF ExecuteWalk
<1>11. CASE Trap
  <2>1. PICK c : wb' = [Raised(c, wb) EXCEPT !.fresh = 1 .. Depth - 1]
    BY <1>11 DEF Trap
  <2>2. /\ wb.errors \subseteq wb'.errors /\ wb'.cond = c /\ wb'.fresh = 1 .. Depth - 1
        /\ \A d \in 1 .. Depth : <<d, c>> \in wb'.errors
    BY <1>1, <2>1 DEF Raised, WbFields
  <2>3. FreshOK(wb')
    BY <1>1, <2>2 DEF FreshOK
  <2> QED
    BY <1>1, <1>11, <2>2, <2>3 DEF ErrorsInv, Trap, Depth
<1>12. CASE WalkStorage
  <2>1. KeepsTold
    BY <1>1, <1>12, GoToKeeps DEF WalkStorage, Silent, KeepsTold
  <2> QED
    BY <1>2, <1>12, <2>1, QuietErrors DEF WalkStorage
<1>13. CASE Cleanup
  <2>1. Grows(wb', wb)
    BY <1>1, <1>2, <1>13 DEF Cleanup, RestoreSource, WbFields
  <2> QED
    BY <1>1, <1>13, <2>1, GoToKeeps, QuietErrors DEF Cleanup
<1>14. CASE CallNested
  <2>1. PICK l : levels' = Append(levels, l) /\ l.told = 0 /\ UNCHANGED wb
    BY <1>14 DEF CallNested, Level
  <2>2. PICK S : levels \in Seq(S)
    BY DepthNat
  <2>3. /\ Depth' = Depth + 1 /\ levels'[Depth + 1].told = 0
        /\ \A d \in 1 .. Depth : levels'[d] = levels[d]
    BY <1>1, <2>1, <2>2 DEF Depth
  <2>4. ASSUME NEW d \in 1 .. Depth + 1, levels'[d].told # 0
        PROVE  <<d, levels'[d].told>> \in wb.errors
    BY <1>1, <2>3, <2>4 DEF ErrorsInv
  <2>5. FreshOK(wb)
    BY DEF ErrorsInv
  <2> QED
    BY <2>1, <2>3, <2>4, <2>5 DEF ErrorsInv, FreshOK
<1>15. CASE NestedGoesOn
  <2>1. CASE GoTo("dispatch")
    BY <1>1, <1>2, <1>15, <2>1, GoToKeeps, QuietErrors DEF NestedGoesOn
  <2>2. CASE levels' = Front(levels)
    BY <1>1, <1>15, <2>2, FrontLevels, FewerErrors DEF NestedGoesOn
  <2> QED
    BY <1>15, <2>1, <2>2 DEF NestedGoesOn
<1> QED
  BY <1>3, <1>4, <1>5, <1>6, <1>7, <1>8, <1>9, <1>10, <1>11, <1>12, <1>13, <1>14, <1>15
  DEF RunNext

\* Between execs there are no levels; a new one has reported nothing.
LEMMA JobErrors ==
  ASSUME FreshOK(wb'), levels' = <<>> \/ \E l : levels' = <<l>> /\ l.told = 0
  PROVE  ErrorsInv'
<1>1. CASE levels' = <<>>
  BY <1>1 DEF ErrorsInv, Depth
<1>2. CASE \E l : levels' = <<l>> /\ l.told = 0
  <2>1. PICK l : levels' = <<l>> /\ l.told = 0
    BY <1>2
  <2>2. Depth' = 1 /\ levels'[1] = l
    BY <2>1 DEF Depth
  <2> QED
    BY <2>1, <2>2 DEF ErrorsInv
<1> QED
  BY <1>1, <1>2

LEMMA ErrorsNext ==
  ASSUME JclInv, ErrorsInv, [Next]_vars
  PROVE  ErrorsInv'
<1>1. RunInv /\ FreshOK(wb)
  BY DEF JclInv, ErrorsInv
<1>2. \A b : FreshOK(NewWorkBlock(b))
  BY DEF FreshOK, NewWorkBlock
<1>3. CASE Logon
  <2>1. levels' = <<>> /\ FreshOK(wb')
    BY <1>1, <1>2, <1>3 DEF Logon, loadvars, JclInv, JobInv
  <2> QED
    BY <2>1, JobErrors
<1>4. CASE JclStart
  <2>1. FreshOK(wb')
    BY <1>1, <1>2, <1>4 DEF JclStart, Refused
  <2>2. levels = <<>>
    BY <1>4 DEF JclInv, JobInv, JclStart, JobIdle
  <2>3. ASSUME NEW j, NEW e, NEW reader, Runs(j, e, reader)
        PROVE  \E l : levels' = <<l>> /\ l.told = 0
    BY <2>3 DEF Runs, Level
  <2>4. levels' = <<>> \/ \E l : levels' = <<l>> /\ l.told = 0
    BY <1>4, <2>2, <2>3 DEF JclStart, Refused
  <2> QED
    BY <2>1, <2>4, JobErrors
<1>5. CASE JclLoaded
  <2>1. levels # <<>> /\ WbFields \subseteq DOMAIN wb
    BY <1>1, <1>5, AtStep, TopOK DEF JclLoaded, Mainline
  <2>2. /\ wb'.cond = wb.cond /\ wb'.fresh = wb.fresh /\ wb'.errors = wb.errors
    BY <1>5, <2>1 DEF JclLoaded, WbFields
  <2>3. Grows(wb', wb)
    BY <1>1, <2>2 DEF Grows, FreshOK
  <2>4. CASE GoTo("dispatch")
    BY <1>1, <2>1, <2>3, <2>4, GoToKeeps, QuietErrors
  <2>5. CASE levels' = <<>>
    BY <2>3, <2>5, JobErrors DEF Grows
  <2> QED
    BY <1>5, <2>4, <2>5 DEF JclLoaded
<1>6. CASE JclFree
  BY <1>1, <1>6, JobErrors DEF JclFree
<1>7. CASE JclEnd
  <2>1. levels' = <<>> /\ FreshOK(wb')
    BY <1>1, <1>2, <1>7 DEF JclEnd, loadvars, JclInv, JobInv, NoEnv
  <2> QED
    BY <2>1, JobErrors
<1>8. CASE LoadNext /\ UNCHANGED <<wb, nested, env, job>>
  <2>1. Grows(wb', wb)
    BY <1>1, <1>8 DEF Grows, FreshOK
  <2> QED
    BY <1>1, <1>8, <2>1, LoadKeepsTold, QuietErrors
<1>9. CASE RunNext
  BY <1>1, <1>9, RunErrors
<1>10. CASE UNCHANGED vars
  BY <1>10 DEF vars, runvars, loadvars, ErrorsInv, Depth
<1> QED
  BY <1>3, <1>4, <1>5, <1>6, <1>7, <1>8, <1>9, <1>10 DEF Next

LEMMA ErrorsInit ==
  ASSUME Init
  PROVE  ErrorsInv
<1>1. Depth = 0 /\ FreshOK(wb)
  BY DEF Init, Depth, NoEnv, NewWorkBlock, FreshOK
<1> QED
  BY <1>1 DEF ErrorsInv

-----------------------------------------------------------------------------
(* What follows.                                                           *)

LEMMA InvFieldsOwned ==
  ASSUME JclInv
  PROVE  FieldsOwned
<1>1. SUFFICES ASSUME Executing PROVE FieldsOwned
  BY DEF FieldsOwned
<1>2. levels # <<>> /\ Top.step \in ExecutingSteps
  BY <1>1, AtStep DEF Executing, ExecutingSteps
<1>3. Top.step \in Claimed /\ Retains(Top)
  BY <1>2 DEF ExecutingSteps, Claimed, WalkSteps, Retains, RetainSteps
<1>4. /\ LevelOK(Top, Depth, levels[Depth - 1], held)
      /\ Owns(Top, Depth, levels[Depth - 1], wb)
  BY <1>2, TopOK DEF JclInv
<1> QED
  BY <1>3, <1>4 DEF FieldsOwned, Owns, LevelOK, Holds

LEMMA InvGivenBack ==
  ASSUME JclInv
  PROVE  GivenBack
<1>1. Depth \in Nat
  BY DepthNat DEF JclInv
<1>2. NothingLeft
  BY <1>1 DEF JclInv, RunInv, NothingLeft
<1>3. JobIdle /\ "IRXTERM" \notin job.lost => env = job.before \/ job.count = 0
  BY DEF JclInv, JobInv, JobIdle
<1> QED
  BY <1>2, <1>3 DEF GivenBack

LEMMA InvResultTells ==
  ASSUME JclInv, ErrorsInv
  PROVE  ResultTells
<1>1. PICK S : levels \in Seq(S)
  BY DepthNat DEF JclInv
<1>2. SUFFICES ASSUME NEW d \in DOMAIN levels, levels[d].step = "returned",
                      Verdict(levels[d].call) = 0
               PROVE  /\ levels[d].result =
                           CASE levels[d].rc = 0 -> EXIT
                             [] levels[d].rc # 0 /\ levels[d].told # 0 ->
                                  SYNTAX_BASE + levels[d].told
                             [] OTHER -> 20
                      /\ levels[d].told # 0 => <<d, levels[d].told>> \in wb.errors
  BY DEF ResultTells
<1>3. d \in 1 .. Depth /\ Depth \in Nat /\ levels # <<>>
  BY <1>1, <1>2 DEF Depth
<1>4. d \notin 1 .. Depth - 1
  BY <1>2 DEF JclInv, RunInv, ExecutingSteps
<1>5. d = Depth
  BY <1>3, <1>4
<1>6. Reports(levels[d], wb)
  BY <1>3, <1>5, TopOK DEF JclInv, Top
<1>7. levels[d].told # 0 => <<d, levels[d].told>> \in wb.errors
  BY <1>3 DEF ErrorsInv
<1> QED
  BY <1>2, <1>6, <1>7 DEF Reports

LEMMA InvRunOnce ==
  ASSUME JclInv
  PROVE  RunOnce
<1>1. PICK S : levels \in Seq(S)
  BY DepthNat DEF JclInv
<1>2. DOMAIN levels = 1 .. Depth
  BY <1>1 DEF Depth
<1> QED
  BY <1>2 DEF JclInv, RunInv, LevelOK, RanOnce, RunOnce

\* JclInv is an invariant of the job.
THEOREM JclInvariant == Spec => []JclInv
<1> QED
  BY InitInv, NextInv, PTL DEF Spec

\* Whatever is nested and however it ended, an exec that executes clauses finds
\* its own source, name and stack end in the work block, and its source buffer.
THEOREM WorkBlockIsOwn == Spec => []FieldsOwned
<1> QED
  BY JclInvariant, InvFieldsOwned, PTL

\* A level that has ended holds no storage and no opened member, whatever step of
\* it found storage short; after IRXJCL there is the environment there was before.
THEOREM EverythingGivenBack == Spec => []GivenBack
<1> QED
  BY JclInvariant, InvGivenBack, PTL

\* A condition that is fresh to an exec was raised in it or in one it called, and
\* the error it reports happened there.
THEOREM ErrorsInvariant == Spec => []ErrorsInv
<1>1. JclInv /\ ErrorsInv /\ [Next]_vars => ErrorsInv'
  BY ErrorsNext
<1> QED
  BY <1>1, ErrorsInit, JclInvariant, PTL DEF Spec

\* IRXEXEC answers 20000 + n only for an error n that happened in the exec itself or
\* was raised in one it called, since it began, whatever the condition record and
\* the error number hold of execs before it.
THEOREM ResultIsOwn == Spec => []ResultTells
<1> QED
  BY JclInvariant, ErrorsInvariant, InvResultTells, PTL

\* The clauses of an exec are executed by one engine, once.
THEOREM ClausesRunOnce == Spec => []RunOnce
<1> QED
  BY JclInvariant, InvRunOnce, PTL
=============================================================================
