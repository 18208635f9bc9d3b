-------------------------- MODULE VmControlProofs --------------------------
(***************************************************************************)
(* What holds of the VM's control flow for any program, any sizes of its   *)
(* arrays and any depth of calls.                                          *)
(***************************************************************************)
EXTENDS VmControl, StackLemmas

-----------------------------------------------------------------------------
(* The array of counters.                                                  *)

LEMMA TwicePowerOfTwo ==
  ASSUME NEW m \in Nat \ {0}, PowerOfTwo(m)
  PROVE  PowerOfTwo(2 * m)
<1> SUFFICES ASSUME NEW d \in 1 .. 2 * m, NEW q \in 1 .. 2 * m, d * q = 2 * m, d % 2 # 0, d # 1
             PROVE  FALSE
  BY DEF PowerOfTwo
<1>1. PICK a \in Nat : d = 2 * a + 1
  <2>1. d % 2 = 1 /\ d = 2 * (d \div 2) + (d % 2) /\ d \div 2 \in Nat
    OBVIOUS
  <2> QED
    BY <2>1
<1>2. q % 2 = 0
  <2> SUFFICES ASSUME q % 2 # 0 PROVE FALSE
    OBVIOUS
  <2>1. q % 2 = 1 /\ q = 2 * (q \div 2) + (q % 2) /\ q \div 2 \in Nat
    OBVIOUS
  <2>2. PICK b \in Nat : q = 2 * b + 1
    BY <2>1
  <2>3. (2 * a + 1) * (2 * b + 1) = 2 * (2 * (a * b) + a + b) + 1
    OBVIOUS
  <2>4. 2 * (a * b) + a + b \in Nat
    OBVIOUS
  <2> QED
    BY <1>1, <2>2, <2>3, <2>4
<1>3. PICK r \in Nat : q = 2 * r
  <2>1. q = 2 * (q \div 2) + (q % 2) /\ q \div 2 \in Nat
    OBVIOUS
  <2> QED
    BY <1>2, <2>1
<1>4. d * r = m
  <2>1. d * (2 * r) = 2 * (d * r) /\ d * r \in Nat
    OBVIOUS
  <2> QED
    BY <1>3, <2>1
<1>5. r >= 1
  BY <1>3
<1>6. d <= m /\ r <= m
  BY <1>4, <1>5
<1> QED
  BY <1>4, <1>5, <1>6 DEF PowerOfTwo

\* vm_grow_counters makes room for a counter n, and keeps those there are.
LEMMA RoomEnough ==
  ASSUME NEW n \in Nat, counters \in Seq(Int), Len(counters) > 0
  PROVE  /\ Room(n) \in Seq(Int) /\ Len(Room(n)) > n /\ Len(Room(n)) >= Len(counters)
         /\ \A i \in 1 .. Len(counters) : Room(n)[i] = counters[i]
<1>1. CASE n < Len(counters)
  BY <1>1 DEF Room
<1>2. CASE n >= Len(counters)
  <2> DEFINE l == Len(counters)
             T == {m \in 1 .. n : PowerOfTwo(m) /\ l * m <= n}
             P(c) == \E m \in 1 .. c : PowerOfTwo(m) /\ c = l * m
             c == CHOOSE c \in n + 1 .. 2 * n : P(c)
  <2>1. l \in Nat /\ l >= 1 /\ n >= l
    BY <1>2
  <2> HIDE DEF l
  <2>2. 1 \in T
    BY <2>1 DEF PowerOfTwo
  <2>3. PICK m \in T : \A k \in T : k <= m
    BY <2>1, <2>2, MaxExists
  <2>4. l * (2 * m) = 2 * (l * m) /\ l * m \in Nat /\ l * (2 * m) >= 2 * m
    BY <2>1
  <2>5. PowerOfTwo(2 * m)
    BY TwicePowerOfTwo
  <2>6. l * (2 * m) > n
    <3> SUFFICES ASSUME l * (2 * m) <= n PROVE FALSE
      BY <2>4
    <3>1. 2 * m \in T
      BY <2>4, <2>5
    <3> QED
      BY <2>3, <3>1
  <2>7. l * (2 * m) \in n + 1 .. 2 * n
    BY <2>4, <2>6
  <2>8. P(l * (2 * m))
    BY <2>4, <2>5, <2>7
  <2> HIDE DEF T, P
  <2>9. c \in n + 1 .. 2 * n
    BY <2>7, <2>8
  <2>10. Room(n) = counters \o Zeros(c - l)
    BY <1>2, <2>1 DEF Room, P, l
  <2> HIDE DEF c
  <2>11. Zeros(c - l) \in Seq(Int) /\ Len(Zeros(c - l)) = c - l
    <3>1. c - l \in Nat
      BY <2>1, <2>9
    <3> QED
      BY <3>1 DEF Zeros
  <2>12. /\ counters \o Zeros(c - l) \in Seq(Int) /\ Len(counters \o Zeros(c - l)) = c
         /\ \A i \in 1 .. l : (counters \o Zeros(c - l))[i] = counters[i]
    BY <2>1, <2>9, <2>11, ConcatProperties DEF l
  <2> QED
    BY <2>1, <2>9, <2>10, <2>12 DEF l
<1> QED
  BY <1>1, <1>2

-----------------------------------------------------------------------------
(* Types, and what relates call_args, the traps and the condition record   *)
(* to the calls.                                                           *)

Traps == [Conds -> {"off", "on", "nolabel"}]
LoopKinds == {"count", "to", "for", "plain"}
LoopRec == [kind : LoopKinds, bound : Nat, left : Int]
ActRec == [loops : Seq(LoopRec), wants : Nat, trap : Traps]
FrameRec == [push : BOOLEAN, argc : Nat, isolated : BOOLEAN, trap : Traps, base : Nat]
HiddenRec == [bound : Nat, left : Int]
PoolRec == [0 .. DoNames - 1 -> HiddenRec]
CondRec == [code : Nat, fresh : BOOLEAN]

TypeInv ==
    /\ at \in {"setup", "label", "run", "ended"}
    /\ todo \in Seq(Range(Plan)) /\ (todo = <<>> <=> at # "setup")
    /\ frames \in Seq(FrameRec) /\ Len(frames) <= cap
    /\ cap \in CallInit .. CallMax /\ gen \in Nat
    /\ base \in Nat
    /\ counters \in Seq(Int) /\ Len(counters) >= CounterInit
    /\ hidden \in Seq(PoolRec) /\ Len(hidden) = 1 + Own(frames, Len(frames))
    /\ stack \in Seq(Nat) /\ Len(stack) <= StackMax
    /\ trap \in Traps
    /\ cond \in CondRec
    /\ acts \in Seq(ActRec) /\ Len(acts) = Len(frames) + 1
    /\ at = "label" => frames # <<>> /\ ~Last(frames).isolated

\* A run that goes on has dealt with every condition raised so far.
CondInv == NamedForCause /\ (at # "ended" => ~cond.fresh)

BaseInv == TypeInv /\ ArgsCurrent /\ TrapsOwned /\ CondInv

LEMMA ConstantsPositive ==
  /\ CallInit \in Nat \ {0} /\ CallMax \in Nat \ {0} /\ CounterInit \in Nat \ {0}
  /\ StackMax \in Nat \ {0} /\ DoNames \in Nat \ {0} /\ MaxDepth \in Nat \ {0}
  /\ CallInit <= CallMax
  BY VmAssumption

LEMMA ActTyped ==
  ASSUME TypeInv
  PROVE  /\ Len(acts) \in Nat /\ Len(acts) >= 1 /\ Len(frames) \in Nat
         /\ Len(acts) \in 1 .. Len(acts) /\ Len(frames) = Len(acts) - 1
         /\ DOMAIN frames = 1 .. Len(frames) /\ DOMAIN acts = 1 .. Len(acts)
         /\ Act \in ActRec /\ Act = acts[Len(acts)]
         /\ Loops \in Seq(LoopRec) /\ Act.wants \in Nat /\ Act.trap \in Traps
<1>1. /\ acts \in Seq(ActRec) /\ frames \in Seq(FrameRec) /\ Len(acts) = Len(frames) + 1
  BY DEF TypeInv
<1>2. /\ Len(acts) \in Nat /\ Len(acts) >= 1 /\ Len(frames) \in Nat
      /\ Len(acts) \in 1 .. Len(acts) /\ Len(frames) = Len(acts) - 1
      /\ DOMAIN frames = 1 .. Len(frames) /\ DOMAIN acts = 1 .. Len(acts)
  BY <1>1
<1>3. Act \in ActRec
  BY <1>1, <1>2 DEF Act
<1> QED
  BY <1>2, <1>3 DEF Act, Loops, ActRec

LEMMA WithActIs ==
  ASSUME TypeInv, NEW a \in ActRec
  PROVE  /\ WithAct(a) \in Seq(ActRec) /\ Len(WithAct(a)) = Len(acts)
         /\ WithAct(a)[Len(acts)] = a
         /\ \A k \in 1 .. Len(frames) : WithAct(a)[k] = acts[k]
<1>1. acts \in Seq(ActRec) /\ Len(acts) \in 1 .. Len(acts)
  BY ActTyped DEF TypeInv
<1>2. /\ WithAct(a) \in Seq(ActRec) /\ Len(WithAct(a)) = Len(acts)
      /\ \A k \in 1 .. Len(acts) : WithAct(a)[k] = IF k = Len(acts) THEN a ELSE acts[k]
  BY <1>1, ExceptSeq DEF WithAct
<1>3. \A k \in 1 .. Len(frames) : k \in 1 .. Len(acts) /\ k # Len(acts)
  BY ActTyped
<1> QED
  BY <1>1, <1>2, <1>3

\* An activation with other operands, loops or traps is one.
LEMMA ActChanged ==
  ASSUME NEW a \in ActRec, NEW w \in Nat, NEW l \in Seq(LoopRec), NEW t \in Traps
  PROVE  /\ [a EXCEPT !.wants = w] \in ActRec /\ [a EXCEPT !.wants = w].trap = a.trap
         /\ [a EXCEPT !.wants = w].loops = a.loops /\ [a EXCEPT !.wants = w].wants = w
         /\ [a EXCEPT !.loops = l] \in ActRec /\ [a EXCEPT !.loops = l].trap = a.trap
         /\ [a EXCEPT !.loops = l].loops = l /\ [a EXCEPT !.loops = l].wants = a.wants
         /\ [a EXCEPT !.trap = t] \in ActRec /\ [a EXCEPT !.trap = t].trap = t
         /\ [a EXCEPT !.trap = t].loops = a.loops /\ [a EXCEPT !.trap = t].wants = a.wants
  BY DEF ActRec

LEMMA NewActTyped ==
  ASSUME NEW t \in Traps
  PROVE  /\ NewAct(t) \in ActRec /\ NewAct(t).trap = t /\ NewAct(t).wants = 0
         /\ NewAct(t).loops = <<>>
  BY DEF NewAct, ActRec

LEMMA NewPoolTyped == NewPool \in PoolRec
  BY DEF NewPool, PoolRec, HiddenRec

LEMMA AllOffTyped == AllOff \in Traps
  BY DEF AllOff, Traps

LEMMA ZerosTyped ==
  ASSUME NEW n \in Nat
  PROVE  Zeros(n) \in Seq(Int) /\ Len(Zeros(n)) = n
  BY DEF Zeros

\* The frames with a pool of their own.
LEMMA IsolatedIs ==
  ASSUME NEW S, NEW f \in Seq(S)
  PROVE  Isolated(f) = Own(f, Len(f))
<1>1. DOMAIN f = 1 .. Len(f)
  OBVIOUS
<1> QED
  BY <1>1 DEF Isolated, Own

\* How it comes to that, and what is released.
Released ==
    \/ /\ at' = "run" /\ Running /\ UNCHANGED <<gen, counters>>
       /\ held' = held \ CallStorage(frames, Len(hidden))
    \/ /\ at' = "ended" /\ gen' = 0 /\ Len(counters') = CounterInit
       /\ \/ held' = held \ DoneFrees(frames, Len(hidden))
          \/ CopyShort \/ ResultShort

\* What a failure or a jump out of all calls leaves.
Cleared ==
    /\ frames' = <<>> /\ base' = 0 /\ args' = Top /\ stack' = <<>>
    /\ hidden' \in Seq(PoolRec) /\ Len(hidden') = 1
    /\ trap' \in Traps /\ acts' = <<NewAct(trap')>>
    /\ counters' \in Seq(Int) /\ Len(counters') >= CounterInit
    /\ cap' \in CallInit .. CallMax /\ gen' \in Nat
    /\ todo' = <<>> /\ at' \in {"run", "ended"}
    /\ Released

LEMMA EndedClears ==
  ASSUME NEW rep, Ended(rep),
         \/ held' = held \ DoneFrees(frames, Len(hidden))
         \/ CopyShort \/ ResultShort
  PROVE  Cleared /\ report' = rep /\ at' = "ended"
<1>1. /\ counters' = Zeros(CounterInit) /\ cap' = CallInit /\ gen' = 0 /\ hidden' = <<NewPool>>
      /\ trap' = AllOff /\ acts' = <<NewAct(AllOff)>>
      /\ todo' = <<>> /\ at' = "ended" /\ report' = rep
      /\ frames' = <<>> /\ base' = 0 /\ args' = Top /\ stack' = <<>>
  BY DEF Ended
<1>2. counters' \in Seq(Int) /\ Len(counters') = CounterInit
  BY <1>1, ConstantsPositive, ZerosTyped
<1>3. hidden' \in Seq(PoolRec) /\ Len(hidden') = 1
  BY <1>1, NewPoolTyped
<1>4. cap' \in CallInit .. CallMax
  BY <1>1, ConstantsPositive
<1>5. Released
  BY <1>1, <1>2 DEF Released
<1> QED
  BY <1>1, <1>2, <1>3, <1>4, <1>5, ConstantsPositive, AllOffTyped DEF Cleared

LEMMA DoneClears ==
  ASSUME NEW rep, Done(rep)
  PROVE  Cleared /\ report' = rep /\ at' = "ended"
<1>1. Ended(rep) /\ held' = held \ DoneFrees(frames, Len(hidden))
  BY DEF Done
<1> QED
  BY <1>1, EndedClears

LEMMA UnwindClears ==
  ASSUME TypeInv, Running, NEW t \in Traps, Unwind(t)
  PROVE  Cleared /\ at' = "run"
<1>1. /\ at' = "run" /\ frames' = <<>> /\ base' = 0 /\ args' = Top
      /\ stack' = <<>> /\ hidden' = <<hidden[1]>>
      /\ trap' = t /\ acts' = <<NewAct(t)>>
      /\ held' = held \ CallStorage(frames, Len(hidden))
      /\ UNCHANGED <<todo, cap, gen, counters>>
  BY DEF Unwind
<1>2. Own(frames, Len(frames)) \in Nat
  BY ActTyped, OwnNat
<1>3. hidden[1] \in PoolRec
  <2>1. hidden \in Seq(PoolRec) /\ Len(hidden) >= 1
    BY <1>2 DEF TypeInv
  <2> QED
    BY <2>1
<1>4. hidden' \in Seq(PoolRec) /\ Len(hidden') = 1
  BY <1>1, <1>3
<1>5. todo = <<>> /\ Released
  BY <1>1 DEF TypeInv, Running, Released
<1> QED
  BY <1>1, <1>4, <1>5 DEF Cleared, TypeInv

LEMMA ClearedBase ==
  ASSUME BaseInv, Cleared, cond' \in CondRec, report'.num = report'.cause,
         at' = "run" => ~cond'.fresh
  PROVE  BaseInv'
<1>1. /\ frames' \in Seq(FrameRec) /\ Len(frames') = 0 /\ DOMAIN frames' = {}
      /\ Own(frames', 0) = 0
  BY OwnNat DEF Cleared
<1>2. NewAct(trap') \in ActRec /\ NewAct(trap').trap = trap'
  BY NewActTyped DEF Cleared
<1>3. /\ acts' \in Seq(ActRec) /\ Len(acts') = 1 /\ acts'[1].trap = trap'
  BY <1>2 DEF Cleared
<1>4. stack' \in Seq(Nat) /\ Len(stack') = 0 /\ todo' \in Seq(Range(Plan))
  BY DEF Cleared
<1>5. TypeInv'
  <2>1. /\ at' \in {"setup", "label", "run", "ended"} /\ at' # "label"
        /\ (todo' = <<>> <=> at' # "setup")
    BY DEF Cleared
  <2>3. cap' \in CallInit .. CallMax /\ gen' \in Nat /\ 0 <= cap'
    BY ConstantsPositive DEF Cleared
  <2>4. base' \in Nat /\ trap' \in Traps
    BY DEF Cleared
  <2>5. counters' \in Seq(Int) /\ Len(counters') >= CounterInit
    BY DEF Cleared
  <2>6. hidden' \in Seq(PoolRec) /\ Len(hidden') = 1 + Own(frames', Len(frames'))
    BY <1>1 DEF Cleared
  <2>7. Len(stack') <= StackMax
    BY <1>4, ConstantsPositive
  <2> QED
    BY <1>1, <1>3, <1>4, <2>1, <2>3, <2>4, <2>5, <2>6, <2>7 DEF TypeInv
<1>6. ArgsCurrent' /\ TrapsOwned'
  BY <1>1, <1>3 DEF ArgsCurrent, TrapsOwned, Act, Cleared
<1>7. CondInv'
  BY DEF CondInv, NamedForCause, Cleared
<1> QED
  BY <1>5, <1>6, <1>7 DEF BaseInv

LEMMA FailureNumbers ==
  /\ Storage \in Failure /\ ControlStack \in Failure /\ NoLabel \in Failure
  /\ Internal \in Failure /\ Storage.class = "other"
  /\ \A f \in Failures : f \in Failure
  BY VmAssumption DEF Storage, ControlStack, NoLabel, Internal, Failure

\* The error named is the opcode's own, because nothing raised earlier is fresh.
LEMMA FailBase ==
  ASSUME BaseInv, NEW f \in Failure, at # "ended", f.class = "other" \/ Running, Fail(f)
  PROVE  BaseInv' /\ Cleared
<1>1. TypeInv /\ ~cond.fresh /\ cond \in CondRec /\ cond.code \in Nat /\ f.num \in Nat
  BY DEF BaseInv, TypeInv, CondInv, CondRec, Failure
<1>2. /\ Raised(f) \in CondRec /\ Number(f) = f.num
  BY <1>1 DEF Raised, Number, Named, CondRec
<1>3. CASE Trappable(f)
  <2> DEFINE t == [trap EXCEPT !["SYNTAX"] = "off"]
  <2>1. /\ Unwind(t) /\ cond' = Handled([code |-> f.num, fresh |-> TRUE])
        /\ report' = [num |-> f.num, cause |-> f.num]
    BY <1>2, <1>3 DEF Fail
  <2>2. t \in Traps /\ Running
    BY <1>1, <1>3 DEF TypeInv, Traps, Trappable
  <2> HIDE DEF t
  <2>3. Cleared
    BY <1>1, <2>1, <2>2, UnwindClears
  <2>4. cond' \in CondRec /\ ~cond'.fresh
    BY <1>1, <2>1 DEF Handled, CondRec
  <2> QED
    BY <2>1, <2>3, <2>4, ClearedBase
<1>4. CASE ~Trappable(f)
  <2>1. Done([num |-> f.num, cause |-> f.num]) /\ cond' = Raised(f)
    BY <1>2, <1>4 DEF Fail
  <2>2. Cleared /\ at' = "ended" /\ report' = [num |-> f.num, cause |-> f.num]
    BY <1>1, <2>1, DoneClears
  <2> QED
    BY <1>2, <2>1, <2>2, ClearedBase
<1> QED
  BY <1>3, <1>4

\* An opcode within the active call.
Inner(a) ==
    /\ Running /\ Quiet /\ at' = "run" /\ UNCHANGED callVars
    /\ a \in ActRec /\ acts' = WithAct(a) /\ a.trap = trap' /\ trap' \in Traps
    /\ counters' \in Seq(Int) /\ Len(counters') >= Len(counters)
    /\ hidden' \in Seq(PoolRec) /\ Len(hidden') = Len(hidden)
    /\ stack' \in Seq(Nat) /\ Len(stack') <= StackMax

LEMMA InnerBase ==
  ASSUME BaseInv, NEW a, Inner(a)
  PROVE  BaseInv'
<1>1. TypeInv /\ a \in ActRec
  BY DEF BaseInv, Inner
<1>2. /\ report' = NoReport /\ UNCHANGED <<todo, cond, frames, cap, gen, args, base>>
      /\ at' = "run" /\ acts' = WithAct(a) /\ Running
  BY DEF Inner, Quiet, callVars
<1>3. /\ acts' \in Seq(ActRec) /\ Len(acts') = Len(acts) /\ acts'[Len(acts)] = a
      /\ \A k \in 1 .. Len(frames) : acts'[k] = acts[k]
  BY <1>1, <1>2, WithActIs
<1>4. TypeInv'
  <2>1. Len(counters') >= CounterInit
    BY <1>1, ConstantsPositive DEF Inner, TypeInv
  <2>2. todo' = <<>>
    BY <1>1, <1>2 DEF TypeInv, Running
  <2> QED
    BY <1>1, <1>2, <1>3, <2>1, <2>2 DEF TypeInv, Inner
<1>5. ArgsCurrent'
  BY <1>2 DEF BaseInv, ArgsCurrent
<1>6. TrapsOwned'
  BY <1>1, <1>2, <1>3, ActTyped DEF BaseInv, TrapsOwned, Act, Inner
<1>7. CondInv'
  BY <1>2 DEF BaseInv, CondInv, NamedForCause, NoReport, Running
<1> QED
  BY <1>4, <1>5, <1>6, <1>7 DEF BaseInv

\* The VM outside its dispatch loop.
LEMMA OutsideBase ==
  ASSUME BaseInv, Obtain \/ Again \/ UNCHANGED vars
  PROVE  BaseInv'
<1>1. CASE Obtain
  <2>1. CASE Fail(Storage)
    BY <1>1, <2>1, FailureNumbers, FailBase DEF Obtain
  <2>2. CASE ~Fail(Storage)
    <3>1. /\ held' = held \cup {Head(todo)} /\ todo' = Tail(todo)
          /\ at' = IF Len(todo) = 1 THEN "run" ELSE "setup"
          /\ report' = NoReport /\ at = "setup" /\ UNCHANGED <<cond, programVars>>
      BY <1>1, <2>2 DEF Obtain
    <3>2. todo \in Seq(Range(Plan)) /\ todo # <<>>
      BY <3>1 DEF BaseInv, TypeInv
    <3>3. /\ Head(todo) \in Range(Plan) /\ Tail(todo) \in Seq(Range(Plan))
          /\ Len(Tail(todo)) = Len(todo) - 1 /\ Len(todo) \in Nat
      BY <3>2, HeadTailProperties
    <3>4. todo' = <<>> <=> at' # "setup"
      <4>1. Tail(todo) = <<>> <=> Len(todo) = 1
        BY <3>3, EmptySeq
      <4> QED
        BY <3>1, <4>1
    <3>5. TypeInv'
      BY <3>1, <3>3, <3>4 DEF BaseInv, TypeInv, programVars, callVars
    <3>6. ArgsCurrent' /\ TrapsOwned' /\ CondInv'
      BY <3>1 DEF BaseInv, ArgsCurrent, TrapsOwned, CondInv, NamedForCause,
                  NoReport, Act, programVars, callVars
    <3> QED
      BY <3>5, <3>6 DEF BaseInv
  <2> QED
    BY <2>1, <2>2
<1>2. CASE Again
  <2>1. /\ at' = "setup" /\ todo' = Plan /\ cond' = Handled(cond) /\ report' = NoReport
        /\ UNCHANGED <<held, programVars>>
    BY <1>2 DEF Again
  <2>2. Plan \in Seq(Range(Plan)) /\ Plan # <<>>
    BY DEF Plan, Range
  <2>3. Handled(cond) \in CondRec /\ ~Handled(cond).fresh
    BY DEF BaseInv, TypeInv, Handled, CondRec
  <2>4. TypeInv'
    BY <2>1, <2>2, <2>3 DEF BaseInv, TypeInv, programVars, callVars
  <2>5. ArgsCurrent' /\ TrapsOwned' /\ CondInv'
    BY <2>1, <2>3 DEF BaseInv, ArgsCurrent, TrapsOwned, CondInv, NamedForCause,
                      NoReport, Act, programVars, callVars
  <2> QED
    BY <2>4, <2>5 DEF BaseInv
<1>3. CASE UNCHANGED vars
  BY <1>3 DEF vars, BaseInv, TypeInv, ArgsCurrent, TrapsOwned, CondInv, NamedForCause,
              Act
<1> QED
  BY <1>1, <1>2, <1>3

-----------------------------------------------------------------------------
(* The opcodes: each fails, or does its work within the active call, or    *)
(* enters or leaves a call.                                                *)

LEMMA RunningIs ==
  ASSUME BaseInv, Running
  PROVE  /\ TypeInv /\ at # "ended" /\ Internal \in Failure /\ Storage \in Failure
         /\ stack \in Seq(Nat) /\ Len(stack) \in Nat /\ counters \in Seq(Int)
         /\ Len(counters) >= CounterInit /\ Len(counters) \in Nat /\ Len(counters) > 0
         /\ hidden \in Seq(PoolRec) /\ Len(stack) <= StackMax /\ trap \in Traps
         /\ trap = Act.trap
<1>1. TypeInv /\ trap = Act.trap /\ at # "ended"
  BY DEF BaseInv, TrapsOwned, Running
<1>2. /\ stack \in Seq(Nat) /\ Len(stack) <= StackMax /\ trap \in Traps /\ hidden \in Seq(PoolRec)
      /\ counters \in Seq(Int) /\ Len(counters) >= CounterInit
  BY <1>1 DEF TypeInv
<1>3. Len(stack) \in Nat /\ Len(counters) \in Nat /\ Len(counters) > 0
  BY <1>2, ConstantsPositive
<1> QED
  BY <1>1, <1>2, <1>3, FailureNumbers

LEMMA FrameTraps ==
  ASSUME BaseInv
  PROVE  \A k \in 1 .. Len(frames) : frames[k].trap = acts[k].trap
<1>1. DOMAIN frames = 1 .. Len(frames)
  BY ActTyped DEF BaseInv
<1> QED
  BY <1>1 DEF BaseInv, TrapsOwned

\* What is left of the operands once one is used.
LEMMA FrontOf ==
  ASSUME NEW S, NEW s \in Seq(S), s # <<>>
  PROVE  /\ Front(s) \in Seq(S) /\ Len(Front(s)) = Len(s) - 1 /\ Len(s) - 1 \in Nat
         /\ \A i \in 1 .. Len(s) - 1 : Front(s)[i] = s[i]
<1> DEFINE n == Len(s) - 1
<1>1. n \in 0 .. Len(s) /\ n \in Nat
  BY EmptySeq
<1>2. Front(s) = SubSeq(s, 1, n)
  BY DEF Front
<1> HIDE DEF n
<1>3. /\ SubSeq(s, 1, n) \in Seq(S) /\ Len(SubSeq(s, 1, n)) = n
      /\ \A i \in 1 .. n : SubSeq(s, 1, n)[i] = s[i]
  BY <1>1, PrefixOf
<1> QED
  BY <1>1, <1>2, <1>3 DEF n

\* Operands come and go on behalf of the active call.
Operands(a) ==
    \/ stack' = stack /\ a.wants = Act.wants
    \/ stack' = Append(stack, Len(acts)) /\ a.wants = Act.wants + 1
    \/ /\ stack # <<>> /\ stack' = Front(stack)
       /\ Act.wants > 0 /\ a.wants = Act.wants - 1

\* Loop l stands at nesting depth j with its count told anew, or told by as
\* much less as the loop there had left.
CountTold(l, j) ==
    l.kind = "count" =>
        /\ Cell(j) <= Len(counters')
        /\ \/ counters'[Cell(j)] = l.left
           \/ /\ j < Len(Loops) /\ Loops[j + 1].kind = "count" /\ Cell(j) <= Len(counters)
              /\ counters'[Cell(j)] - counters[Cell(j)] = l.left - Loops[j + 1].left

OwnPool == ~ForShared /\ frames # <<>> => Last(frames).isolated

\* A DO TO may be opened at depth j.
NewNames(j) == j = Len(Loops) /\ OwnPool /\ (ForDeep \/ NamesFree)

\* The variables of a DO TO at depth j, before and after the opcode.
HiddenAt(j) == hidden[Len(hidden)][HiddenIx(j)]
HiddenNow(j) == hidden'[Len(hidden)][HiddenIx(j)]

ForTold(l, j) ==
    l.kind \in ToKinds =>
        \/ /\ NewNames(j)
           /\ HiddenNow(j).bound = l.bound
           /\ l.kind = "for" => HiddenNow(j).left = l.left
        \/ /\ j < Len(Loops) /\ Loops[j + 1].kind = l.kind
           /\ HiddenNow(j).bound = HiddenAt(j).bound /\ l.bound = Loops[j + 1].bound
           /\ l.kind = "for" =>
                HiddenNow(j).left - HiddenAt(j).left = l.left - Loops[j + 1].left

\* The active call keeps its outer j loops, and may be in one more.
LoopWork(a, j) ==
    /\ Len(a.loops) \in {j, j + 1}
    /\ \A i \in 1 .. j : a.loops[i] = Loops[i]
    /\ \A i \in 1 .. Len(counters) : i <= base + j => counters'[i] = counters[i]
    /\ \A p \in 1 .. Len(hidden), d \in 0 .. DoNames - 1 :
          (p = Len(hidden) /\ d = HiddenIx(j)) \/ hidden'[p][d] = hidden[p][d]
    /\ \/ UNCHANGED hidden
       \/ NewNames(j)
       \/ j < Len(Loops) /\ Loops[j + 1].kind \in ToKinds
    /\ Len(a.loops) = j + 1 => CountTold(a.loops[j + 1], j) /\ ForTold(a.loops[j + 1], j)

\* The array of counters is the one it was, or another one is held.
CountersHeld ==
    \/ held' = held /\ Len(counters') = Len(counters)
    \/ held' = (held \ {CountersOf(Len(counters))}) \cup {CountersOf(Len(counters'))}

\* All that an opcode does that neither fails nor calls nor returns.
Opcode(a) ==
    Inner(a) /\ Operands(a) /\ CountersHeld /\ \E j \in 0 .. Len(Loops) : LoopWork(a, j)

LEMMA LoopsStay ==
  ASSUME TypeInv, NEW a, a.loops = Loops, UNCHANGED <<counters, hidden>>
  PROVE  \E j \in 0 .. Len(Loops) : LoopWork(a, j)
<1> DEFINE n == Len(Loops)
<1>1. n \in Nat /\ n \in 0 .. n
  BY ActTyped
<1>2. LoopWork(a, n)
  BY <1>1 DEF LoopWork
<1> QED
  BY <1>1, <1>2

LEMMA PushStep ==
  ASSUME BaseInv, Push
  PROVE  BaseInv' /\ (Cleared \/ \E a : Opcode(a))
<1>1. Running
  BY DEF Push
<1>2. CASE Len(stack) >= StackMax
  BY <1>1, <1>2, RunningIs, FailBase DEF Push
<1>3. CASE ~(Len(stack) >= StackMax)
  <2> DEFINE a == [Act EXCEPT !.wants = @ + 1]
  <2>1. /\ Quiet /\ at' = "run" /\ stack' = Append(stack, Len(acts)) /\ acts' = WithAct(a)
        /\ UNCHANGED <<held, callVars, counters, hidden, trap>>
    BY <1>3 DEF Push
  <2>2. a \in ActRec /\ a.trap = Act.trap /\ a.wants = Act.wants + 1 /\ a.loops = Loops
    <3>1. Act \in ActRec
      BY <1>1, RunningIs, ActTyped
    <3> QED
      BY <3>1 DEF ActRec, Loops
  <2>3. stack' \in Seq(Nat) /\ Len(stack') <= StackMax
    BY <1>1, <1>3, <2>1, RunningIs, ActTyped, ConstantsPositive
  <2> HIDE DEF a
  <2>4. Inner(a)
    BY <1>1, <2>1, <2>2, <2>3, RunningIs DEF Inner
  <2>5. Opcode(a)
    BY <1>1, <2>1, <2>2, <2>4, RunningIs, LoopsStay DEF Opcode, Operands, CountersHeld
  <2> QED
    BY <2>4, <2>5, InnerBase
<1> QED
  BY <1>2, <1>3

LEMMA PopStep ==
  ASSUME BaseInv, Pop
  PROVE  BaseInv' /\ (Cleared \/ \E a : Opcode(a))
<1>1. Running /\ Act.wants > 0
  BY DEF Pop
<1>2. CASE stack = <<>>
  BY <1>1, <1>2, RunningIs, FailBase DEF Pop
<1>3. CASE stack # <<>>
  <2> DEFINE a == [Act EXCEPT !.wants = @ - 1]
  <2>1. /\ Quiet /\ at' = "run" /\ stack' = Front(stack) /\ acts' = WithAct(a)
        /\ UNCHANGED <<held, callVars, counters, hidden, trap>>
    BY <1>3 DEF Pop
  <2>2. Act \in ActRec /\ Act.wants - 1 \in Nat
    BY <1>1, RunningIs, ActTyped
  <2>3. a \in ActRec /\ a.trap = Act.trap /\ a.wants = Act.wants - 1 /\ a.loops = Loops
    BY <2>2 DEF ActRec, Loops
  <2>4. stack' \in Seq(Nat) /\ Len(stack') <= StackMax
    BY <1>1, <1>3, <2>1, RunningIs, FrontOf, ConstantsPositive
  <2> HIDE DEF a
  <2>5. Inner(a)
    BY <1>1, <2>1, <2>3, <2>4, RunningIs DEF Inner
  <2>6. Opcode(a)
    BY <1>1, <1>3, <2>1, <2>3, <2>5, RunningIs, LoopsStay DEF Opcode, Operands, CountersHeld
  <2> QED
    BY <2>5, <2>6, InnerBase
<1> QED
  BY <1>2, <1>3

LEMMA SetTrapStep ==
  ASSUME BaseInv, NEW c \in Conds, NEW state \in {"off", "on", "nolabel"}, SetTrap(c, state)
  PROVE  BaseInv' /\ \E a : Opcode(a)
<1> DEFINE a == [Act EXCEPT !.trap = trap']
<1>1. /\ Quiet /\ at' = "run" /\ acts' = WithAct(a) /\ Running
      /\ UNCHANGED <<held, callVars, counters, hidden, stack>>
  BY DEF SetTrap
<1>2. trap' \in Traps
  BY <1>1, RunningIs DEF SetTrap, Traps
<1>3. a \in ActRec /\ a.trap = trap' /\ a.wants = Act.wants /\ a.loops = Loops
  <2>1. Act \in ActRec
    BY <1>1, RunningIs, ActTyped
  <2> QED
    BY <1>2, <2>1 DEF ActRec, Loops
<1> HIDE DEF a
<1>4. Inner(a)
  BY <1>1, <1>2, <1>3, RunningIs DEF Inner
<1>5. Opcode(a)
  BY <1>1, <1>3, <1>4, RunningIs, LoopsStay DEF Opcode, Operands, CountersHeld
<1> QED
  BY <1>4, <1>5, InnerBase

LEMMA EnteredIs ==
  ASSUME TypeInv, NEW kind \in LoopKinds, NEW b \in Nat, NEW n \in Int
  PROVE  /\ Entered(kind, b, n) \in ActRec /\ Entered(kind, b, n).trap = Act.trap
         /\ Entered(kind, b, n).wants = Act.wants
         /\ \/ Entered(kind, b, n).loops = Loops
            \/ Entered(kind, b, n).loops =
                 Append(Loops, [kind |-> kind, bound |-> b, left |-> n])
<1> DEFINE l == Append(Loops, [kind |-> kind, bound |-> b, left |-> n])
<1>1. Act \in ActRec /\ l \in Seq(LoopRec)
  BY ActTyped DEF LoopRec
<1>2. Entered(kind, b, n) = Act \/ Entered(kind, b, n) = [Act EXCEPT !.loops = l]
  BY DEF Entered, Loops
<1> HIDE DEF l
<1>3. /\ [Act EXCEPT !.loops = l] \in ActRec /\ [Act EXCEPT !.loops = l].trap = Act.trap
      /\ [Act EXCEPT !.loops = l].loops = l /\ [Act EXCEPT !.loops = l].wants = Act.wants
  BY <1>1 DEF ActRec
<1> QED
  BY <1>1, <1>2, <1>3 DEF Loops, l

\* A loop is opened at the depth the active call is at.
LEMMA LoopOpened ==
  ASSUME TypeInv, NEW kind \in LoopKinds, NEW b \in Nat, NEW n \in Int, NEW a,
         a.loops = Entered(kind, b, n).loops,
         \A i \in 1 .. Len(counters) : i # Cell(Len(Loops)) => counters'[i] = counters[i],
         \A p \in 1 .. Len(hidden), d \in 0 .. DoNames - 1 :
            (p = Len(hidden) /\ d = HiddenIx(Len(Loops))) \/ hidden'[p][d] = hidden[p][d],
         kind = "count" => /\ Cell(Len(Loops)) <= Len(counters')
                           /\ counters'[Cell(Len(Loops))] = n,
         kind \in ToKinds => /\ NewNames(Len(Loops)) /\ HiddenNow(Len(Loops)).bound = b
                             /\ kind = "for" => HiddenNow(Len(Loops)).left = n,
         UNCHANGED hidden \/ NewNames(Len(Loops))
  PROVE  \E j \in 0 .. Len(Loops) : LoopWork(a, j)
<1> DEFINE j == Len(Loops)
           l == [kind |-> kind, bound |-> b, left |-> n]
<1>1. /\ Loops \in Seq(LoopRec) /\ j \in Nat /\ j \in 0 .. j /\ l \in LoopRec
      /\ l.kind = kind /\ l.bound = b /\ l.left = n
  BY ActTyped DEF LoopRec
<1>2. a.loops = Loops \/ a.loops = Append(Loops, l)
  BY EnteredIs
<1>3. base \in Nat
  BY DEF TypeInv
<1>4. \A i \in 1 .. Len(counters) : i <= base + j => counters'[i] = counters[i]
  BY <1>1, <1>3 DEF Cell
<1> HIDE DEF l
<1>5. CountTold(l, j) /\ ForTold(l, j)
  BY <1>1 DEF CountTold, ForTold
<1>6. /\ Len(a.loops) \in {j, j + 1} /\ \A i \in 1 .. j : a.loops[i] = Loops[i]
      /\ Len(a.loops) = j + 1 => a.loops[j + 1] = l
  BY <1>1, <1>2
<1>7. LoopWork(a, j)
  BY <1>1, <1>3, <1>4, <1>5, <1>6 DEF LoopWork
<1> QED
  BY <1>1, <1>7

LEMMA OpenCountStep ==
  ASSUME BaseInv, OpenCount
  PROVE  BaseInv' /\ (Cleared \/ \E a : Opcode(a))
<1>1. Running /\ Act.wants = 1 /\ Len(Loops) < MaxDepth
  BY DEF OpenCount
<1>2. ASSUME NEW f \in Failure, Fail(f) PROVE BaseInv' /\ Cleared
  BY <1>1, <1>2, RunningIs, FailBase
<1>3. CASE stack = <<>> \/ Fail(Storage)
  BY <1>1, <1>2, <1>3, RunningIs DEF OpenCount
<1>4. CASE stack # <<>> /\ ~Fail(Storage)
  <2> DEFINE d == Len(Loops)
             r == Room(base + d)
  <2>1. PICK n \in Counts : /\ Quiet /\ at' = "run"
                          /\ counters' = [r EXCEPT ![Cell(d)] = n]
                          /\ stack' = Front(stack)
                          /\ held' = (held \ {CountersOf(Len(counters))})
                                     \cup {CountersOf(Len(counters'))}
                          /\ acts' = WithAct([Entered("count", 0, n) EXCEPT !.wants = 0])
                          /\ UNCHANGED <<callVars, hidden, trap>>
    BY <1>4 DEF OpenCount
  <2>2. d \in Nat /\ base \in Nat /\ n \in Nat
    BY <1>1, RunningIs, ActTyped, VmAssumption DEF TypeInv
  <2> HIDE DEF d
  <2>3. /\ r \in Seq(Int) /\ Len(r) > base + d /\ Len(r) >= Len(counters)
        /\ \A i \in 1 .. Len(counters) : r[i] = counters[i]
    <3>1. base + d \in Nat
      BY <2>2
    <3> QED
      BY <1>1, <3>1, RunningIs, RoomEnough
  <2> HIDE DEF r
  <2>4. Cell(d) \in 1 .. Len(r) /\ Cell(d) = base + d + 1
    BY <2>2, <2>3 DEF Cell
  <2>5. /\ counters' \in Seq(Int) /\ Len(counters') = Len(r)
        /\ \A i \in 1 .. Len(r) : counters'[i] = IF i = Cell(d) THEN n ELSE r[i]
    BY <2>1, <2>2, <2>3, <2>4, ExceptSeq
  <2> DEFINE e == Entered("count", 0, n)
             a == [e EXCEPT !.wants = 0]
  <2>6. a \in ActRec /\ a.trap = Act.trap /\ a.wants = 0 /\ a.loops = e.loops
    <3>1. TypeInv /\ n \in Int /\ "count" \in LoopKinds /\ 0 \in Nat
      BY <1>1, <2>2, RunningIs DEF LoopKinds
    <3>2. e \in ActRec /\ e.trap = Act.trap
      BY <3>1, EnteredIs
    <3> HIDE DEF e
    <3> QED
      BY <3>2 DEF ActRec
  <2>7. stack' \in Seq(Nat) /\ Len(stack') <= StackMax
    BY <1>1, <1>4, <2>1, RunningIs, FrontOf, ConstantsPositive
  <2> HIDE DEF a, e
  <2>8. Len(counters') >= Len(counters)
    BY <2>3, <2>5
  <2>9. Inner(a)
    BY <1>1, <2>1, <2>5, <2>6, <2>7, <2>8, RunningIs DEF Inner, a, e
  <2>10. \A i \in 1 .. Len(counters) : i # Cell(d) => counters'[i] = counters[i]
    <3>1. \A i \in 1 .. Len(counters) : i \in 1 .. Len(r)
      BY <1>1, <2>3, RunningIs
    <3> QED
      BY <2>3, <2>5, <3>1
  <2>11. Cell(d) <= Len(counters') /\ counters'[Cell(d)] = n
    BY <2>4, <2>5
  <2>12. \E j \in 0 .. Len(Loops) : LoopWork(a, j)
    <3>1. TypeInv /\ n \in Int /\ "count" \in LoopKinds /\ 0 \in Nat
      BY <1>1, <2>2, RunningIs DEF LoopKinds
    <3>2. a.loops = Entered("count", 0, n).loops
      BY <2>6 DEF e
    <3>3. \A p \in 1 .. Len(hidden), x \in 0 .. DoNames - 1 :
            (p = Len(hidden) /\ x = HiddenIx(Len(Loops))) \/ hidden'[p][x] = hidden[p][x]
      BY <2>1
    <3>4. "count" \notin ToKinds
      BY DEF ToKinds
    <3> QED
      BY <1>1, <2>1, <2>10, <2>11, <3>1, <3>2, <3>3, <3>4, LoopOpened DEF d
  <2>13. Operands(a) /\ CountersHeld
    BY <1>1, <1>4, <2>1, <2>6 DEF Operands, CountersHeld
  <2> QED
    BY <2>9, <2>12, <2>13, InnerBase DEF Opcode
<1> QED
  BY <1>3, <1>4

\* An opcode that leaves the operands and the traps.
LEMMA OpcodeOf ==
  ASSUME BaseInv, Running, Quiet, at' = "run", UNCHANGED <<held, callVars, stack, trap>>,
         NEW a \in ActRec, acts' = WithAct(a), a.trap = Act.trap, a.wants = Act.wants,
         counters' \in Seq(Int), Len(counters) \in Nat, Len(counters') = Len(counters),
         hidden' \in Seq(PoolRec), Len(hidden') = Len(hidden),
         \E j \in 0 .. Len(Loops) : LoopWork(a, j)
  PROVE  BaseInv' /\ \E b : Opcode(b)
<1>1. Inner(a)
  BY RunningIs DEF Inner
<1>2. Opcode(a)
  BY <1>1 DEF Opcode, Operands, CountersHeld
<1> QED
  BY <1>1, <1>2, InnerBase

\* The variables of a DO TO are set.
LEMMA HiddenSet ==
  ASSUME TypeInv, NEW j \in Nat, NEW h \in HiddenRec,
         hidden' = [hidden EXCEPT ![Len(hidden)][HiddenIx(j)] = h]
  PROVE  /\ hidden' \in Seq(PoolRec) /\ Len(hidden') = Len(hidden)
         /\ HiddenNow(j) = h
         /\ \A p \in 1 .. Len(hidden), d \in 0 .. DoNames - 1 :
              (p = Len(hidden) /\ d = HiddenIx(j)) \/ hidden'[p][d] = hidden[p][d]
<1> DEFINE top == Len(hidden)
           pool == [hidden[top] EXCEPT ![HiddenIx(j)] = h]
<1>1. hidden \in Seq(PoolRec) /\ top \in 1 .. top /\ hidden[top] \in PoolRec
  <2>1. Len(frames) \in Nat /\ Own(frames, Len(frames)) \in Nat
    BY ActTyped, OwnNat
  <2> QED
    BY <2>1 DEF TypeInv
<1>2. HiddenIx(j) \in 0 .. DoNames - 1
  BY ConstantsPositive DEF HiddenIx
<1>3. /\ pool \in PoolRec /\ pool[HiddenIx(j)] = h
      /\ \A d \in 0 .. DoNames - 1 : d = HiddenIx(j) \/ pool[d] = hidden[top][d]
  BY <1>1, <1>2 DEF PoolRec
<1>4. hidden' = [hidden EXCEPT ![top] = pool]
  OBVIOUS
<1> HIDE DEF pool
<1>5. /\ hidden' \in Seq(PoolRec) /\ Len(hidden') = top
      /\ \A p \in 1 .. top : hidden'[p] = IF p = top THEN pool ELSE hidden[p]
  BY <1>1, <1>3, <1>4, ExceptSeq
<1>6. HiddenNow(j) = h
  BY <1>1, <1>3, <1>5 DEF HiddenNow
<1> QED
  BY <1>1, <1>3, <1>5, <1>6

LEMMA HiddenTyped ==
  ASSUME TypeInv, NEW j \in Nat
  PROVE  HiddenAt(j) \in HiddenRec /\ HiddenAt(j).bound \in Nat /\ HiddenAt(j).left \in Int
<1>1. hidden[Len(hidden)] \in PoolRec
  <2>1. Len(frames) \in Nat /\ Own(frames, Len(frames)) \in Nat
    BY ActTyped, OwnNat
  <2>2. hidden \in Seq(PoolRec) /\ Len(hidden) \in 1 .. Len(hidden)
    BY <2>1 DEF TypeInv
  <2> QED
    BY <2>2
<1>2. HiddenIx(j) \in 0 .. DoNames - 1
  BY ConstantsPositive DEF HiddenIx
<1>3. HiddenAt(j) \in HiddenRec
  BY <1>1, <1>2 DEF HiddenAt, PoolRec
<1> QED
  BY <1>3 DEF HiddenRec

LEMMA OpenToStep ==
  ASSUME BaseInv, OpenTo
  PROVE  BaseInv' /\ \E a : Opcode(a)
<1>1. PICK kind \in Kinds \cap ToKinds, b \in Bounds, n \in Counts \cup {0} :
         /\ Running /\ Quiet /\ at' = "run" /\ OwnPool /\ (ForDeep \/ NamesFree)
         /\ hidden' = [hidden EXCEPT ![Len(hidden)][HiddenIx(Len(Loops))] =
                          [bound |-> b, left |-> IF kind = "for" THEN n ELSE @.left]]
         /\ acts' = WithAct(Entered(kind, b, n))
         /\ UNCHANGED <<held, callVars, counters, stack, trap>>
  BY DEF OpenTo, OwnPool
<1>2. /\ TypeInv /\ n \in Int /\ b \in Nat /\ kind \in LoopKinds /\ kind \in ToKinds
      /\ Len(Loops) \in Nat /\ counters \in Seq(Int) /\ Len(counters) \in Nat
  <2>1. kind \in LoopKinds /\ kind \in ToKinds
    BY DEF LoopKinds, ToKinds
  <2>2. n \in Int /\ b \in Nat
    BY VmAssumption
  <2> QED
    BY <1>1, <2>1, <2>2, RunningIs, ActTyped
<1> DEFINE a == Entered(kind, b, n)
           h == [bound |-> b, left |-> IF kind = "for" THEN n ELSE HiddenAt(Len(Loops)).left]
<1>3. a \in ActRec /\ a.trap = Act.trap /\ a.wants = Act.wants
  BY <1>2, EnteredIs
<1>4. h \in HiddenRec /\ h.bound = b /\ (kind = "for" => h.left = n)
  BY <1>2, HiddenTyped DEF HiddenRec
<1>5. hidden' = [hidden EXCEPT ![Len(hidden)][HiddenIx(Len(Loops))] = h]
  BY <1>1 DEF HiddenAt
<1> HIDE DEF h
<1>6. /\ hidden' \in Seq(PoolRec) /\ Len(hidden') = Len(hidden)
      /\ HiddenNow(Len(Loops)) = h
      /\ \A p \in 1 .. Len(hidden), d \in 0 .. DoNames - 1 :
            (p = Len(hidden) /\ d = HiddenIx(Len(Loops))) \/ hidden'[p][d] = hidden[p][d]
  BY <1>2, <1>4, <1>5, HiddenSet
<1>7. NewNames(Len(Loops)) /\ HiddenNow(Len(Loops)).bound = b
      /\ (kind = "for" => HiddenNow(Len(Loops)).left = n)
  BY <1>1, <1>4, <1>6 DEF NewNames
<1>8. \A i \in 1 .. Len(counters) : i # Cell(Len(Loops)) => counters'[i] = counters[i]
  BY <1>1
<1>9. \E j \in 0 .. Len(Loops) : LoopWork(a, j)
  <2>1. kind # "count"
    BY <1>2 DEF ToKinds
  <2> QED
    BY <1>2, <1>6, <1>7, <1>8, <2>1, LoopOpened
<1>10. Len(counters') = Len(counters) /\ counters' \in Seq(Int) /\ acts' = WithAct(a)
  BY <1>1, <1>2
<1> HIDE DEF a
<1> QED
  BY <1>1, <1>2, <1>3, <1>6, <1>9, <1>10, OpcodeOf

LEMMA OpenPlainStep ==
  ASSUME BaseInv, OpenPlain
  PROVE  BaseInv' /\ \E a : Opcode(a)
<1>1. /\ Running /\ Quiet /\ at' = "run"
      /\ acts' = WithAct(Entered("plain", 0, 0))
      /\ UNCHANGED <<held, callVars, counters, hidden, stack, trap>>
  BY DEF OpenPlain
<1>2. TypeInv /\ 0 \in Int /\ 0 \in Nat /\ "plain" \in LoopKinds /\ "plain" \notin ToKinds
  BY <1>1, RunningIs DEF LoopKinds, ToKinds
<1> DEFINE a == Entered("plain", 0, 0)
<1>3. a \in ActRec /\ a.trap = Act.trap /\ a.wants = Act.wants
  BY <1>2, EnteredIs
<1>4. \E j \in 0 .. Len(Loops) : LoopWork(a, j)
  BY <1>1, <1>2, LoopOpened
<1>5. /\ acts' = WithAct(a) /\ counters' \in Seq(Int) /\ Len(counters') = Len(counters)
      /\ hidden' \in Seq(PoolRec) /\ Len(hidden') = Len(hidden) /\ Len(counters) \in Nat
  BY <1>1, RunningIs
<1> HIDE DEF a
<1> QED
  BY <1>1, <1>3, <1>4, <1>5, OpcodeOf

LEMMA LoopsCut ==
  ASSUME TypeInv, NEW j \in 1 .. Len(Loops)
  PROVE  /\ [Act EXCEPT !.loops = SubSeq(@, 1, j - 1)] \in ActRec
         /\ [Act EXCEPT !.loops = SubSeq(@, 1, j - 1)].trap = Act.trap
         /\ [Act EXCEPT !.loops = SubSeq(@, 1, j - 1)].wants = Act.wants
         /\ Len([Act EXCEPT !.loops = SubSeq(@, 1, j - 1)].loops) = j - 1
         /\ \A i \in 1 .. j - 1 :
              [Act EXCEPT !.loops = SubSeq(@, 1, j - 1)].loops[i] = Loops[i]
<1> DEFINE n == j - 1
           l == SubSeq(Loops, 1, n)
<1>1. /\ Act \in ActRec /\ Loops \in Seq(LoopRec) /\ n \in 0 .. Len(Loops)
      /\ Act.loops = Loops
  BY ActTyped DEF Loops
<1> HIDE DEF n
<1>2. l \in Seq(LoopRec) /\ Len(l) = n /\ \A i \in 1 .. n : l[i] = Loops[i]
  BY <1>1, PrefixOf
<1>3. [Act EXCEPT !.loops = SubSeq(@, 1, n)] = [Act EXCEPT !.loops = l]
  BY <1>1
<1> HIDE DEF l
<1>4. /\ [Act EXCEPT !.loops = l] \in ActRec /\ [Act EXCEPT !.loops = l].trap = Act.trap
      /\ [Act EXCEPT !.loops = l].loops = l /\ [Act EXCEPT !.loops = l].wants = Act.wants
  BY <1>1, <1>2 DEF ActRec
<1> QED
  BY <1>2, <1>3, <1>4 DEF n

\* A loop goes on with n less of its count.
LEMMA LoopGoesOn ==
  ASSUME TypeInv, NEW j \in 1 .. Len(Loops), NEW n \in Int
  PROVE  /\ Iterated(j, n, TRUE) \in ActRec
         /\ Iterated(j, n, TRUE).trap = Act.trap /\ Iterated(j, n, TRUE).wants = Act.wants
         /\ Len(Iterated(j, n, TRUE).loops) = j
         /\ \A i \in 1 .. j - 1 : Iterated(j, n, TRUE).loops[i] = Loops[i]
         /\ Iterated(j, n, TRUE).loops[j].kind = Loops[j].kind
         /\ Iterated(j, n, TRUE).loops[j].bound = Loops[j].bound
         /\ Iterated(j, n, TRUE).loops[j].left = Loops[j].left - n
<1> DEFINE s == SubSeq(Loops, 1, j)
           e == [Loops[j] EXCEPT !.left = @ - n]
           l == [s EXCEPT ![j] = e]
<1>1. /\ Act \in ActRec /\ Loops \in Seq(LoopRec) /\ j \in 0 .. Len(Loops)
      /\ Act.loops = Loops /\ Loops[j] \in LoopRec /\ j \in 1 .. j /\ j \in Nat
  BY ActTyped DEF Loops
<1>2. s \in Seq(LoopRec) /\ Len(s) = j /\ \A i \in 1 .. j : s[i] = Loops[i]
  BY <1>1, PrefixOf
<1>3. e \in LoopRec /\ e.kind = Loops[j].kind /\ e.bound = Loops[j].bound /\ e.left = Loops[j].left - n
  <2>1. Loops[j] \in LoopRec
    BY <1>1
  <2> QED
    BY <2>1 DEF LoopRec
<1>4. Iterated(j, n, TRUE) = [Act EXCEPT !.loops = l]
  <2>1. [s EXCEPT ![j].left = @ - n] = [s EXCEPT ![j] = e]
    BY <1>1, <1>2
  <2> QED
    BY <1>1, <2>1 DEF Iterated
<1> HIDE DEF s, e
<1>5. /\ l \in Seq(LoopRec) /\ Len(l) = j
      /\ \A i \in 1 .. j : l[i] = IF i = j THEN e ELSE s[i]
  BY <1>1, <1>2, <1>3, ExceptSeq
<1> HIDE DEF l
<1>6. /\ [Act EXCEPT !.loops = l] \in ActRec /\ [Act EXCEPT !.loops = l].trap = Act.trap
      /\ [Act EXCEPT !.loops = l].loops = l /\ [Act EXCEPT !.loops = l].wants = Act.wants
  BY <1>1, <1>5 DEF ActRec
<1>7. \A i \in 1 .. j - 1 : l[i] = Loops[i]
  BY <1>1, <1>2, <1>5
<1> DEFINE a == [Act EXCEPT !.loops = l]
<1>8. a \in ActRec /\ a.trap = Act.trap /\ a.wants = Act.wants /\ a.loops = l
  BY <1>6
<1>9. Iterated(j, n, TRUE) = a
  BY <1>4
<1> HIDE DEF a
<1>10. l[j].kind = Loops[j].kind /\ l[j].bound = Loops[j].bound /\ l[j].left = Loops[j].left - n
  BY <1>1, <1>3, <1>5
<1> QED
  BY <1>5, <1>7, <1>8, <1>9, <1>10

\* After an iteration the loop is left, or goes on with n less of its count.
LEMMA LoopIterated ==
  ASSUME TypeInv, NEW j \in 1 .. Len(Loops), NEW n \in Int, NEW on \in BOOLEAN,
         \A i \in 1 .. Len(counters) : i < Cell(j - 1) => counters'[i] = counters[i],
         \A p \in 1 .. Len(hidden), d \in 0 .. DoNames - 1 :
            (p = Len(hidden) /\ d = HiddenIx(j - 1)) \/ hidden'[p][d] = hidden[p][d],
         on /\ Loops[j].kind = "count" =>
            /\ Cell(j - 1) <= Len(counters) /\ Cell(j - 1) <= Len(counters')
            /\ counters'[Cell(j - 1)] - counters[Cell(j - 1)] = -n,
         on /\ Loops[j].kind \in ToKinds =>
            /\ HiddenNow(j - 1).bound = HiddenAt(j - 1).bound
            /\ Loops[j].kind = "for" => HiddenNow(j - 1).left - HiddenAt(j - 1).left = -n,
         UNCHANGED hidden \/ Loops[j].kind \in ToKinds
  PROVE  /\ Iterated(j, n, on) \in ActRec
         /\ Iterated(j, n, on).trap = Act.trap /\ Iterated(j, n, on).wants = Act.wants
         /\ \E k \in 0 .. Len(Loops) : LoopWork(Iterated(j, n, on), k)
<1> DEFINE m == j - 1
           a == Iterated(j, n, on)
<1>1. /\ m \in 0 .. Len(Loops) /\ j = m + 1 /\ m \in Nat /\ Len(Loops) \in Nat
      /\ Loops[j] \in LoopRec /\ Loops[j].left \in Int /\ base \in Nat
  <2>1. Loops \in Seq(LoopRec) /\ base \in Nat
    BY ActTyped DEF TypeInv
  <2>2. Loops[j] \in LoopRec /\ Len(Loops) \in Nat /\ j \in Nat
    BY <2>1
  <2>3. m \in Nat /\ j = m + 1
    BY <2>2
  <2>4. m \in 0 .. Len(Loops)
    BY <2>2, <2>3
  <2>5. Loops[j].left \in Int
    BY <2>2 DEF LoopRec
  <2> HIDE DEF m
  <2> QED
    BY <2>1, <2>2, <2>3, <2>4, <2>5
<1>2. ASSUME NEW i \in 1 .. Len(counters), i <= base + m PROVE counters'[i] = counters[i]
  <2>1. Cell(j - 1) = base + m + 1
    BY DEF Cell
  <2>2. i < Cell(j - 1)
    BY <1>1, <1>2, <2>1
  <2> QED
    BY <2>2
<1>3. CASE on
  <2>1. /\ a \in ActRec /\ a.trap = Act.trap /\ a.wants = Act.wants
        /\ Len(a.loops) = j /\ \A i \in 1 .. j - 1 : a.loops[i] = Loops[i]
        /\ a.loops[j].kind = Loops[j].kind /\ a.loops[j].bound = Loops[j].bound
        /\ a.loops[j].left = Loops[j].left - n
    <3> DEFINE e == Iterated(j, n, TRUE)
    <3>1. a = e
      BY <1>3
    <3>2. /\ e \in ActRec /\ e.trap = Act.trap /\ e.wants = Act.wants
          /\ Len(e.loops) = j /\ \A i \in 1 .. j - 1 : e.loops[i] = Loops[i]
          /\ e.loops[j].kind = Loops[j].kind /\ e.loops[j].bound = Loops[j].bound
          /\ e.loops[j].left = Loops[j].left - n
      BY LoopGoesOn
    <3> HIDE DEF a, e
    <3> QED
      BY <3>1, <3>2
  <2> HIDE DEF a
  <2>2. /\ a.loops[m + 1].left - Loops[m + 1].left = -n
        /\ a.loops[m + 1].kind = Loops[m + 1].kind /\ a.loops[m + 1].bound = Loops[m + 1].bound
    BY <1>1, <2>1
  <2>3. /\ m < Len(Loops) /\ Cell(m) = Cell(j - 1) /\ HiddenIx(m) = HiddenIx(j - 1)
        /\ HiddenNow(m) = HiddenNow(j - 1) /\ HiddenAt(m) = HiddenAt(j - 1)
    BY <1>1
  <2>4. CountTold(a.loops[m + 1], m)
    BY <1>1, <1>3, <2>2, <2>3 DEF CountTold
  <2>5. ForTold(a.loops[m + 1], m)
    BY <1>1, <1>3, <2>2, <2>3 DEF ForTold
  <2>6. LoopWork(a, m)
    <3>1. Len(a.loops) = m + 1 /\ \A i \in 1 .. m : a.loops[i] = Loops[i]
      BY <1>1, <2>1
    <3>2. \A p \in 1 .. Len(hidden), d \in 0 .. DoNames - 1 :
             (p = Len(hidden) /\ d = HiddenIx(m)) \/ hidden'[p][d] = hidden[p][d]
      BY <2>3
    <3>3. UNCHANGED hidden \/ Loops[m + 1].kind \in ToKinds
      BY <1>1
    <3> QED
      BY <1>2, <2>3, <2>4, <2>5, <3>1, <3>2, <3>3 DEF LoopWork
  <2>7. \E k \in 0 .. Len(Loops) : LoopWork(a, k)
    BY <1>1, <2>6
  <2> QED
    BY <2>1, <2>7 DEF a
<1>4. CASE ~on
  <2> DEFINE cut == [Act EXCEPT !.loops = SubSeq(@, 1, j - 1)]
  <2>1. a = cut
    BY <1>4 DEF Iterated, Loops
  <2> HIDE DEF a
  <2>2. /\ a \in ActRec /\ a.trap = Act.trap /\ a.wants = Act.wants
        /\ Len(a.loops) = j - 1 /\ \A i \in 1 .. j - 1 : a.loops[i] = Loops[i]
    <3>1. /\ cut \in ActRec /\ cut.trap = Act.trap /\ cut.wants = Act.wants
          /\ Len(cut.loops) = j - 1 /\ \A i \in 1 .. j - 1 : cut.loops[i] = Loops[i]
      BY LoopsCut
    <3> HIDE DEF cut
    <3> QED
      BY <2>1, <3>1
  <2>3. LoopWork(a, m)
    <3>1. UNCHANGED hidden \/ (m < Len(Loops) /\ Loops[m + 1].kind \in ToKinds)
      BY <1>1
    <3> QED
      BY <1>1, <1>2, <2>2, <3>1 DEF LoopWork
  <2> QED
    BY <1>1, <2>2, <2>3 DEF a
<1> QED
  BY <1>3, <1>4

LEMMA ReachIs ==
  ASSUME TypeInv, NEW j \in Reach
  PROVE  j \in 1 .. Len(Loops) /\ j - 1 \in Nat
  BY ActTyped DEF Reach

LEMMA NextCountStep ==
  ASSUME BaseInv, NextCount
  PROVE  BaseInv' /\ (Cleared \/ \E a : Opcode(a))
<1>1. Running
  BY DEF NextCount
<1>2. CASE Fail(Internal)
  BY <1>1, <1>2, RunningIs, FailBase
<1>3. CASE ~Fail(Internal)
  <2>1. PICK j \in Reach :
          /\ Loops[j].kind = "count" /\ ~(Cell(j - 1) > Len(counters)) /\ Quiet /\ at' = "run"
          /\ counters' = [counters EXCEPT ![Cell(j - 1)] = @ - 1]
          /\ acts' = WithAct(Iterated(j, 1, counters[Cell(j - 1)] - 1 > 0))
          /\ UNCHANGED <<held, callVars, hidden, stack, trap>>
    BY <1>3 DEF NextCount
  <2> DEFINE on == counters[Cell(j - 1)] - 1 > 0
             c == Cell(j - 1)
  <2>2. /\ TypeInv /\ j \in 1 .. Len(Loops) /\ j - 1 \in Nat /\ counters \in Seq(Int)
        /\ hidden \in Seq(PoolRec) /\ Len(counters) \in Nat /\ 1 \in Int
    BY <1>1, RunningIs, ReachIs
  <2>3. c \in 1 .. Len(counters) /\ counters[c] - 1 \in Int
    <3>1. c \in Nat /\ c >= 1
      BY <2>2 DEF Cell, TypeInv
    <3> QED
      BY <2>1, <2>2, <3>1
  <2> HIDE DEF c
  <2>4. counters' = [counters EXCEPT ![c] = counters[c] - 1]
    BY <2>1 DEF c
  <2>5. /\ counters' \in Seq(Int) /\ Len(counters') = Len(counters)
        /\ \A i \in 1 .. Len(counters) :
              counters'[i] = IF i = c THEN counters[c] - 1 ELSE counters[i]
    BY <2>2, <2>3, <2>4, ExceptSeq
  <2>6. /\ \A i \in 1 .. Len(counters) : i < c => counters'[i] = counters[i]
        /\ c <= Len(counters) /\ c <= Len(counters') /\ counters'[c] - counters[c] = -1
    BY <2>2, <2>3, <2>5
  <2>7. /\ on \in BOOLEAN
        /\ \A p \in 1 .. Len(hidden), d \in 0 .. DoNames - 1 :
              (p = Len(hidden) /\ d = HiddenIx(j - 1)) \/ hidden'[p][d] = hidden[p][d]
    BY <2>1
  <2>8. /\ Iterated(j, 1, on) \in ActRec
        /\ Iterated(j, 1, on).trap = Act.trap /\ Iterated(j, 1, on).wants = Act.wants
        /\ \E k \in 0 .. Len(Loops) : LoopWork(Iterated(j, 1, on), k)
    <3>1. Loops[j].kind \notin ToKinds
      BY <2>1 DEF ToKinds
    <3> QED
      BY <2>1, <2>2, <2>6, <2>7, <3>1, LoopIterated DEF c
  <2>9. /\ acts' = WithAct(Iterated(j, 1, on)) /\ Len(counters') = Len(counters) /\ Len(counters) \in Nat
        /\ hidden' \in Seq(PoolRec) /\ Len(hidden') = Len(hidden)
    BY <2>1, <2>2, <2>5
  <2> HIDE DEF on
  <2> QED
    BY <1>1, <2>1, <2>5, <2>8, <2>9, OpcodeOf
<1> QED
  BY <1>2, <1>3

LEMMA NextToStep ==
  ASSUME BaseInv, NextTo
  PROVE  BaseInv' /\ \E a : Opcode(a)
<1>1. PICK j \in Reach :
        LET n == IF Loops[j].kind = "for" THEN 1 ELSE 0
            left == hidden[Len(hidden)][HiddenIx(j - 1)].left - n IN
        /\ Running /\ Loops[j].kind \in ToKinds /\ Quiet /\ at' = "run"
        /\ hidden' = [hidden EXCEPT ![Len(hidden)][HiddenIx(j - 1)].left = left]
        /\ acts' = WithAct(Iterated(j, n, Loops[j].kind = "for" => left > 0))
        /\ UNCHANGED <<held, callVars, counters, stack, trap>>
  BY DEF NextTo
<1> DEFINE n == IF Loops[j].kind = "for" THEN 1 ELSE 0
           left == HiddenAt(j - 1).left - n
           on == Loops[j].kind = "for" => left > 0
           h == [HiddenAt(j - 1) EXCEPT !.left = left]
<1>2. /\ TypeInv /\ j \in 1 .. Len(Loops) /\ j - 1 \in Nat /\ counters \in Seq(Int)
      /\ Len(counters) \in Nat /\ Loops[j].kind \in ToKinds
  BY <1>1, RunningIs, ReachIs
<1>3. /\ HiddenAt(j - 1) \in HiddenRec /\ HiddenAt(j - 1).left \in Int
      /\ n \in Int /\ left \in Int
  BY <1>2, HiddenTyped
<1>4. h \in HiddenRec /\ h.bound = HiddenAt(j - 1).bound /\ h.left = left
  BY <1>3 DEF HiddenRec
<1>5. hidden' = [hidden EXCEPT ![Len(hidden)][HiddenIx(j - 1)] = h]
  BY <1>1 DEF HiddenAt
<1>6. acts' = WithAct(Iterated(j, n, on)) /\ on \in BOOLEAN
  BY <1>1 DEF HiddenAt
<1>7. h.left - HiddenAt(j - 1).left = -n
  BY <1>3, <1>4
<1> HIDE DEF h, on, n, left
<1>8. /\ hidden' \in Seq(PoolRec) /\ Len(hidden') = Len(hidden)
      /\ HiddenNow(j - 1) = h
      /\ \A p \in 1 .. Len(hidden), d \in 0 .. DoNames - 1 :
            (p = Len(hidden) /\ d = HiddenIx(j - 1)) \/ hidden'[p][d] = hidden[p][d]
  BY <1>2, <1>4, <1>5, HiddenSet
<1>9. /\ \A i \in 1 .. Len(counters) : i < Cell(j - 1) => counters'[i] = counters[i]
      /\ counters' \in Seq(Int) /\ Len(counters') = Len(counters)
      /\ Loops[j].kind # "count"
  BY <1>1, <1>2 DEF ToKinds
<1>10. /\ Iterated(j, n, on) \in ActRec
       /\ Iterated(j, n, on).trap = Act.trap /\ Iterated(j, n, on).wants = Act.wants
       /\ \E k \in 0 .. Len(Loops) : LoopWork(Iterated(j, n, on), k)
  BY <1>2, <1>3, <1>4, <1>6, <1>7, <1>8, <1>9, LoopIterated
<1> QED
  BY <1>1, <1>2, <1>6, <1>8, <1>9, <1>10, OpcodeOf

LEMMA LeaveLoopStep ==
  ASSUME BaseInv, LeaveLoop
  PROVE  BaseInv' /\ \E a : Opcode(a)
<1>1. PICK j \in Reach :
        /\ Running /\ Quiet /\ at' = "run"
        /\ acts' = WithAct([Act EXCEPT !.loops = SubSeq(@, 1, j - 1)])
        /\ UNCHANGED <<held, callVars, counters, hidden, stack, trap>>
  BY DEF LeaveLoop
<1> DEFINE a == [Act EXCEPT !.loops = SubSeq(@, 1, j - 1)]
           n == j - 1
<1>2. TypeInv /\ j \in 1 .. Len(Loops) /\ n \in 0 .. Len(Loops) /\ Len(Loops) \in Nat
  BY <1>1, RunningIs, ReachIs, ActTyped
<1>3. /\ a \in ActRec /\ a.trap = Act.trap /\ a.wants = Act.wants
      /\ Len(a.loops) = n /\ \A i \in 1 .. n : a.loops[i] = Loops[i]
  BY <1>2, LoopsCut
<1>4. acts' = WithAct(a)
  BY <1>1
<1> HIDE DEF a, n
<1>5. LoopWork(a, n)
  BY <1>1, <1>2, <1>3 DEF LoopWork
<1>6. /\ counters' \in Seq(Int) /\ Len(counters') = Len(counters) /\ Len(counters) \in Nat
      /\ hidden' \in Seq(PoolRec) /\ Len(hidden') = Len(hidden)
  BY <1>1, RunningIs
<1> QED
  BY <1>1, <1>2, <1>3, <1>4, <1>5, <1>6, OpcodeOf

-----------------------------------------------------------------------------
(* Calls and returns.                                                      *)

FrameOf(push, n) ==
    [push |-> push, argc |-> n, isolated |-> FALSE, trap |-> trap, base |-> base]

\* A call with n arguments enters its routine.
Entering(push, n, site, c) ==
    /\ Running /\ push \in BOOLEAN /\ n \in 0 .. Act.wants /\ site \in Sites
    /\ n <= Len(stack)
    /\ c \in CallInit .. CallMax /\ Len(frames) < c
    /\ Enter(push, n, site, c)

LEMMA EnteringIs ==
  ASSUME BaseInv, NEW push, NEW n, NEW site, NEW c, Entering(push, n, site, c)
  PROVE  /\ acts' \in Seq(ActRec) /\ Len(acts') = Len(acts) + 1
         /\ \A k \in 1 .. Len(frames) : acts'[k] = acts[k]
         /\ acts'[Len(acts)].loops = Loops /\ acts'[Len(acts)].wants = Act.wants - n
         /\ acts'[Len(acts)].trap = trap
         /\ acts'[Len(acts) + 1] = NewAct(trap)
         /\ frames' \in Seq(FrameRec) /\ Len(frames') = Len(frames) + 1
         /\ \A k \in 1 .. Len(frames) : frames'[k] = frames[k]
         /\ frames'[Len(frames) + 1] = FrameOf(push, n)
         /\ base' = base + site /\ site \in 0 .. Len(Loops) /\ base' \in Nat
         /\ stack' \in Seq(Nat) /\ Len(stack') = Len(stack) - n
         /\ \A i \in 1 .. Len(stack) - n : stack'[i] = stack[i]
         /\ n \in Nat /\ UNCHANGED <<counters, hidden, trap, todo, cond>>
         /\ at' = "label" /\ cap' = c /\ report' = NoReport
<1> DEFINE a == [Act EXCEPT !.wants = @ - n]
<1>1. /\ TypeInv /\ trap \in Traps /\ trap = Act.trap /\ Act \in ActRec /\ n \in Nat
      /\ Act.wants - n \in Nat /\ Len(acts) \in Nat /\ Len(frames) \in Nat
      /\ Loops \in Seq(LoopRec) /\ base \in Nat /\ frames \in Seq(FrameRec)
      /\ stack \in Seq(Nat) /\ Len(acts) = Len(frames) + 1
  <2>1. TypeInv /\ Running /\ n \in 0 .. Act.wants
    BY DEF BaseInv, Entering
  <2>2. /\ Act \in ActRec /\ Len(acts) \in Nat /\ Len(frames) \in Nat /\ Act.wants \in Nat
        /\ Loops \in Seq(LoopRec)
    BY <2>1, ActTyped
  <2>3. n \in Nat /\ Act.wants - n \in Nat
    BY <2>1, <2>2
  <2> QED
    BY <2>1, <2>2, <2>3, RunningIs DEF TypeInv
<1>2. /\ at' = "label" /\ cap' = c /\ report' = NoReport
      /\ UNCHANGED <<counters, hidden, trap, todo, cond>>
      /\ frames' = Append(frames, FrameOf(push, n)) /\ base' = base + site
      /\ stack' = SubSeq(stack, 1, Len(stack) - n)
      /\ acts' = Append(WithAct(a), NewAct(trap))
      /\ push \in BOOLEAN
  BY DEF Entering, Enter, Quiet, FrameOf, NewBase
<1>3. a \in ActRec /\ a.loops = Loops /\ a.wants = Act.wants - n /\ a.trap = trap
  BY <1>1 DEF ActRec, Loops
<1> HIDE DEF a
<1>4. /\ WithAct(a) \in Seq(ActRec) /\ Len(WithAct(a)) = Len(acts)
      /\ WithAct(a)[Len(acts)] = a
      /\ \A k \in 1 .. Len(frames) : WithAct(a)[k] = acts[k]
  BY <1>1, <1>3, WithActIs
<1>5. NewAct(trap) \in ActRec
  BY <1>1, NewActTyped
<1>6. /\ acts' \in Seq(ActRec) /\ Len(acts') = Len(acts) + 1
      /\ \A k \in 1 .. Len(frames) : acts'[k] = acts[k]
      /\ acts'[Len(acts)] = a /\ acts'[Len(acts) + 1] = NewAct(trap)
  BY <1>1, <1>2, <1>4, <1>5
<1>7. FrameOf(push, n) \in FrameRec
  BY <1>1, <1>2 DEF FrameOf, FrameRec
<1>8. /\ frames' \in Seq(FrameRec) /\ Len(frames') = Len(frames) + 1
      /\ \A k \in 1 .. Len(frames) : frames'[k] = frames[k]
      /\ frames'[Len(frames) + 1] = FrameOf(push, n)
  BY <1>1, <1>2, <1>7
<1>9. site \in 0 .. Len(Loops)
  BY <1>1, EmptySeq DEF Entering, Sites
<1>10. base' \in Nat
  BY <1>1, <1>2, <1>9
<1>11. /\ stack' \in Seq(Nat) /\ Len(stack') = Len(stack) - n
       /\ \A i \in 1 .. Len(stack) - n : stack'[i] = stack[i]
  <2> DEFINE m == Len(stack) - n
  <2>1. m \in 0 .. Len(stack) /\ stack' = SubSeq(stack, 1, m)
    BY <1>1, <1>2 DEF Entering
  <2> HIDE DEF m
  <2>2. /\ SubSeq(stack, 1, m) \in Seq(Nat) /\ Len(SubSeq(stack, 1, m)) = m
        /\ \A i \in 1 .. m : SubSeq(stack, 1, m)[i] = stack[i]
    BY <1>1, <2>1, PrefixOf
  <2> QED
    BY <2>1, <2>2 DEF m
<1> QED
  BY <1>1, <1>2, <1>3, <1>6, <1>8, <1>9, <1>10, <1>11

LEMMA EnteringBase ==
  ASSUME BaseInv, NEW push, NEW n, NEW site, NEW c, Entering(push, n, site, c)
  PROVE  BaseInv'
<1> DEFINE m == Len(frames)
<1>1. TypeInv /\ m \in Nat /\ Len(acts) = m + 1 /\ todo = <<>> /\ trap \in Traps
  BY ActTyped DEF BaseInv, TypeInv, Entering, Running
<1>2. /\ acts' \in Seq(ActRec) /\ Len(acts') = m + 2
      /\ \A k \in 1 .. m : acts'[k] = acts[k]
      /\ acts'[m + 1].trap = trap /\ acts'[m + 2].trap = trap
      /\ frames' \in Seq(FrameRec) /\ Len(frames') = m + 1
      /\ \A k \in 1 .. m : frames'[k] = frames[k]
      /\ frames'[m + 1] = FrameOf(push, n) /\ base' \in Nat
      /\ stack' \in Seq(Nat) /\ Len(stack') = Len(stack) - n /\ n \in Nat
      /\ UNCHANGED <<counters, hidden, trap, todo, cond>>
      /\ at' = "label" /\ cap' = c /\ report' = NoReport
  <2>1. Len(acts) + 1 = m + 2 /\ NewAct(trap).trap = trap
    BY <1>1, NewActTyped
  <2> HIDE DEF m
  <2> QED
    BY <1>1, <2>1, EnteringIs DEF m
<1>3. c \in CallInit .. CallMax /\ m < c
  BY DEF Entering
<1>4. gen' \in Nat /\ args' = [gen |-> gen', ix |-> m + 1]
  BY <1>1 DEF Entering, Enter, TypeInv
<1>5. Len(hidden') = 1 + Own(frames', m + 1)
  <2>1. Own(frames', m + 1) = Own(frames', m)
    <3>1. ~frames'[m + 1].isolated
      BY <1>2 DEF FrameOf
    <3>2. Own(frames', m) \in Nat /\ Own(frames', m + 1) = Own(frames', m) + 0
      BY <1>1, <3>1, OwnNat
    <3> QED
      BY <3>2
  <2>2. Own(frames', m) = Own(frames, m)
    BY <1>1, <1>2, SameOwn
  <2> QED
    BY <1>1, <1>2, <2>1, <2>2 DEF TypeInv
<1>6. frames' # <<>> /\ ~Last(frames').isolated
  BY <1>1, <1>2 DEF Last, FrameOf
<1>7. Len(stack') <= StackMax
  BY <1>1, <1>2, ConstantsPositive DEF TypeInv
<1>8. Len(frames') <= cap'
  BY <1>1, <1>2, <1>3, ConstantsPositive
<1>9. TypeInv'
  BY <1>1, <1>2, <1>3, <1>4, <1>5, <1>6, <1>7, <1>8 DEF TypeInv
<1>10. ArgsCurrent'
  BY <1>2, <1>4, <1>6 DEF ArgsCurrent
<1>11. TrapsOwned'
  <2>1. Act'.trap = trap'
    BY <1>1, <1>2 DEF Act
  <2>2. ASSUME NEW k \in 1 .. m + 1 PROVE frames'[k].trap = acts'[k].trap
    <3>1. CASE k = m + 1
      BY <1>2, <3>1 DEF FrameOf
    <3>2. CASE k # m + 1
      <4>1. k \in 1 .. m
        BY <1>1, <3>2
      <4>2. frames[k].trap = acts[k].trap
        BY <1>1, <4>1, FrameTraps
      <4> QED
        BY <1>2, <4>1, <4>2
    <3> QED
      BY <3>1, <3>2
  <2> QED
    BY <1>2, <2>1, <2>2 DEF TrapsOwned
<1>12. CondInv'
  BY <1>2 DEF BaseInv, CondInv, NamedForCause, NoReport, Entering, Running
<1> QED
  BY <1>9, <1>10, <1>11, <1>12 DEF BaseInv

LEMMA CallStep ==
  ASSUME BaseInv, Call
  PROVE  BaseInv' /\ (Cleared \/ \E push, n, site, c : Entering(push, n, site, c))
<1>1. /\ Running /\ TypeInv /\ at # "ended" /\ Internal \in Failure /\ Storage \in Failure
      /\ ControlStack \in Failure
  BY RunningIs, FailureNumbers DEF Call
<1>2. ASSUME NEW f \in Failure, Fail(f) PROVE BaseInv' /\ Cleared
  BY <1>1, <1>2, FailBase
<1>3. PICK push \in BOOLEAN, n \in 0 .. Act.wants, site \in Sites :
        IF Len(stack) < n THEN Fail(Internal)
        ELSE IF Len(frames) < cap THEN Enter(push, n, site, cap)
        ELSE IF cap >= CallMax THEN Fail(ControlStack)
        ELSE Fail(Storage) \/ Enter(push, n, site, Doubled(cap))
  BY DEF Call
<1>4. CASE Fail(Internal) \/ Fail(ControlStack) \/ Fail(Storage)
  BY <1>1, <1>2, <1>4
<1>5. CASE ~(Fail(Internal) \/ Fail(ControlStack) \/ Fail(Storage))
  <2>1. cap \in CallInit .. CallMax /\ Len(frames) <= cap /\ n \in Nat /\ Len(stack) \in Nat
        /\ Len(frames) \in Nat /\ cap \in Nat /\ cap >= 1
    BY <1>1, RunningIs, ActTyped, ConstantsPositive DEF TypeInv
  <2>2. n <= Len(stack)
    BY <1>3, <1>5, <2>1
  <2>3. PICK c \in CallInit .. CallMax : Len(frames) < c /\ Enter(push, n, site, c)
    <3>1. CASE Len(frames) < cap
      BY <1>3, <1>5, <2>1, <2>2, <3>1
    <3>2. CASE ~(Len(frames) < cap)
      <4>1. ~(cap >= CallMax) /\ Enter(push, n, site, Doubled(cap))
        BY <1>3, <1>5, <2>1, <2>2, <3>2
      <4>2. Doubled(cap) \in CallInit .. CallMax /\ Len(frames) < Doubled(cap)
        BY <2>1, <4>1, ConstantsPositive DEF Doubled
      <4> QED
        BY <4>1, <4>2
    <3> QED
      BY <3>1, <3>2
  <2>4. Entering(push, n, site, c)
    BY <1>1, <1>3, <2>2, <2>3 DEF Entering
  <2> QED
    BY <2>4, EnteringBase
<1> QED
  BY <1>4, <1>5

\* PROCEDURE gives the routine just called a pool of its own.
Isolating ==
    /\ at = "label" /\ frames # <<>> /\ held' = held \cup {PoolAt(Len(hidden'))}
    /\ frames' = [frames EXCEPT ![Len(frames)].isolated = TRUE]
    /\ hidden' = Append(hidden, NewPool) /\ report' = NoReport /\ at' = "run"
    /\ UNCHANGED <<cap, gen, args, base, counters, stack, trap, acts, todo, cond>>

LEMMA IsolatingIs ==
  ASSUME TypeInv, Isolating
  PROVE  /\ Len(frames) \in Nat /\ Len(frames) >= 1
         /\ frames' \in Seq(FrameRec) /\ Len(frames') = Len(frames)
         /\ \A k \in 1 .. Len(frames) - 1 : frames'[k] = frames[k]
         /\ frames'[Len(frames)].trap = frames[Len(frames)].trap
         /\ frames'[Len(frames)].base = frames[Len(frames)].base
         /\ frames'[Len(frames)].argc = frames[Len(frames)].argc
         /\ frames'[Len(frames)].isolated /\ ~frames[Len(frames)].isolated
         /\ \A i \in 1 .. Len(frames) - 1 : Own(frames', i) = Own(frames, i)
         /\ Own(frames', Len(frames)) = Own(frames, Len(frames)) + 1
         /\ hidden' \in Seq(PoolRec) /\ Len(hidden') = Len(hidden) + 1
         /\ \A p \in 1 .. Len(hidden) : hidden'[p] = hidden[p]
<1> DEFINE n == Len(frames)
           f == [frames[n] EXCEPT !.isolated = TRUE]
<1>1. /\ frames \in Seq(FrameRec) /\ n \in Nat /\ n >= 1 /\ n \in 1 .. n
      /\ frames[n] \in FrameRec /\ ~frames[n].isolated
  BY EmptySeq DEF TypeInv, Isolating, Last
<1>2. /\ f \in FrameRec /\ f.isolated /\ f.trap = frames[n].trap /\ f.base = frames[n].base
      /\ f.argc = frames[n].argc
  BY <1>1 DEF FrameRec
<1>3. frames' = [frames EXCEPT ![n] = f]
  BY DEF Isolating
<1> HIDE DEF f
<1>4. /\ frames' \in Seq(FrameRec) /\ Len(frames') = n
      /\ \A k \in 1 .. n : frames'[k] = IF k = n THEN f ELSE frames[k]
  BY <1>1, <1>2, <1>3, ExceptSeq
<1> HIDE DEF n
<1>5. \A i \in 0 .. n - 1 : Own(frames', i) = Own(frames, i)
  <2> TAKE i \in 0 .. n - 1
  <2>1. \A j \in 1 .. i : frames'[j].isolated = frames[j].isolated
    BY <1>1, <1>4
  <2> QED
    BY <1>1, <2>1, SameOwn
<1>6. Own(frames', n) = Own(frames, n) + 1
  <2> DEFINE m == n - 1
  <2>1. m \in Nat /\ m \in 0 .. n - 1 /\ n = m + 1
    BY <1>1
  <2> HIDE DEF m
  <2>2. Own(frames', m + 1) = Own(frames', m) + 1 /\ Own(frames, m + 1) = Own(frames, m)
    <3>1. frames'[m + 1].isolated /\ ~frames[m + 1].isolated
      BY <1>1, <1>2, <1>4, <2>1
    <3> QED
      BY <2>1, <3>1, OwnNat
  <2>3. Own(frames, m) \in Nat /\ Own(frames', m) = Own(frames, m)
    BY <1>5, <2>1, OwnNat
  <2> QED
    BY <2>1, <2>2, <2>3
<1>7. /\ hidden' \in Seq(PoolRec) /\ Len(hidden') = Len(hidden) + 1
      /\ \A p \in 1 .. Len(hidden) : hidden'[p] = hidden[p]
  BY NewPoolTyped DEF Isolating, TypeInv
<1>8. frames'[n] = f /\ \A k \in 1 .. n - 1 : frames'[k] = frames[k]
  BY <1>1, <1>4
<1>9. \A i \in 1 .. n - 1 : Own(frames', i) = Own(frames, i)
  BY <1>1, <1>5
<1> QED
  BY <1>1, <1>2, <1>4, <1>6, <1>7, <1>8, <1>9 DEF n

LEMMA ProcedureStep ==
  ASSUME BaseInv, Procedure
  PROVE  BaseInv' /\ (Cleared \/ Isolating)
<1>1. TypeInv /\ Running /\ frames # <<>> /\ at = "label"
  BY DEF BaseInv, TypeInv, Procedure, Running
<1>2. CASE Fail(Storage)
  BY <1>1, <1>2, RunningIs, FailBase
<1>3. CASE ~Fail(Storage)
  <2>1. Isolating
    BY <1>1, <1>3 DEF Procedure, Isolating, Quiet
  <2>2. /\ at' = "run" /\ report' = NoReport
        /\ UNCHANGED <<cap, gen, args, base, counters, stack, trap, acts, todo, cond>>
    BY <2>1 DEF Isolating
  <2>3. /\ Len(frames) \in Nat /\ frames' \in Seq(FrameRec) /\ Len(frames') = Len(frames)
        /\ hidden' \in Seq(PoolRec) /\ Len(hidden') = 1 + Own(frames', Len(frames))
        /\ frames' # <<>>
    <3>1. Len(hidden) = 1 + Own(frames, Len(frames)) /\ Own(frames, Len(frames)) \in Nat
      BY <1>1, ActTyped, OwnNat DEF TypeInv
    <3> QED
      BY <1>1, <2>1, <3>1, IsolatingIs
  <2>4. TypeInv'
    BY <1>1, <2>2, <2>3 DEF TypeInv
  <2>5. ArgsCurrent'
    BY <1>1, <2>2, <2>3 DEF BaseInv, ArgsCurrent
  <2>6. TrapsOwned'
    <3>1. \A k \in 1 .. Len(frames) : frames'[k].trap = frames[k].trap
      BY <1>1, <2>1, <2>3, IsolatingIs
    <3>2. \A k \in 1 .. Len(frames) : frames[k].trap = acts[k].trap
      BY FrameTraps
    <3> QED
      BY <2>2, <2>3, <3>1, <3>2 DEF BaseInv, TrapsOwned, Act
  <2>7. CondInv'
    BY <1>1, <2>2 DEF BaseInv, CondInv, NamedForCause, NoReport
  <2> QED
    BY <2>1, <2>4, <2>5, <2>6, <2>7 DEF BaseInv
<1> QED
  BY <1>2, <1>3

\* A routine returns, and leaves its caller r more operands.
Returning(r) ==
    /\ Running /\ frames # <<>> /\ r \in {0, 1} /\ Resume(r)
    /\ \/ Act.wants = 0 /\ r = 0 /\ stack' = stack
       \/ /\ Act.wants = 1 /\ stack # <<>>
          /\ stack' = IF r = 1 THEN Append(Front(stack), Len(acts) - 1) ELSE Front(stack)

LEMMA ReturningIs ==
  ASSUME BaseInv, NEW r, Returning(r)
  PROVE  /\ Len(frames) \in Nat /\ Len(frames) >= 1 /\ r \in Nat
         /\ frames' \in Seq(FrameRec) /\ Len(frames') = Len(frames) - 1
         /\ \A k \in 1 .. Len(frames) - 1 : frames'[k] = frames[k]
         /\ base' = frames[Len(frames)].base /\ base' \in Nat
         /\ trap' = frames[Len(frames)].trap /\ trap' \in Traps
         /\ acts' \in Seq(ActRec) /\ Len(acts') = Len(frames)
         /\ \A k \in 1 .. Len(frames) - 1 : acts'[k] = acts[k]
         /\ acts'[Len(frames)].loops = acts[Len(frames)].loops
         /\ acts'[Len(frames)].trap = acts[Len(frames)].trap
         /\ acts'[Len(frames)].wants = acts[Len(frames)].wants + r
         /\ hidden' \in Seq(PoolRec) /\ Len(hidden') = 1 + Own(frames, Len(frames) - 1)
         /\ \A p \in 1 .. Len(hidden') : hidden'[p] = hidden[p]
         /\ Own(frames, Len(frames) - 1) \in Nat
         /\ Own(frames', Len(frames) - 1) = Own(frames, Len(frames) - 1)
         /\ at' = "run" /\ report' = NoReport
         /\ UNCHANGED <<cap, gen, counters, todo, cond>>
<1> DEFINE n == Len(frames)
           m == n - 1
           f == frames[n]
           b == [acts[n] EXCEPT !.wants = @ + r]
<1>1. /\ TypeInv /\ frames \in Seq(FrameRec) /\ acts \in Seq(ActRec) /\ Len(acts) = n + 1
      /\ n \in Nat /\ n >= 1 /\ m \in Nat /\ n = m + 1 /\ r \in Nat /\ f \in FrameRec
      /\ acts[n] \in ActRec /\ hidden \in Seq(PoolRec) /\ Len(hidden) = 1 + Own(frames, n)
  <2>1. TypeInv /\ frames # <<>> /\ r \in Nat
    BY DEF BaseInv, Returning
  <2>2. frames \in Seq(FrameRec) /\ acts \in Seq(ActRec) /\ Len(acts) = n + 1
    BY <2>1 DEF TypeInv
  <2>3. n \in Nat /\ n >= 1 /\ m \in Nat /\ n = m + 1
    BY <2>1, <2>2, EmptySeq
  <2> QED
    BY <2>1, <2>2, <2>3 DEF TypeInv
<1> HIDE DEF m, n
<1>2. Last(frames) = f
  BY DEF Last, n
<1>3. /\ at' = "run" /\ report' = NoReport /\ UNCHANGED <<cap, gen, counters, todo, cond>>
      /\ frames' = Front(frames) /\ base' = f.base /\ trap' = f.trap
      /\ hidden' = (IF f.isolated THEN Front(hidden) ELSE hidden)
      /\ acts' = [Front(acts) EXCEPT ![Len(acts) - 1].wants = @ + r]
  BY <1>2 DEF Returning, Resume, Quiet, TrapAfter
<1>4. /\ frames' \in Seq(FrameRec) /\ Len(frames') = m
      /\ \A k \in 1 .. m : frames'[k] = frames[k]
  <2>1. frames # <<>>
    BY DEF Returning
  <2> QED
    BY <1>1, <1>3, <2>1, FrontOf DEF m, n
<1>5. /\ Front(acts) \in Seq(ActRec) /\ Len(Front(acts)) = n
      /\ \A k \in 1 .. n : Front(acts)[k] = acts[k]
  <2>1. acts # <<>>
    BY <1>1
  <2>2. Len(acts) - 1 = n
    BY <1>1
  <2> QED
    BY <1>1, <2>1, <2>2, FrontOf
<1>6. /\ b \in ActRec /\ b.loops = acts[n].loops /\ b.trap = acts[n].trap
      /\ b.wants = acts[n].wants + r
  <2>1. acts[n].wants + r \in Nat
    BY <1>1 DEF ActRec
  <2>2. acts[n] \in ActRec /\ acts[n].wants + r = b.wants
    BY <1>1 DEF ActRec
  <2> QED
    BY <2>1, <2>2 DEF ActRec
<1>7. acts' = [Front(acts) EXCEPT ![n] = b]
  <2>1. Len(acts) - 1 = n /\ Front(acts)[n] = acts[n]
    BY <1>1, <1>5
  <2> QED
    BY <1>3, <2>1
<1> HIDE DEF b
<1>8. /\ acts' \in Seq(ActRec) /\ Len(acts') = n /\ acts'[n] = b
      /\ \A k \in 1 .. m : acts'[k] = acts[k]
  <2>1. n \in 1 .. n
    BY <1>1
  <2>2. /\ acts' \in Seq(ActRec) /\ Len(acts') = n
        /\ \A k \in 1 .. n : acts'[k] = IF k = n THEN b ELSE Front(acts)[k]
    BY <1>5, <1>6, <1>7, <2>1, ExceptSeq
  <2> QED
    BY <1>1, <1>5, <2>1, <2>2
<1>9. /\ Own(frames, m) \in Nat
      /\ Own(frames, n) = Own(frames, m) + (IF f.isolated THEN 1 ELSE 0)
  BY <1>1, OwnNat
<1>10. Own(frames', m) = Own(frames, m)
  BY <1>1, <1>4, SameOwn
<1>11. /\ hidden' \in Seq(PoolRec) /\ Len(hidden') = 1 + Own(frames, m)
       /\ \A p \in 1 .. Len(hidden') : hidden'[p] = hidden[p]
  <2>1. CASE f.isolated
    <3>1. hidden' = Front(hidden) /\ Len(hidden) = 2 + Own(frames, m)
      BY <1>1, <1>3, <1>9, <2>1
    <3>2. hidden # <<>>
      BY <1>9, <3>1
    <3>3. /\ Front(hidden) \in Seq(PoolRec) /\ Len(Front(hidden)) = Len(hidden) - 1
          /\ \A p \in 1 .. Len(hidden) - 1 : Front(hidden)[p] = hidden[p]
      BY <1>1, <3>2, FrontOf
    <3>4. Len(hidden) - 1 = 1 + Own(frames, m)
      BY <1>9, <3>1
    <3> QED
      BY <3>1, <3>3, <3>4
  <2>2. CASE ~f.isolated
    BY <1>1, <1>3, <1>9, <2>2
  <2> QED
    BY <2>1, <2>2
<1>12. base' \in Nat /\ trap' \in Traps
  BY <1>1, <1>3 DEF FrameRec
<1> QED
  BY <1>1, <1>3, <1>4, <1>6, <1>8, <1>9, <1>10, <1>11, <1>12 DEF n, m, f

LEMMA ReturningBase ==
  ASSUME BaseInv, NEW r, Returning(r)
  PROVE  BaseInv'
<1> DEFINE n == Len(frames)
           m == n - 1
<1>1. /\ TypeInv /\ at # "ended" /\ todo = <<>> /\ stack \in Seq(Nat) /\ Len(stack) <= StackMax
      /\ Len(acts) = n + 1
  BY DEF BaseInv, TypeInv, Returning, Running
<1>2. /\ n \in Nat /\ n >= 1 /\ frames' \in Seq(FrameRec) /\ Len(frames') = m
      /\ \A k \in 1 .. m : frames'[k] = frames[k]
      /\ base' \in Nat /\ trap' = frames[n].trap /\ trap' \in Traps
      /\ acts' \in Seq(ActRec) /\ Len(acts') = n /\ \A k \in 1 .. m : acts'[k] = acts[k]
      /\ acts'[n].trap = acts[n].trap
      /\ hidden' \in Seq(PoolRec) /\ Len(hidden') = 1 + Own(frames', m)
      /\ at' = "run" /\ report' = NoReport
      /\ UNCHANGED <<cap, gen, counters, todo, cond>>
  BY ReturningIs
<1> HIDE DEF n, m
<1>3. stack' \in Seq(Nat) /\ Len(stack') <= StackMax
  <2>1. CASE stack' = stack
    BY <1>1, <2>1
  <2>2. CASE stack' # stack
    <3>1. stack # <<>> /\ (stack' = Front(stack) \/ stack' = Append(Front(stack), n))
      <4>1. Len(acts) - 1 = n
        BY <1>1, <1>2
      <4> QED
        BY <2>2, <4>1 DEF Returning
    <3>2. Front(stack) \in Seq(Nat) /\ Len(Front(stack)) = Len(stack) - 1
      BY <1>1, <3>1, FrontOf
    <3>3. Append(Front(stack), n) \in Seq(Nat) /\ Len(Append(Front(stack), n)) = Len(stack)
      BY <1>1, <1>2, <3>2
    <3>4. Len(stack) \in Nat /\ StackMax \in Nat /\ Len(stack) - 1 <= StackMax
      BY <1>1, ConstantsPositive
    <3>5. CASE stack' = Front(stack)
      BY <3>2, <3>4, <3>5
    <3>6. CASE stack' = Append(Front(stack), n)
      BY <1>1, <3>3, <3>6
    <3> QED
      BY <3>1, <3>5, <3>6
  <2> QED
    BY <2>1, <2>2
<1>4. TypeInv'
  <2>1. Len(frames') <= cap' /\ Len(acts') = Len(frames') + 1 /\ cap' \in CallInit .. CallMax
    BY <1>1, <1>2, ConstantsPositive DEF TypeInv, m, n
  <2> QED
    BY <1>1, <1>2, <1>3, <2>1 DEF TypeInv
<1>5. ArgsCurrent'
  BY <1>2 DEF Returning, Resume, ArgsCurrent, ArgsOf
<1>6. TrapsOwned'
  <2>1. trap' = Act'.trap
    <3>1. frames[n].trap = acts[n].trap
      BY <1>2, FrameTraps DEF n
    <3> QED
      BY <1>2, <3>1 DEF Act
  <2>2. \A k \in 1 .. m : frames[k].trap = acts[k].trap
    <3>1. \A k \in 1 .. m : k \in 1 .. n
      BY <1>2 DEF m
    <3> QED
      BY <3>1, FrameTraps DEF n
  <2> QED
    BY <1>2, <2>1, <2>2 DEF TrapsOwned
<1>7. CondInv'
  BY <1>1, <1>2 DEF BaseInv, CondInv, NamedForCause, NoReport
<1> QED
  BY <1>4, <1>5, <1>6, <1>7 DEF BaseInv

LEMMA ReturnStep ==
  ASSUME BaseInv, ReturnPlain \/ ReturnValue
  PROVE  BaseInv' /\ (Cleared \/ \E r : Returning(r))
<1>1. Running /\ frames # <<>>
  BY DEF ReturnPlain, ReturnValue
<1>2. CASE ReturnPlain
  <2>1. Returning(0)
    BY <1>1, <1>2 DEF ReturnPlain, Returning
  <2> QED
    BY <2>1, ReturningBase
<1>3. CASE ReturnValue /\ stack = <<>>
  <2>1. Fail(Internal)
    BY <1>3 DEF ReturnValue
  <2> QED
    BY <1>1, <2>1, RunningIs, FailBase
<1>4. CASE ReturnValue /\ stack # <<>>
  <2> DEFINE r == IF Last(frames).push THEN 1 ELSE 0
  <2>1. /\ Resume(r) /\ Act.wants = 1
        /\ stack' = IF Last(frames).push THEN Append(Front(stack), Len(acts) - 1)
                    ELSE Front(stack)
    BY <1>4 DEF ReturnValue, Returned
  <2>2. r \in {0, 1} /\ (r = 1 <=> Last(frames).push)
    OBVIOUS
  <2> HIDE DEF r
  <2>3. Returning(r)
    BY <1>1, <1>4, <2>1, <2>2 DEF Returning
  <2> QED
    BY <2>3, ReturningBase
<1> QED
  BY <1>2, <1>3, <1>4

-----------------------------------------------------------------------------
(* SIGNAL, traps, and the end of the run.                                  *)

LEMMA JumpStep ==
  ASSUME BaseInv, Exit \/ Signal \/ NoValue \/ Break
  PROVE  BaseInv' /\ Cleared
<1>1. /\ Running /\ TypeInv /\ trap \in Traps /\ ~cond.fresh /\ cond \in CondRec
      /\ NoReport.num = NoReport.cause /\ at # "ended"
  BY RunningIs DEF Exit, Signal, NoValue, Break, BaseInv, CondInv, TypeInv, NoReport
<1>2. ASSUME NEW f \in Failure, Fail(f) PROVE BaseInv' /\ Cleared
  BY <1>1, <1>2, FailBase
<1>3. CASE Exit
  <2>1. Done(NoReport) /\ UNCHANGED cond
    BY <1>3 DEF Exit
  <2>2. Cleared /\ report' = NoReport /\ at' = "ended"
    BY <1>1, <2>1, DoneClears
  <2> QED
    BY <1>1, <2>1, <2>2, ClearedBase
<1>4. CASE Signal
  <2>1. CASE Unwind(trap) /\ report' = NoReport /\ UNCHANGED cond
    <3>1. Cleared
      BY <1>1, <2>1, UnwindClears
    <3> QED
      BY <1>1, <2>1, <3>1, ClearedBase
  <2>2. CASE ~(Unwind(trap) /\ report' = NoReport /\ UNCHANGED cond)
    BY <1>2, <1>4, <2>2, FailureNumbers DEF Signal
  <2> QED
    BY <2>1, <2>2
<1>5. CASE NoValue
  <2> DEFINE t == [trap EXCEPT !["NOVALUE"] = "off"]
  <2>1. /\ Unwind(t) /\ cond' = Handled([code |-> 0, fresh |-> TRUE]) /\ report' = NoReport
    BY <1>5 DEF NoValue
  <2>2. t \in Traps
    BY <1>1 DEF Traps
  <2> HIDE DEF t
  <2>3. Cleared
    BY <1>1, <2>1, <2>2, UnwindClears
  <2>4. cond' \in CondRec /\ ~cond'.fresh
    BY <2>1 DEF Handled, CondRec
  <2> QED
    BY <1>1, <2>1, <2>3, <2>4, ClearedBase
<1>6. CASE Break
  <2>1. PICK f \in Failures : Fail(f)
    BY <1>6 DEF Break
  <2>2. f \in Failure
    BY FailureNumbers
  <2> QED
    BY <1>2, <2>1, <2>2
<1> QED
  BY <1>3, <1>4, <1>5, <1>6

\* Storage runs out where arguments are at stake.
LEMMA ShortStep ==
  ASSUME BaseInv, CopyShort \/ ResultShort
  PROVE  BaseInv' /\ Cleared
<1>1. Running /\ TypeInv /\ ~cond.fresh /\ cond \in CondRec
  BY RunningIs DEF CopyShort, ResultShort, BaseInv, CondInv, TypeInv
<1>2. /\ Ended([num |-> Number(Storage), cause |-> Storage.num]) /\ cond' = Raised(Storage)
  BY DEF CopyShort, ResultShort
<1>3. Raised(Storage) \in CondRec /\ Number(Storage) = Storage.num
  BY <1>1 DEF Raised, Number, Named, Storage
<1>4. Cleared /\ report' = [num |-> Storage.num, cause |-> Storage.num] /\ at' = "ended"
  BY <1>2, <1>3, EndedClears
<1> QED
  BY <1>2, <1>3, <1>4, ClearedBase

\* Another block of those of the set-up is allocated.
Obtained ==
    /\ at = "setup" /\ held' = held \cup {Head(todo)} /\ todo' = Tail(todo)
    /\ at' = IF Len(todo) = 1 THEN "run" ELSE "setup"

\* Outside the dispatch loop nothing of the program's state changes.
Aside ==
    /\ UNCHANGED <<frames, gen, base, counters, hidden, stack, acts>>
    /\ at' = "label" => at = "label"
    /\ Obtained \/ Again \/ UNCHANGED vars

Shape ==
    \/ Cleared
    \/ \E a : Opcode(a)
    \/ \E push, n, site, c : Entering(push, n, site, c)
    \/ Isolating
    \/ \E r : Returning(r)
    \/ Aside

\* Every step of the VM has one of six shapes.
LEMMA StepBase ==
  ASSUME BaseInv, [Next]_vars
  PROVE  BaseInv' /\ Shape
<1>1. CASE Obtain \/ Again \/ UNCHANGED vars
  <2>1. CASE Obtain /\ Fail(Storage)
    BY <2>1, FailureNumbers, FailBase DEF Obtain, Shape
  <2>2. CASE ~(Obtain /\ Fail(Storage))
    BY <1>1, <2>2, OutsideBase DEF Obtain, Again, vars, programVars, callVars, Obtained, Aside, Shape
  <2> QED
    BY <2>1, <2>2
<1>2. ASSUME SignalOn \/ SignalOff PROVE BaseInv' /\ Shape
  <2>1. PICK c \in Conds, state \in {"off", "on", "nolabel"} : SetTrap(c, state)
    BY <1>2 DEF SignalOn, SignalOff
  <2> QED
    BY <2>1, SetTrapStep DEF Shape
<1>3. CASE Push \/ Pop \/ OpenCount \/ OpenTo \/ OpenPlain
  BY <1>3, PushStep, PopStep, OpenCountStep, OpenToStep, OpenPlainStep DEF Shape
<1>4. CASE NextCount \/ NextTo \/ LeaveLoop
  BY <1>4, NextCountStep, NextToStep, LeaveLoopStep DEF Shape
<1>5. CASE Call \/ Procedure \/ ReturnPlain \/ ReturnValue
  BY <1>5, CallStep, ProcedureStep, ReturnStep DEF Shape
<1>6. CASE Exit \/ Signal \/ NoValue \/ Break \/ CopyShort \/ ResultShort
  BY <1>6, JumpStep, ShortStep DEF Shape
<1> QED
  BY <1>1, <1>2, <1>3, <1>4, <1>5, <1>6 DEF Next

LEMMA InitBase ==
  ASSUME Init
  PROVE  BaseInv
<1>1. /\ frames = <<>> /\ frames \in Seq(FrameRec) /\ Len(frames) = 0 /\ DOMAIN frames = {}
      /\ Own(frames, 0) = 0
  BY OwnNat DEF Init
<1>2. /\ counters \in Seq(Int) /\ Len(counters) = CounterInit
  BY ConstantsPositive, ZerosTyped DEF Init
<1>3. hidden \in Seq(PoolRec) /\ Len(hidden) = 1
  BY NewPoolTyped DEF Init
<1>4. /\ AllOff \in Traps /\ NewAct(AllOff) \in ActRec /\ NewAct(AllOff).trap = AllOff
  BY AllOffTyped, NewActTyped
<1>5. acts \in Seq(ActRec) /\ Len(acts) = 1 /\ Act = NewAct(AllOff)
  BY <1>4 DEF Init, Act
<1>6. todo \in Seq(Range(Plan)) /\ todo # <<>>
  BY DEF Init, Plan, Range
<1>7. cond \in CondRec /\ ~cond.fresh
  BY DEF Init, CondRec
<1>8. cap \in CallInit .. CallMax /\ stack \in Seq(Nat) /\ Len(stack) <= StackMax
  BY ConstantsPositive DEF Init
<1>9. TypeInv
  BY <1>1, <1>2, <1>3, <1>4, <1>5, <1>6, <1>7, <1>8, ConstantsPositive DEF Init, TypeInv
<1>10. ArgsCurrent /\ TrapsOwned /\ CondInv
  BY <1>1, <1>4, <1>5, <1>7
     DEF Init, ArgsCurrent, TrapsOwned, CondInv, NamedForCause, NoReport
<1> QED
  BY <1>9, <1>10 DEF BaseInv

\* BaseInv is an invariant of a run: after every opcode, call, RETURN and trap of
\* irx_bc_execute the frames, pools and activations agree in depth and shape,
\* call_args and the traps are those of the call that runs, and no condition that
\* was handled names an error.
THEOREM BaseInvariant == Spec => []BaseInv
<1>1. Init => BaseInv
  BY InitBase
<1>2. BaseInv /\ [Next]_vars => BaseInv'
  BY StepBase
<1> QED
  BY <1>1, <1>2, PTL DEF Spec

\* The types of the VM's state; its arrays have as many members as there are
\* calls and routines with a pool of their own (irx_bc_execute).
THEOREM TypeCorrect == Spec => []TypeOK
<1>1. ASSUME BaseInv PROVE TypeOK
  <2>1. TypeInv
    BY <1>1 DEF BaseInv
  <2>3. Len(hidden) = 1 + Isolated(frames)
    BY <2>1, IsolatedIs DEF TypeInv
  <2>4. /\ trap \in [Conds -> {"off", "on", "nolabel"}]
        /\ cond.code \in Nat /\ cond.fresh \in BOOLEAN
    BY <2>1 DEF TypeInv, Traps, CondRec
  <2> QED
    BY <2>1, <2>3, <2>4 DEF TypeInv, TypeOK
<1> QED
  BY <1>1, BaseInvariant, PTL

\* call_args points at the arguments of the active call, in the frames as they
\* are allocated now, however often vm_grow_frames moved them.
THEOREM ArgumentsFound == Spec => []ArgsCurrent
<1>1. BaseInv => ArgsCurrent
  BY DEF BaseInv
<1> QED
  BY <1>1, BaseInvariant, PTL

\* The traps in force are those of the active call: a routine starts with its
\* caller's, and RETURN, SIGNAL and a trap that is taken leave no other.
THEOREM TrapsOfTheCall == Spec => []TrapsOwned
<1>1. BaseInv => TrapsOwned
  BY DEF BaseInv
<1> QED
  BY <1>1, BaseInvariant, PTL

\* RC at a trap, and the message that ends a run, have the number of the
\* failure they are about, whatever was raised and handled before, in this run
\* or an earlier one of the environment (vm_raise_if_none, check_syntax_trap,
\* vm_errnum).
THEOREM ErrorsNamed == Spec => []NamedForCause
<1>1. BaseInv => NamedForCause
  BY DEF BaseInv, CondInv
<1> QED
  BY <1>1, BaseInvariant, PTL

-----------------------------------------------------------------------------
(* Operands.                                                               *)

\* Below the operands of a call there are only those of its callers.
OperandsInv ==
    /\ \A i \in 1 .. Len(stack) : stack[i] \in 1 .. Len(acts)
    /\ \A i, j \in 1 .. Len(stack) : i < j => stack[i] <= stack[j]
    /\ \A k \in 1 .. Len(acts) : Tally(stack, k) = acts[k].wants

\* The operands the active call waits with are on top.
LEMMA TopOperands ==
  ASSUME BaseInv, OperandsInv, NEW n \in 0 .. Act.wants
  PROVE  n <= Len(stack) /\ \A i \in Len(stack) - n + 1 .. Len(stack) : stack[i] = Len(acts)
<1>1. /\ TypeInv /\ stack \in Seq(Nat) /\ Len(acts) \in Nat /\ Len(acts) \in 1 .. Len(acts)
      /\ Act = acts[Len(acts)] /\ Act.wants \in Nat
  BY ActTyped DEF BaseInv, TypeInv
<1>2. n \in Nat /\ n <= Tally(stack, Len(acts))
  BY <1>1 DEF OperandsInv
<1>3. \A i \in 1 .. Len(stack) : stack[i] <= Len(acts)
  BY <1>1 DEF OperandsInv
<1>4. \A i, j \in 1 .. Len(stack) : i < j => stack[i] <= stack[j]
  BY DEF OperandsInv
<1> QED
  BY <1>1, <1>2, <1>3, <1>4, TopIsOwn

LEMMA ClearedOperands ==
  ASSUME Cleared
  PROVE  OperandsInv'
<1>1. stack' = <<>> /\ acts' = <<NewAct(trap')>> /\ NewAct(trap').wants = 0
  BY NewActTyped DEF Cleared
<1>2. stack' \in Seq(Nat) /\ Len(stack') = 0 /\ Len(acts') = 1 /\ acts'[1].wants = 0
  BY <1>1
<1>3. Tally(stack', 1) = 0
  <2>1. {i \in 1 .. Len(stack') : stack'[i] = 1} = {}
    BY <1>2
  <2> QED
    BY <2>1, FS_EmptySet DEF Tally
<1> QED
  BY <1>2, <1>3 DEF OperandsInv

LEMMA OpcodeOperands ==
  ASSUME BaseInv, OperandsInv, NEW a, Opcode(a)
  PROVE  OperandsInv'
<1> DEFINE l == Len(acts)
<1>1. /\ TypeInv /\ stack \in Seq(Nat) /\ l \in Nat /\ l \in 1 .. l /\ Act = acts[l]
      /\ Act.wants \in Nat /\ a \in ActRec /\ acts' = WithAct(a) /\ l = Len(frames) + 1
      /\ Len(frames) \in Nat
  BY ActTyped DEF BaseInv, TypeInv, Opcode, Inner
<1>2. /\ Len(acts') = l /\ acts'[l] = a
      /\ \A k \in 1 .. l : k # l => acts'[k] = acts[k]
  <2>1. \A k \in 1 .. l : k # l => k \in 1 .. Len(frames)
    BY <1>1
  <2> QED
    BY <1>1, <2>1, WithActIs
<1>3. /\ \A i \in 1 .. Len(stack) : stack[i] \in 1 .. l
      /\ \A i, j \in 1 .. Len(stack) : i < j => stack[i] <= stack[j]
      /\ \A k \in 1 .. l : Tally(stack, k) = acts[k].wants
  BY DEF OperandsInv
<1> HIDE DEF l
<1>4. CASE stack' = stack /\ a.wants = Act.wants
  <2>1. \A k \in 1 .. l : acts'[k].wants = acts[k].wants
    BY <1>1, <1>2, <1>4
  <2> QED
    BY <1>2, <1>3, <1>4, <2>1 DEF OperandsInv
<1>5. CASE stack' = Append(stack, l) /\ a.wants = Act.wants + 1
  <2>1. /\ Len(stack') = Len(stack) + 1 /\ Len(stack) \in Nat /\ stack'[Len(stack) + 1] = l
        /\ \A i \in 1 .. Len(stack) : stack'[i] = stack[i]
    BY <1>1, <1>5
  <2>2. \A i \in 1 .. Len(stack') : i = Len(stack) + 1 \/ i \in 1 .. Len(stack)
    BY <2>1
  <2>3. \A i \in 1 .. Len(stack') : stack'[i] \in 1 .. l
    BY <1>1, <1>3, <2>1, <2>2
  <2>4. \A i, j \in 1 .. Len(stack') : i < j => stack'[i] <= stack'[j]
    <3> SUFFICES ASSUME NEW i \in 1 .. Len(stack'), NEW j \in 1 .. Len(stack'), i < j
                 PROVE  stack'[i] <= stack'[j]
      OBVIOUS
    <3>1. i \in 1 .. Len(stack) /\ stack'[i] = stack[i] /\ stack[i] <= l
      BY <1>1, <1>3, <2>1, <2>2
    <3>2. CASE j = Len(stack) + 1
      BY <2>1, <3>1, <3>2
    <3>3. CASE j \in 1 .. Len(stack)
      BY <1>3, <2>1, <3>1, <3>3
    <3> QED
      BY <2>2, <3>2, <3>3
  <2>5. ASSUME NEW k \in 1 .. l PROVE Tally(stack', k) = acts'[k].wants
    <3>. k \in Nat /\ l \in Nat
      BY <1>1
    <3>1. Tally(stack', k) = Tally(stack, k) + (IF k = l THEN 1 ELSE 0)
      BY <1>1, <1>5, TallyAppend
    <3>2. Tally(stack, k) \in Nat
      BY <1>1, TallyNat
    <3>3. CASE k = l
      <4>1. Tally(stack', l) = Tally(stack, l) + 1
        BY <3>1, <3>3
      <4>2. Tally(stack, l) = Act.wants /\ acts'[l].wants = Act.wants + 1
        BY <1>1, <1>2, <1>3, <1>5
      <4> QED
        BY <3>3, <4>1, <4>2
    <3>4. CASE k # l
      BY <1>2, <1>3, <3>1, <3>2, <3>4
    <3> QED
      BY <3>3, <3>4
  <2> QED
    BY <1>2, <2>3, <2>4, <2>5 DEF OperandsInv
<1>6. CASE /\ stack # <<>> /\ stack' = Front(stack)
           /\ Act.wants > 0 /\ a.wants = Act.wants - 1
  <2> DEFINE n == Len(stack) - 1
  <2>1. /\ stack' \in Seq(Nat) /\ Len(stack') = n /\ n \in Nat /\ n \in 0 .. Len(stack)
        /\ Len(stack) - n = 1 /\ \A i \in 1 .. n : stack'[i] = stack[i]
    <3>1. stack \in Seq(Nat) /\ stack # <<>> /\ stack' = Front(stack) /\ Len(stack) \in Nat
      BY <1>1, <1>6
    <3>2. /\ stack' \in Seq(Nat) /\ Len(stack') = n /\ n \in Nat
          /\ \A i \in 1 .. n : stack'[i] = stack[i]
      BY <3>1, FrontOf
    <3>3. n \in 0 .. Len(stack) /\ Len(stack) - n = 1
      BY <3>1, <3>2
    <3> QED
      BY <3>2, <3>3
  <2>2. \A i \in n + 1 .. Len(stack) : stack[i] = l
    <3>1. 1 \in 0 .. Act.wants
      BY <1>1, <1>6
    <3>2. \A i \in Len(stack) - 1 + 1 .. Len(stack) : stack[i] = Len(acts)
      BY <3>1, TopOperands
    <3> QED
      BY <3>2 DEF l
  <2> HIDE DEF n
  <2>3. \A i \in 1 .. n : i \in 1 .. Len(stack)
    BY <2>1
  <2>4. /\ \A i \in 1 .. Len(stack') : stack'[i] \in 1 .. l
        /\ \A i, j \in 1 .. Len(stack') : i < j => stack'[i] <= stack'[j]
    BY <1>3, <2>1, <2>3
  <2>5. ASSUME NEW k \in 1 .. l PROVE Tally(stack', k) = acts'[k].wants
    <3>. k \in Nat /\ l \in Nat
      BY <1>1
    <3>1. Tally(stack, k) = Tally(stack', k) + (IF k = l THEN Len(stack) - n ELSE 0)
      <4>1. stack \in Seq(Nat) /\ stack' \in Seq(Nat) /\ n \in 0 .. Len(stack)
        BY <1>1, <2>1
      <4>2. Len(stack') = n /\ \A i \in 1 .. n : stack'[i] = stack[i]
        BY <2>1
      <4>3. l \in Nat /\ k \in Nat /\ \A i \in n + 1 .. Len(stack) : stack[i] = l
        BY <1>1, <2>2
      <4>4. Len(stack) \in Nat /\ n \in Nat /\ Len(stack) - n = 1
        BY <1>1, <2>1
      <4> HIDE DEF l
      <4> QED
        BY <4>1, <4>2, <4>3, <4>4, TallyAbove
    <3>2. Tally(stack', k) \in Nat
      BY <2>1, TallyNat
    <3>3. CASE k = l
      <4>1. Tally(stack, l) = Tally(stack', l) + 1
        BY <2>1, <3>1, <3>3
      <4>2. Tally(stack, l) = Act.wants
        BY <1>1, <1>3
      <4>3. Tally(stack', l) \in Nat /\ acts'[k].wants = Act.wants - 1
        BY <1>2, <1>6, <3>2, <3>3
      <4>4. Tally(stack', l) = Act.wants - 1
        BY <4>1, <4>2, <4>3
      <4> QED
        BY <3>3, <4>3, <4>4
    <3>4. CASE k # l
      BY <1>2, <1>3, <3>1, <3>2, <3>4
    <3> QED
      BY <3>3, <3>4
  <2> QED
    BY <1>2, <2>4, <2>5 DEF OperandsInv
<1> QED
  BY <1>4, <1>5, <1>6 DEF Opcode, Operands, l

LEMMA EnteringOperands ==
  ASSUME BaseInv, OperandsInv, NEW push, NEW n, NEW site, NEW c, Entering(push, n, site, c)
  PROVE  OperandsInv'
<1> DEFINE l == Len(acts)
           m == Len(stack) - n
<1>1. /\ TypeInv /\ stack \in Seq(Nat) /\ l \in Nat /\ l \in 1 .. l /\ Act = acts[l]
      /\ Act.wants \in Nat /\ l = Len(frames) + 1 /\ Len(frames) \in Nat
      /\ n \in 0 .. Act.wants /\ Len(stack) \in Nat
  BY ActTyped DEF BaseInv, TypeInv, Entering
<1>2. /\ Len(acts') = l + 1 /\ acts'[l].wants = Act.wants - n /\ acts'[l + 1].wants = 0
      /\ \A k \in 1 .. Len(frames) : acts'[k] = acts[k]
      /\ stack' \in Seq(Nat) /\ Len(stack') = m
      /\ \A i \in 1 .. m : stack'[i] = stack[i]
  <2>1. TypeInv /\ trap \in Traps
    BY <1>1 DEF TypeInv
  <2> QED
    BY <2>1, EnteringIs, NewActTyped
<1>3. m \in 0 .. Len(stack) /\ Len(stack) - m = n /\ n <= Len(stack)
  BY <1>1, TopOperands
<1>4. \A i \in m + 1 .. Len(stack) : stack[i] = l
  BY <1>1, TopOperands
<1>5. /\ \A i \in 1 .. Len(stack) : stack[i] \in 1 .. l
      /\ \A i, j \in 1 .. Len(stack) : i < j => stack[i] <= stack[j]
      /\ \A k \in 1 .. l : Tally(stack, k) = acts[k].wants
  BY DEF OperandsInv
<1> HIDE DEF l, m
<1>6. \A i \in 1 .. m : i \in 1 .. Len(stack)
  BY <1>1, <1>3
<1>7. \A i \in 1 .. m : stack'[i] \in 1 .. l
  BY <1>2, <1>5, <1>6
<1>8. \A i, j \in 1 .. Len(stack') : i < j => stack'[i] <= stack'[j]
  BY <1>2, <1>5, <1>6
<1>9. ASSUME NEW k \in 1 .. l + 1 PROVE Tally(stack', k) = acts'[k].wants
  <2>. k \in Nat /\ l \in Nat
    BY <1>1
  <2>1. Tally(stack, k) = Tally(stack', k) + (IF k = l THEN Len(stack) - m ELSE 0)
    <3>1. stack \in Seq(Nat) /\ stack' \in Seq(Nat) /\ m \in 0 .. Len(stack)
      BY <1>1, <1>2, <1>3
    <3>2. Len(stack') = m /\ \A i \in 1 .. m : stack'[i] = stack[i]
      BY <1>2
    <3>3. l \in Nat /\ k \in Nat /\ \A i \in m + 1 .. Len(stack) : stack[i] = l
      BY <1>1, <1>4
    <3>4. Len(stack) \in Nat /\ m \in Nat
      BY <1>1, <1>3
    <3> QED
      BY <3>1, <3>2, <3>3, <3>4, TallyAbove
  <2>2. Tally(stack', k) \in Nat
    BY <1>2, TallyNat
  <2>3. CASE k = l
    <3>1. Tally(stack, l) = Tally(stack', l) + n /\ Tally(stack, l) = Act.wants
      BY <1>1, <1>3, <1>5, <2>1, <2>3
    <3> QED
      BY <1>1, <1>2, <2>2, <2>3, <3>1
  <2>4. CASE k = l + 1
    <3>1. {i \in 1 .. Len(stack') : stack'[i] = k} = {}
      BY <1>1, <1>2, <1>7, <2>4
    <3>2. Tally(stack', k) = 0
      BY <3>1, FS_EmptySet DEF Tally
    <3> QED
      BY <1>2, <2>4, <3>2
  <2>5. CASE k # l /\ k # l + 1
    <3>1. k \in 1 .. Len(frames) /\ k \in 1 .. l
      BY <1>1, <2>5
    <3> QED
      BY <1>2, <1>5, <2>1, <2>2, <2>5, <3>1
  <2> QED
    BY <2>3, <2>4, <2>5
<1>10. \A i \in 1 .. Len(stack') : stack'[i] \in 1 .. Len(acts')
  BY <1>1, <1>2, <1>7
<1> QED
  BY <1>2, <1>8, <1>9, <1>10 DEF OperandsInv

LEMMA ReturningOperands ==
  ASSUME BaseInv, OperandsInv, NEW r, Returning(r)
  PROVE  OperandsInv'
<1> DEFINE n == Len(frames)
           l == Len(acts)
<1>1. /\ TypeInv /\ stack \in Seq(Nat) /\ Len(stack) \in Nat /\ l \in Nat /\ l = n + 1
      /\ Act = acts[l] /\ Act.wants \in Nat /\ n \in Nat /\ n >= 1 /\ r \in {0, 1}
      /\ \A k \in 1 .. l : acts[k].wants \in Nat
  <2>1. TypeInv /\ r \in {0, 1} /\ acts \in Seq(ActRec)
    BY DEF BaseInv, Returning, TypeInv
  <2>2. \A k \in 1 .. l : acts[k] \in ActRec
    BY <2>1
  <2>3. \A k \in 1 .. l : acts[k].wants \in Nat
    BY <2>2 DEF ActRec
  <2>4. stack \in Seq(Nat) /\ l = n + 1
    BY <2>1 DEF TypeInv
  <2>5. Len(stack) \in Nat /\ l \in Nat /\ n \in Nat
    BY <2>1, <2>4, ActTyped
  <2>6. Act = acts[l] /\ Act.wants \in Nat
    BY <2>1, ActTyped
  <2>7. n >= 1
    BY ReturningIs
  <2> QED
    BY <2>1, <2>3, <2>4, <2>5, <2>6, <2>7
<1>2. /\ Len(acts') = n /\ acts'[n].wants = acts[n].wants + r
      /\ \A k \in 1 .. n - 1 : acts'[k] = acts[k]
  BY ReturningIs
<1>3. /\ \A i \in 1 .. Len(stack) : stack[i] \in 1 .. l
      /\ \A i, j \in 1 .. Len(stack) : i < j => stack[i] <= stack[j]
      /\ \A k \in 1 .. l : Tally(stack, k) = acts[k].wants
  BY DEF OperandsInv
<1> HIDE DEF l, n
<1>4. PICK rest \in Seq(Nat) :
         /\ Len(rest) <= Len(stack) /\ \A i \in 1 .. Len(rest) : rest[i] = stack[i]
         /\ \A k \in 1 .. n : Tally(rest, k) = acts[k].wants
         /\ Tally(rest, l) = 0
         /\ stack' = IF r = 1 THEN Append(rest, n) ELSE rest
  <2>1. CASE Act.wants = 0 /\ r = 0 /\ stack' = stack
    <3>1. Tally(stack, l) = 0 /\ \A k \in 1 .. n : Tally(stack, k) = acts[k].wants
      BY <1>1, <1>3, <2>1
    <3> QED
      BY <1>1, <2>1, <3>1
  <2>2. CASE /\ Act.wants = 1 /\ stack # <<>>
             /\ stack' = IF r = 1 THEN Append(Front(stack), Len(acts) - 1) ELSE Front(stack)
    <3> DEFINE m == Len(stack) - 1
               p == Front(stack)
    <3>1. /\ p \in Seq(Nat) /\ Len(p) = m /\ m \in Nat /\ m \in 0 .. Len(stack)
          /\ Len(stack) - m = 1 /\ \A i \in 1 .. m : p[i] = stack[i]
      BY <1>1, <2>2, FrontOf
    <3>2. \A i \in m + 1 .. Len(stack) : stack[i] = l
      <4>1. 1 \in 0 .. Act.wants
        BY <2>2
      <4>2. \A i \in Len(stack) - 1 + 1 .. Len(stack) : stack[i] = Len(acts)
        BY <4>1, TopOperands
      <4> QED
        BY <4>2 DEF l
    <3>3. stack' = IF r = 1 THEN Append(p, n) ELSE p
      <4>1. Len(acts) - 1 = n
        BY <1>1 DEF l
      <4> QED
        BY <2>2, <4>1
    <3> HIDE DEF p, m
    <3>4. ASSUME NEW k \in 1 .. l
          PROVE  Tally(p, k) = IF k = l THEN 0 ELSE acts[k].wants
      <4>. k \in Nat /\ l \in Nat
        BY <1>1
      <4>1. Tally(stack, k) = Tally(p, k) + (IF k = l THEN Len(stack) - m ELSE 0)
        BY <1>1, <3>1, <3>2, TallyAbove
      <4>2. Tally(p, k) \in Nat
        BY <3>1, TallyNat
      <4>3. CASE k = l
        <5>1. Tally(stack, l) = Tally(p, l) + 1 /\ Tally(stack, l) = 1
          BY <1>1, <1>3, <2>2, <3>1, <4>1, <4>3
        <5> QED
          BY <4>2, <4>3, <5>1
      <4>4. CASE k # l
        BY <1>3, <4>1, <4>2, <4>4
      <4> QED
        BY <4>3, <4>4
    <3>5. Tally(p, l) = 0 /\ \A k \in 1 .. n : Tally(p, k) = acts[k].wants
      <4>1. l \in 1 .. l /\ \A k \in 1 .. n : k \in 1 .. l /\ k # l
        BY <1>1
      <4> QED
        BY <3>4, <4>1
    <3>6. Len(p) <= Len(stack) /\ \A i \in 1 .. Len(p) : p[i] = stack[i]
      BY <3>1
    <3> QED
      BY <3>1, <3>3, <3>5, <3>6
  <2> QED
    BY <2>1, <2>2 DEF Returning
<1>5. \A i \in 1 .. Len(rest) : i \in 1 .. Len(stack) /\ rest[i] # l
  <2>1. l \in Nat /\ Tally(rest, l) = 0
    BY <1>1, <1>4
  <2>2. \A i \in 1 .. Len(rest) : rest[i] # l
    BY <2>1, TallyNat
  <2> QED
    BY <1>1, <1>4, <2>2
<1>6. /\ \A i \in 1 .. Len(rest) : rest[i] \in 1 .. n
      /\ \A i, j \in 1 .. Len(rest) : i < j => rest[i] <= rest[j]
  <2>1. ASSUME NEW i \in 1 .. Len(rest) PROVE rest[i] \in 1 .. n
    <3>1. rest[i] \in 1 .. l /\ rest[i] # l
      BY <1>3, <1>4, <1>5
    <3> QED
      BY <1>1, <3>1
  <2>2. \A i, j \in 1 .. Len(rest) : i < j => rest[i] <= rest[j]
    BY <1>3, <1>4, <1>5
  <2> QED
    BY <2>1, <2>2
<1>7. CASE r = 0
  <2>1. stack' = rest /\ \A k \in 1 .. n : acts'[k].wants = acts[k].wants
    <3>1. acts'[n].wants = acts[n].wants
      BY <1>1, <1>2, <1>7
    <3>2. \A k \in 1 .. n : k = n \/ k \in 1 .. n - 1
      BY <1>1
    <3> QED
      BY <1>2, <1>4, <1>7, <3>1, <3>2
  <2> QED
    BY <1>2, <1>4, <1>6, <2>1 DEF OperandsInv
<1>8. CASE r = 1
  <2>1. /\ stack' = Append(rest, n) /\ Len(stack') = Len(rest) + 1 /\ Len(rest) \in Nat
        /\ stack'[Len(rest) + 1] = n
        /\ \A i \in 1 .. Len(rest) : stack'[i] = rest[i]
    BY <1>1, <1>4, <1>8
  <2>2. \A i \in 1 .. Len(stack') : i = Len(rest) + 1 \/ i \in 1 .. Len(rest)
    BY <2>1
  <2>3. \A i \in 1 .. Len(stack') : stack'[i] \in 1 .. n
    BY <1>1, <1>6, <2>1, <2>2
  <2>4. \A i, j \in 1 .. Len(stack') : i < j => stack'[i] <= stack'[j]
    <3> SUFFICES ASSUME NEW i \in 1 .. Len(stack'), NEW j \in 1 .. Len(stack'), i < j
                 PROVE  stack'[i] <= stack'[j]
      OBVIOUS
    <3>1. i \in 1 .. Len(rest) /\ stack'[i] = rest[i] /\ rest[i] <= n
      BY <1>1, <1>6, <2>1, <2>2
    <3>2. CASE j = Len(rest) + 1
      BY <2>1, <3>1, <3>2
    <3>3. CASE j \in 1 .. Len(rest)
      BY <1>6, <2>1, <3>1, <3>3
    <3> QED
      BY <2>2, <3>2, <3>3
  <2>5. ASSUME NEW k \in 1 .. n PROVE Tally(stack', k) = acts'[k].wants
    <3>. k \in Nat /\ n \in Nat
      BY <1>1
    <3>1. Tally(Append(rest, n), k) = Tally(rest, k) + (IF k = n THEN 1 ELSE 0)
      BY TallyAppend
    <3>2. Tally(rest, k) \in Nat
      BY TallyNat
    <3>3. CASE k = n
      BY <1>2, <1>4, <1>8, <2>1, <3>1, <3>2, <3>3
    <3>4. CASE k # n
      <4>1. acts'[k] = acts[k]
        BY <1>2, <3>4
      <4> QED
        BY <1>4, <2>1, <3>1, <3>2, <3>4, <4>1
    <3> QED
      BY <3>3, <3>4
  <2> QED
    BY <1>2, <2>3, <2>4, <2>5 DEF OperandsInv
<1> QED
  BY <1>1, <1>7, <1>8

LEMMA OperandsStep ==
  ASSUME BaseInv, OperandsInv, Shape
  PROVE  OperandsInv'
<1>1. CASE Cleared
  BY <1>1, ClearedOperands
<1>2. ASSUME NEW a, Opcode(a) PROVE OperandsInv'
  BY <1>2, OpcodeOperands
<1>3. ASSUME NEW push, NEW n, NEW site, NEW c, Entering(push, n, site, c) PROVE OperandsInv'
  BY <1>3, EnteringOperands
<1>4. CASE Isolating \/ Aside
  <2>1. stack' = stack /\ acts' = acts
    BY <1>4 DEF Isolating, Aside
  <2> QED
    BY <2>1 DEF OperandsInv
<1>5. ASSUME NEW r, Returning(r) PROVE OperandsInv'
  BY <1>5, ReturningOperands
<1> QED
  BY <1>1, <1>2, <1>3, <1>4, <1>5 DEF Shape

\* The operand stack holds, for each call in progress, just as many operands as
\* its expression waits with, and a routine's lie above its caller's.
THEOREM StackInPlace == Spec => []OperandsInPlace
<1>1. ASSUME Init PROVE OperandsInv
  <2>1. stack = <<>> /\ acts = <<NewAct(AllOff)>> /\ NewAct(AllOff).wants = 0
    BY <1>1 DEF Init, NewAct
  <2>2. stack \in Seq(Nat) /\ Len(stack) = 0 /\ Len(acts) = 1 /\ acts[1].wants = 0
    BY <2>1
  <2>3. Tally(stack, 1) = 0
    <3>1. {i \in 1 .. Len(stack) : stack[i] = 1} = {}
      BY <2>2
    <3> QED
      BY <3>1, FS_EmptySet DEF Tally
  <2> QED
    BY <2>2, <2>3 DEF OperandsInv
<1>2. BaseInv /\ OperandsInv /\ [Next]_vars => OperandsInv'
  BY StepBase, OperandsStep
<1>3. BaseInv /\ OperandsInv => OperandsInPlace
  <2> SUFFICES ASSUME BaseInv, OperandsInv PROVE OperandsInPlace
    OBVIOUS
  <2>1. DOMAIN stack = 1 .. Len(stack) /\ DOMAIN acts = 1 .. Len(acts)
    BY ActTyped DEF BaseInv, TypeInv
  <2> QED
    BY <2>1 DEF OperandsInv, OperandsInPlace, Tally
<1> QED
  BY <1>1, <1>2, <1>3, BaseInvariant, PTL DEF Spec

-----------------------------------------------------------------------------
(* The counters of counted loops.                                          *)

CountedAt(k, j) == j \in 1 .. Len(acts[k].loops) /\ acts[k].loops[j].kind = "count"

\* A counted loop has its own counter, below those of the routines it calls.
CounterInv ==
    \A k \in 1 .. Len(acts) : \A j \in Nat : CountedAt(k, j) =>
        /\ BaseOf(k) + j <= Len(counters)
        /\ counters[BaseOf(k) + j] = acts[k].loops[j].left
        /\ \A l \in 1 .. Len(acts) : k < l => BaseOf(k) + j <= BaseOf(l)

LEMMA BaseOfNat ==
  ASSUME TypeInv, NEW k \in 1 .. Len(acts)
  PROVE  BaseOf(k) \in Nat /\ (k = Len(acts) => BaseOf(k) = base)
<1>1. /\ frames \in Seq(FrameRec) /\ base \in Nat /\ Len(acts) = Len(frames) + 1
      /\ Len(frames) \in Nat
  BY ActTyped DEF TypeInv
<1>2. CASE k = Len(acts)
  BY <1>1, <1>2 DEF BaseOf
<1>3. CASE k # Len(acts)
  <2>1. frames[k] \in FrameRec
    BY <1>1, <1>3
  <2> QED
    BY <1>3, <2>1 DEF BaseOf, FrameRec
<1> QED
  BY <1>2, <1>3

LEMMA ClearedCounters ==
  ASSUME Cleared
  PROVE  CounterInv'
<1>1. acts' = <<NewAct(trap')>> /\ NewAct(trap').loops = <<>>
  BY NewActTyped DEF Cleared
<1>2. Len(acts') = 1 /\ Len(acts'[1].loops) = 0
  BY <1>1
<1>3. \A k \in 1 .. Len(acts') : \A j \in Nat : ~CountedAt(k, j)'
  BY <1>2 DEF CountedAt
<1> QED
  BY <1>3 DEF CounterInv

LEMMA OpcodeCounters ==
  ASSUME BaseInv, CounterInv, NEW a, Opcode(a)
  PROVE  CounterInv'
<1>0. PICK n : n = Len(acts)
  OBVIOUS
<1>1. /\ TypeInv /\ n \in Nat /\ n \in 1 .. n /\ Act = acts[n] /\ n = Len(frames) + 1
      /\ a \in ActRec /\ acts' = WithAct(a) /\ UNCHANGED <<frames, base>>
      /\ base \in Nat /\ counters \in Seq(Int) /\ counters' \in Seq(Int)
      /\ Len(counters') >= Len(counters) /\ Len(counters) \in Nat /\ Len(counters') \in Nat
      /\ Len(frames) \in Nat
  BY <1>0, ActTyped DEF BaseInv, TypeInv, Opcode, Inner, callVars
<1>2. /\ Len(acts') = n /\ acts'[n] = a
      /\ \A k \in 1 .. n : k # n => acts'[k] = acts[k]
  <2>1. \A k \in 1 .. n : k # n => k \in 1 .. Len(frames)
    BY <1>1
  <2> QED
    BY <1>0, <1>1, <2>1, WithActIs
<1>3. PICK j \in 0 .. Len(Loops) : LoopWork(a, j)
  BY DEF Opcode
<1>4. j \in Nat /\ Len(Loops) \in Nat /\ Loops \in Seq(LoopRec)
  BY <1>1, ActTyped
<1>5. \A k \in 1 .. n : BaseOf(k)' = BaseOf(k)
  BY <1>0, <1>1, <1>2 DEF BaseOf
<1>6. \A k \in 1 .. n : BaseOf(k) \in Nat
  BY <1>0, <1>1, BaseOfNat
<1>7. BaseOf(n) = base
  BY <1>0 DEF BaseOf
<1>8. ASSUME NEW k \in 1 .. n, NEW i \in Nat, k # n \/ i <= j, CountedAt(k, i)'
      PROVE  /\ BaseOf(k) + i <= Len(counters')
             /\ counters'[BaseOf(k) + i] = acts'[k].loops[i].left
             /\ \A l \in 1 .. n : k < l => BaseOf(k) + i <= BaseOf(l)
  <2>1. CountedAt(k, i) /\ acts'[k].loops[i] = acts[k].loops[i]
    <3>1. CASE k # n
      BY <1>2, <1>8, <3>1 DEF CountedAt
    <3>2. CASE k = n
      <4>1. i \in 1 .. j /\ a.loops[i] = Loops[i] /\ i \in 1 .. Len(Loops)
        BY <1>3, <1>4, <1>8, <3>2 DEF LoopWork, CountedAt
      <4> QED
        BY <1>1, <1>2, <1>8, <3>2, <4>1 DEF CountedAt, Loops
    <3> QED
      BY <3>1, <3>2
  <2>2. /\ BaseOf(k) + i <= Len(counters)
        /\ counters[BaseOf(k) + i] = acts[k].loops[i].left
        /\ \A l \in 1 .. n : k < l => BaseOf(k) + i <= BaseOf(l)
    BY <1>0, <2>1 DEF CounterInv
  <2>3. BaseOf(k) + i <= base + j
    <3>1. CASE k # n
      <4>1. n \in 1 .. n /\ k < n
        BY <1>1, <3>1
      <4>2. BaseOf(k) + i <= BaseOf(n)
        BY <2>2, <4>1
      <4> QED
        BY <1>1, <1>4, <1>6, <1>7, <4>2
    <3>2. CASE k = n
      BY <1>1, <1>4, <1>7, <1>8, <3>2
    <3> QED
      BY <3>1, <3>2
  <2>4. BaseOf(k) + i \in 1 .. Len(counters)
    <3>1. BaseOf(k) \in Nat /\ i >= 1
      BY <1>1, <1>6, <2>1 DEF CountedAt
    <3>2. BaseOf(k) + i <= Len(counters) /\ Len(counters) \in Nat
      BY <1>1, <2>2
    <3> QED
      BY <3>1, <3>2
  <2>5. counters'[BaseOf(k) + i] = counters[BaseOf(k) + i]
    BY <1>3, <2>3, <2>4 DEF LoopWork
  <2> QED
    BY <1>1, <2>1, <2>2, <2>4, <2>5
<1>9. ASSUME CountedAt(n, j + 1)'
      PROVE  /\ base + (j + 1) <= Len(counters')
             /\ counters'[base + (j + 1)] = a.loops[j + 1].left
  <2> DEFINE c == Cell(j)
  <2>1. c = base + (j + 1) /\ c \in Nat /\ c >= 1
    BY <1>1, <1>4 DEF Cell
  <2>2. Len(a.loops) = j + 1 /\ a.loops[j + 1].kind = "count" /\ a.loops \in Seq(LoopRec)
    <3>1. j + 1 \in 1 .. Len(a.loops) /\ a.loops[j + 1].kind = "count"
      BY <1>2, <1>9 DEF CountedAt
    <3>2. Len(a.loops) \in {j, j + 1}
      BY <1>3 DEF LoopWork
    <3>3. a.loops \in Seq(LoopRec)
      BY <1>1 DEF ActRec
    <3> QED
      BY <1>4, <3>1, <3>2, <3>3
  <2>3. a.loops[j + 1] \in LoopRec
    BY <1>4, <2>2
  <2>4. a.loops[j + 1].left \in Int
    BY <2>3 DEF LoopRec
  <2>5. CountTold(a.loops[j + 1], j)
    BY <1>3, <2>2 DEF LoopWork
  <2>6. c <= Len(counters')
    BY <2>2, <2>5 DEF CountTold
  <2> HIDE DEF c
  <2>7. counters'[c] \in Int
    BY <1>1, <2>1, <2>6
  <2>8. CASE counters'[c] = a.loops[j + 1].left
    BY <2>1, <2>6, <2>8
  <2>9. CASE counters'[c] # a.loops[j + 1].left
    <3>1. /\ j < Len(Loops) /\ Loops[j + 1].kind = "count" /\ c <= Len(counters)
          /\ counters'[c] - counters[c] = a.loops[j + 1].left - Loops[j + 1].left
      BY <2>2, <2>5, <2>9 DEF CountTold, c
    <3>2. CountedAt(n, j + 1) /\ acts[n].loops[j + 1] = Loops[j + 1]
      <4>1. acts[n].loops = Loops
        BY <1>1 DEF Loops
      <4>2. j + 1 \in 1 .. Len(Loops)
        BY <1>4, <3>1
      <4> QED
        BY <3>1, <4>1, <4>2 DEF CountedAt
    <3>3. counters[c] = Loops[j + 1].left
      <4>1. counters[BaseOf(n) + (j + 1)] = acts[n].loops[j + 1].left
        <5>1. n \in 1 .. Len(acts) /\ j + 1 \in Nat
          BY <1>0, <1>1, <1>4
        <5> QED
          BY <3>2, <5>1 DEF CounterInv
      <4> QED
        BY <1>7, <2>1, <3>2, <4>1
    <3>4. counters[c] \in Int
      BY <1>1, <2>1, <3>1
    <3> QED
      BY <2>1, <2>4, <2>6, <2>7, <3>1, <3>3, <3>4
  <2> QED
    BY <2>8, <2>9
<1>10. ASSUME NEW k \in 1 .. n, NEW i \in Nat, CountedAt(k, i)'
       PROVE  /\ BaseOf(k) + i <= Len(counters')
              /\ counters'[BaseOf(k) + i] = acts'[k].loops[i].left
              /\ \A l \in 1 .. n : k < l => BaseOf(k) + i <= BaseOf(l)
  <2>1. CASE k # n \/ i <= j
    BY <1>8, <1>10, <2>1
  <2>2. CASE k = n /\ ~(i <= j)
    <3>1. i = j + 1
      BY <1>2, <1>3, <1>4, <1>10, <2>2 DEF CountedAt, LoopWork
    <3>2. /\ base + (j + 1) <= Len(counters')
          /\ counters'[base + (j + 1)] = a.loops[j + 1].left
      <4>1. CountedAt(n, j + 1)'
        BY <1>10, <2>2, <3>1
      <4> QED
        BY <1>9, <4>1
    <3>3. \A l \in 1 .. n : ~(n < l)
      BY <1>1
    <3> QED
      BY <1>2, <1>7, <2>2, <3>1, <3>2, <3>3
  <2> QED
    BY <2>1, <2>2
<1> QED
  BY <1>2, <1>5, <1>10 DEF CounterInv

\* Where a routine's counters start: past each counted loop its call is in.
LEMMA SitePastCounted ==
  ASSUME TypeInv, NEW site \in Sites, NEW j \in 1 .. Len(Loops), Loops[j].kind = "count"
  PROVE  j <= site
<1>1. Len(Loops) \in Nat
  BY ActTyped
<1>2. CASE site = Len(Loops)
  BY <1>1, <1>2
<1>3. CASE site # Len(Loops)
  <2>1. site = Len(Loops) - 1 /\ Last(Loops).kind = "plain"
    BY <1>3 DEF Sites
  <2>2. j # Len(Loops)
    BY <2>1 DEF Last
  <2> QED
    BY <1>1, <2>1, <2>2
<1> QED
  BY <1>2, <1>3

LEMMA EnteringCounters ==
  ASSUME BaseInv, CounterInv, NEW push, NEW n, NEW site, NEW c, Entering(push, n, site, c)
  PROVE  CounterInv'
<1>0. PICK m : m = Len(acts)
  OBVIOUS
<1>1. /\ TypeInv /\ m \in Nat /\ m \in 1 .. m /\ Act = acts[m] /\ m = Len(frames) + 1
      /\ Len(frames) \in Nat /\ base \in Nat /\ trap \in Traps /\ site \in Sites
  BY <1>0, ActTyped DEF BaseInv, TypeInv, Entering
<1>2. /\ Len(acts') = m + 1 /\ acts'[m].loops = Loops
      /\ \A k \in 1 .. m - 1 : acts'[k] = acts[k]
      /\ acts'[m + 1].loops = <<>>
      /\ \A k \in 1 .. m - 1 : frames'[k] = frames[k]
      /\ frames'[m] = FrameOf(push, n) /\ base' = base + site
      /\ site \in Nat /\ counters' = counters
  <2>1. m - 1 = Len(frames) /\ NewAct(trap).loops = <<>>
    BY <1>1, NewActTyped
  <2> QED
    <3>1. /\ Len(acts') = m + 1 /\ acts'[m].loops = Loops
          /\ \A k \in 1 .. m - 1 : acts'[k] = acts[k]
      BY <1>0, <2>1, EnteringIs
    <3>2. acts'[m + 1].loops = <<>>
      BY <1>0, <2>1, EnteringIs
    <3>3. /\ \A k \in 1 .. m - 1 : frames'[k] = frames[k]
          /\ frames'[m] = FrameOf(push, n)
      <4>1. Len(frames) + 1 = m
        BY <1>1
      <4> QED
        BY <2>1, <4>1, EnteringIs
    <3>4. base' = base + site /\ counters' = counters /\ site \in Nat
      BY EnteringIs
    <3> QED
      BY <3>1, <3>2, <3>3, <3>4
<1>3. /\ \A k \in 1 .. m : BaseOf(k) \in Nat
      /\ BaseOf(m) = base
  BY <1>0, <1>1, BaseOfNat
<1>4. ASSUME NEW k \in 1 .. m PROVE BaseOf(k)' = BaseOf(k) /\ acts'[k].loops = acts[k].loops
  <2>1. CASE k = m
    <3>1. BaseOf(k)' = frames'[m].base
      BY <1>1, <1>2, <2>1 DEF BaseOf
    <3> QED
      BY <1>1, <1>2, <1>3, <2>1, <3>1 DEF FrameOf, Loops
  <2>2. CASE k # m
    <3>1. k \in 1 .. m - 1 /\ k # m + 1
      BY <1>1, <2>2
    <3> QED
      BY <1>0, <1>2, <2>2, <3>1 DEF BaseOf
  <2> QED
    BY <2>1, <2>2
<1>5. BaseOf(m + 1)' = base + site
  BY <1>2 DEF BaseOf
<1>6. ASSUME NEW k \in 1 .. m + 1, NEW j \in Nat, CountedAt(k, j)'
      PROVE  k \in 1 .. m /\ CountedAt(k, j)
  <2>1. k # m + 1
    BY <1>2, <1>6 DEF CountedAt
  <2>2. k \in 1 .. m
    BY <1>1, <2>1
  <2> QED
    BY <1>4, <1>6, <2>2 DEF CountedAt
<1>7. ASSUME NEW k \in 1 .. m, NEW j \in Nat, CountedAt(k, j)
      PROVE  BaseOf(k) + j <= base + site
  <2>1. CASE k = m
    <3>1. j <= site
      BY <1>1, <1>7, <2>1, SitePastCounted DEF CountedAt, Loops
    <3> QED
      BY <1>1, <1>2, <1>3, <2>1, <3>1
  <2>2. CASE k # m
    <3>1. k < m
      BY <1>1, <2>2
    <3>2. BaseOf(k) + j <= BaseOf(m)
      BY <1>0, <1>1, <1>7, <3>1 DEF CounterInv
    <3> QED
      BY <1>1, <1>2, <1>3, <3>2
  <2> QED
    BY <2>1, <2>2
<1>8. ASSUME NEW k \in 1 .. m + 1, NEW j \in Nat, CountedAt(k, j)'
      PROVE  /\ BaseOf(k)' + j <= Len(counters')
             /\ counters'[BaseOf(k)' + j] = acts'[k].loops[j].left
             /\ \A l \in 1 .. m + 1 : k < l => BaseOf(k)' + j <= BaseOf(l)'
  <2>1. k \in 1 .. m /\ CountedAt(k, j)
    BY <1>6, <1>8
  <2>2. /\ BaseOf(k) + j <= Len(counters)
        /\ counters[BaseOf(k) + j] = acts[k].loops[j].left
        /\ \A l \in 1 .. m : k < l => BaseOf(k) + j <= BaseOf(l)
    BY <1>0, <2>1 DEF CounterInv
  <2>3. BaseOf(k)' = BaseOf(k) /\ acts'[k].loops = acts[k].loops
    BY <1>4, <2>1
  <2>4. ASSUME NEW l \in 1 .. m + 1, k < l PROVE BaseOf(k)' + j <= BaseOf(l)'
    <3>1. CASE l = m + 1
      BY <1>5, <1>7, <2>1, <2>3, <3>1
    <3>2. CASE l # m + 1
      <4>1. l \in 1 .. m
        BY <1>1, <3>2
      <4> QED
        BY <1>4, <2>2, <2>3, <2>4, <4>1
    <3> QED
      BY <3>1, <3>2
  <2> QED
    BY <1>2, <2>2, <2>3, <2>4
<1> QED
  BY <1>2, <1>8 DEF CounterInv

LEMMA ReturningCounters ==
  ASSUME BaseInv, CounterInv, NEW r, Returning(r)
  PROVE  CounterInv'
<1> DEFINE n == Len(frames)
<1>1. /\ n \in Nat /\ n >= 1 /\ Len(acts) = n + 1
  BY ReturningIs DEF BaseInv, TypeInv
<1>2. /\ \A k \in 1 .. n - 1 : frames'[k] = frames[k] /\ acts'[k] = acts[k]
      /\ base' = frames[n].base /\ Len(acts') = n /\ acts'[n].loops = acts[n].loops
      /\ counters' = counters
  BY ReturningIs
<1> HIDE DEF n
<1>3. ASSUME NEW k \in 1 .. n
      PROVE  /\ BaseOf(k)' = BaseOf(k) /\ acts'[k].loops = acts[k].loops
             /\ k \in 1 .. Len(acts)
  <2>1. CASE k = n
    <3>1. BaseOf(k)' = base'
      BY <1>2, <2>1 DEF BaseOf
    <3>2. n # Len(acts) /\ n \in 1 .. Len(acts)
      BY <1>1
    <3> QED
      BY <1>2, <2>1, <3>1, <3>2 DEF BaseOf
  <2>2. CASE k # n
    <3>1. k \in 1 .. n - 1 /\ k # n + 1 /\ k \in 1 .. n + 1
      BY <1>1, <2>2
    <3> QED
      BY <1>1, <1>2, <2>2, <3>1 DEF BaseOf
  <2> QED
    BY <2>1, <2>2
<1>4. \A k \in 1 .. n : \A j \in Nat : CountedAt(k, j)' => CountedAt(k, j)
  BY <1>3 DEF CountedAt
<1> QED
  BY <1>2, <1>3, <1>4 DEF CounterInv

LEMMA CountersStep ==
  ASSUME BaseInv, CounterInv, Shape
  PROVE  CounterInv'
<1>1. CASE Cleared
  BY <1>1, ClearedCounters
<1>2. ASSUME NEW a, Opcode(a) PROVE CounterInv'
  BY <1>2, OpcodeCounters
<1>3. ASSUME NEW push, NEW n, NEW site, NEW c, Entering(push, n, site, c) PROVE CounterInv'
  BY <1>3, EnteringCounters
<1>4. CASE Isolating \/ Aside
  <2>1. /\ acts' = acts /\ base' = base /\ counters' = counters
        /\ \A k \in 1 .. Len(frames) : frames'[k].base = frames[k].base
    <3>1. CASE Aside
      BY <3>1 DEF Aside
    <3>2. CASE Isolating
      <4>1. \A k \in 1 .. Len(frames) : k = Len(frames) \/ k \in 1 .. Len(frames) - 1
        <5>1. Len(frames) \in Nat
          BY ActTyped DEF BaseInv
        <5> QED
          BY <5>1
      <4>2. \A k \in 1 .. Len(frames) : frames'[k].base = frames[k].base
        BY <3>2, <4>1, IsolatingIs DEF BaseInv
      <4> QED
        BY <3>2, <4>2 DEF Isolating
    <3> QED
      BY <1>4, <3>1, <3>2
  <2>2. \A k \in 1 .. Len(acts) : k = Len(acts) \/ k \in 1 .. Len(frames)
    BY ActTyped DEF BaseInv
  <2>3. \A k \in 1 .. Len(acts) : BaseOf(k)' = BaseOf(k)
    BY <2>1, <2>2 DEF BaseOf
  <2>4. \A k \in 1 .. Len(acts) : \A j \in Nat : CountedAt(k, j)' <=> CountedAt(k, j)
    BY <2>1 DEF CountedAt
  <2>5. ASSUME NEW k \in 1 .. Len(acts'), NEW j \in Nat, CountedAt(k, j)'
        PROVE  /\ BaseOf(k)' + j <= Len(counters')
               /\ counters'[BaseOf(k)' + j] = acts'[k].loops[j].left
               /\ \A l \in 1 .. Len(acts') : k < l => BaseOf(k)' + j <= BaseOf(l)'
    <3>1. CountedAt(k, j) /\ k \in 1 .. Len(acts)
      BY <2>1, <2>4, <2>5
    <3>2. /\ BaseOf(k) + j <= Len(counters)
          /\ counters[BaseOf(k) + j] = acts[k].loops[j].left
          /\ \A l \in 1 .. Len(acts) : k < l => BaseOf(k) + j <= BaseOf(l)
      BY <3>1 DEF CounterInv
    <3> QED
      BY <2>1, <2>3, <3>1, <3>2
  <2> QED
    BY <2>5 DEF CounterInv
<1>5. ASSUME NEW r, Returning(r) PROVE CounterInv'
  BY <1>5, ReturningCounters
<1> QED
  BY <1>1, <1>2, <1>3, <1>4, <1>5 DEF Shape

\* "A routine never reuses its caller's counters": whatever calls what out of
\* which loop, WHILE header or expression, and however often the arrays grow,
\* each counted loop in progress finds in its counter how often it still runs.
THEOREM CountersKept == Spec => []CounterOwned
<1>1. ASSUME Init PROVE CounterInv
  <2>1. acts = <<NewAct(AllOff)>> /\ NewAct(AllOff).loops = <<>>
    BY <1>1 DEF Init, NewAct
  <2>2. Len(acts) = 1 /\ Len(acts[1].loops) = 0
    BY <2>1
  <2>3. \A k \in 1 .. Len(acts) : \A j \in Nat : ~CountedAt(k, j)
    BY <2>2 DEF CountedAt
  <2> QED
    BY <2>3 DEF CounterInv
<1>2. BaseInv /\ CounterInv /\ [Next]_vars => CounterInv'
  BY StepBase, CountersStep
<1>3. BaseInv /\ CounterInv => CounterOwned
  <2> SUFFICES ASSUME BaseInv, CounterInv PROVE CounterOwned
    OBVIOUS
  <2>1. DOMAIN acts = 1 .. Len(acts) /\ acts \in Seq(ActRec)
    BY ActTyped DEF BaseInv, TypeInv
  <2>2. ASSUME NEW k \in 1 .. Len(acts), NEW j \in DOMAIN acts[k].loops,
               acts[k].loops[j].kind = "count"
        PROVE  CountedAt(k, j) /\ j \in Nat
    <3>1. acts[k] \in ActRec
      BY <2>1
    <3>2. acts[k].loops \in Seq(LoopRec)
      BY <3>1 DEF ActRec
    <3> QED
      BY <2>2, <3>2 DEF CountedAt
  <2> QED
    BY <2>1, <2>2 DEF CounterInv, CounterOwned
<1> QED
  BY <1>1, <1>2, <1>3, BaseInvariant, PTL DEF Spec

-----------------------------------------------------------------------------
(* The variables of DO TO.                                                 *)

ToAt(k, j) == j \in 1 .. Len(acts[k].loops) /\ acts[k].loops[j].kind \in ToKinds

\* Variables h hold limit and step of loop l, and its count if it has one.
HoldsLoop(h, l) == h.bound = l.bound /\ (l.kind = "for" => h.left = l.left)

\* The loops of one call have variables of different names.
NamesApart ==
    \A k \in 1 .. Len(acts) : \A i, j \in Nat :
        ToAt(k, i) /\ ToAt(k, j) /\ i # j => HiddenIx(i - 1) # HiddenIx(j - 1)

\* A routine with a DO TO has a pool of its own, which holds its variables.
ForInv ==
    /\ at = "label" => acts[Len(acts)].loops = <<>>
    /\ NamesApart
    /\ \A k \in 1 .. Len(acts) : \A j \in Nat : ToAt(k, j) =>
          /\ HoldsLoop(hidden[1 + Own(frames, k - 1)][HiddenIx(j - 1)], acts[k].loops[j])
          /\ k > 1 => frames[k - 1].isolated

LEMMA ClearedHidden ==
  ASSUME Cleared
  PROVE  ForInv'
<1>1. acts' = <<NewAct(trap')>> /\ NewAct(trap').loops = <<>> /\ at' # "label"
  BY NewActTyped DEF Cleared
<1>2. Len(acts') = 1 /\ acts'[1].loops = <<>>
  BY <1>1
<1>3. \A k \in 1 .. Len(acts') : \A j \in Nat : ~ToAt(k, j)'
  BY <1>2 DEF ToAt
<1> QED
  BY <1>1, <1>3 DEF ForInv, NamesApart

\* Nothing but a loop's own opcodes touches its names.
LEMMA NamesOfDepth ==
  ASSUME BaseInv, ForInv, ~ForDeep, ~ForShared, NEW j \in 0 .. Len(Loops),
         NewNames(j) \/ (j < Len(Loops) /\ Loops[j + 1].kind \in ToKinds)
  PROVE  /\ Len(acts) > 1 => frames[Len(acts) - 1].isolated
         /\ \A i \in 1 .. j : ToAt(Len(acts), i) => HiddenIx(i - 1) # HiddenIx(j)
<1>1. /\ TypeInv /\ Loops = acts[Len(acts)].loops /\ Len(Loops) \in Nat
      /\ Len(acts) \in 1 .. Len(acts) /\ Len(acts) - 1 = Len(frames)
  BY ActTyped DEF BaseInv, Loops
<1>2. \A i \in 1 .. j : i \in 1 .. Len(Loops) /\ i \in Nat /\ i # j + 1
  BY <1>1
<1>3. CASE NewNames(j)
  <2>1. frames # <<>> => frames[Len(frames)].isolated
    BY <1>3 DEF NewNames, OwnPool, Last
  <2>2. Len(acts) > 1 => frames # <<>>
    BY <1>1
  <2>3. DOMAIN Loops = 1 .. Len(Loops)
    BY <1>1, ActTyped
  <2>4. \A i \in 1 .. j : Loops[i].kind \in ToKinds => (i - 1) % DoNames # j % DoNames
    BY <1>2, <1>3, <2>3 DEF NewNames, NamesFree
  <2> QED
    BY <1>1, <2>1, <2>2, <2>4 DEF ToAt, HiddenIx
<1>4. CASE j < Len(Loops) /\ Loops[j + 1].kind \in ToKinds
  <2>1. j + 1 \in Nat /\ ToAt(Len(acts), j + 1) /\ j + 1 - 1 = j
    BY <1>1, <1>4 DEF ToAt
  <2>2. Len(acts) > 1 => frames[Len(acts) - 1].isolated
    BY <1>1, <2>1 DEF ForInv
  <2>3. \A i \in 1 .. j : ToAt(Len(acts), i) => HiddenIx(i - 1) # HiddenIx(j + 1 - 1)
    BY <1>1, <1>2, <2>1 DEF ForInv, NamesApart
  <2> QED
    BY <2>1, <2>2, <2>3
<1> QED
  BY <1>3, <1>4

LEMMA OpcodeNames ==
  ASSUME BaseInv, ForInv, ~ForShared, ~ForDeep, NEW a, Opcode(a)
  PROVE  NamesApart'
<1>0. PICK n : n = Len(acts)
  OBVIOUS
<1>1. /\ TypeInv /\ n \in Nat /\ n \in 1 .. n /\ Loops = acts[n].loops
      /\ a \in ActRec /\ acts' = WithAct(a) /\ Len(frames) = n - 1
  BY <1>0, ActTyped DEF BaseInv, Loops, Opcode, Inner
<1>2. /\ Len(acts') = n /\ acts'[n] = a
      /\ \A k \in 1 .. n : k # n => acts'[k] = acts[k]
  <2>1. \A k \in 1 .. n : k # n => k \in 1 .. Len(frames)
    BY <1>1
  <2> QED
    BY <1>0, <1>1, <2>1, WithActIs
<1>3. PICK j \in 0 .. Len(Loops) : LoopWork(a, j)
  BY DEF Opcode
<1>4. /\ j \in Nat /\ Len(Loops) \in Nat /\ Len(a.loops) \in {j, j + 1}
      /\ \A i \in 1 .. j : a.loops[i] = Loops[i]
  BY <1>1, <1>3, ActTyped DEF LoopWork
<1>5. ASSUME NEW i \in Nat, ToAt(n, i)'
      PROVE  i = j + 1 \/ (i \in 1 .. j /\ ToAt(n, i))
  BY <1>1, <1>2, <1>4, <1>5 DEF ToAt
<1>6. ASSUME ToAt(n, j + 1)'
      PROVE  \A i \in 1 .. j : ToAt(n, i) => HiddenIx(i - 1) # HiddenIx(j)
  <2>1. Len(a.loops) = j + 1 /\ a.loops[j + 1].kind \in ToKinds
    BY <1>2, <1>4, <1>6 DEF ToAt
  <2>2. ForTold(a.loops[j + 1], j)
    BY <1>3, <2>1 DEF LoopWork
  <2>3. NewNames(j) \/ (j < Len(Loops) /\ Loops[j + 1].kind \in ToKinds)
    BY <2>1, <2>2 DEF ForTold
  <2> QED
    BY <1>0, <2>3, NamesOfDepth
<1>7. ASSUME NEW i \in Nat, NEW l \in Nat, ToAt(n, i)', ToAt(n, l)', i # l
      PROVE  HiddenIx(i - 1) # HiddenIx(l - 1)
  <2>1. CASE i # j + 1 /\ l # j + 1
    <3>1. ToAt(n, i) /\ ToAt(n, l)
      BY <1>5, <1>7, <2>1
    <3> QED
      BY <1>0, <1>1, <1>7, <3>1 DEF ForInv, NamesApart
  <2>2. CASE i = j + 1 \/ l = j + 1
    <3>1. j + 1 - 1 = j
      BY <1>4
    <3> QED
      BY <1>5, <1>6, <1>7, <2>2, <3>1
  <2> QED
    BY <2>1, <2>2
<1>8. ASSUME NEW k \in 1 .. n, NEW i \in Nat, NEW l \in Nat, ToAt(k, i)', ToAt(k, l)', i # l
      PROVE  HiddenIx(i - 1) # HiddenIx(l - 1)
  <2>1. CASE k = n
    BY <1>7, <1>8, <2>1
  <2>2. CASE k # n
    <3>1. ToAt(k, i) /\ ToAt(k, l)
      BY <1>2, <1>8, <2>2 DEF ToAt
    <3> QED
      BY <1>0, <1>8, <3>1 DEF ForInv, NamesApart
  <2> QED
    BY <2>1, <2>2
<1> QED
  BY <1>2, <1>8 DEF NamesApart, HiddenIx

LEMMA OpcodeHidden ==
  ASSUME BaseInv, ForInv, ~ForShared, ~ForDeep, NEW a, Opcode(a)
  PROVE  ForInv'
<1>0. PICK n : n = Len(acts)
  OBVIOUS
<1>1. /\ TypeInv /\ n \in Nat /\ n \in 1 .. n /\ n >= 1 /\ Act = acts[n]
      /\ n = Len(frames) + 1 /\ Len(frames) \in Nat
      /\ a \in ActRec /\ acts' = WithAct(a) /\ UNCHANGED frames /\ at' = "run"
      /\ hidden \in Seq(PoolRec) /\ hidden' \in Seq(PoolRec) /\ Len(hidden') = Len(hidden)
      /\ Len(hidden) = 1 + Own(frames, n - 1) /\ n - 1 \in Nat /\ Own(frames, n - 1) \in Nat
      /\ frames \in Seq(FrameRec)
  <2>1. TypeInv
    BY DEF BaseInv
  <2>2. /\ n \in Nat /\ n \in 1 .. n /\ n >= 1 /\ Act = acts[n] /\ n = Len(frames) + 1
        /\ Len(frames) \in Nat /\ Len(frames) = n - 1 /\ n - 1 \in Nat
    BY <1>0, <2>1, ActTyped
  <2> QED
    BY <2>1, <2>2, OwnNat DEF TypeInv, Opcode, Inner, callVars
<1>2. /\ Len(acts') = n /\ acts'[n] = a
      /\ \A k \in 1 .. n : k # n => acts'[k] = acts[k]
  <2>1. \A k \in 1 .. n : k # n => k \in 1 .. Len(frames)
    BY <1>1
  <2> QED
    BY <1>0, <1>1, <2>1, WithActIs
<1>3. PICK j \in 0 .. Len(Loops) : LoopWork(a, j)
  BY DEF Opcode
<1>4. j \in Nat /\ Len(Loops) \in Nat /\ Loops = acts[n].loops
  BY <1>1, ActTyped DEF Loops
<1>5. \A i \in Nat : ToAt(n, i) =>
        /\ HoldsLoop(hidden[Len(hidden)][HiddenIx(i - 1)], Loops[i])
        /\ n > 1 => frames[n - 1].isolated
  BY <1>0, <1>1, <1>4 DEF ForInv
<1>6. ASSUME NewNames(j) \/ (j < Len(Loops) /\ Loops[j + 1].kind \in ToKinds)
      PROVE  /\ n > 1 => frames[n - 1].isolated
             /\ \A i \in 1 .. j : ToAt(n, i) => HiddenIx(i - 1) # HiddenIx(j)
  BY <1>0, <1>6, NamesOfDepth
<1>7. hidden' # hidden => NewNames(j) \/ (j < Len(Loops) /\ Loops[j + 1].kind \in ToKinds)
  BY <1>3 DEF LoopWork
<1>8. \A p \in 1 .. Len(hidden), d \in 0 .. DoNames - 1 :
         (p = Len(hidden) /\ d = HiddenIx(j)) \/ hidden'[p][d] = hidden[p][d]
  BY <1>3 DEF LoopWork
<1>9. /\ \A i \in Nat : HiddenIx(i) \in 0 .. DoNames - 1
      /\ Len(hidden) \in 1 .. Len(hidden) /\ hidden'[Len(hidden)] \in PoolRec
  <2>1. Len(hidden) = 1 + Own(frames, n - 1) /\ Own(frames, n - 1) \in Nat
    BY <1>1
  <2>2. Len(hidden) \in 1 .. Len(hidden)
    BY <2>1
  <2>3. hidden' \in Seq(PoolRec) /\ Len(hidden') = Len(hidden)
    BY <1>1
  <2> QED
    BY <2>2, <2>3, ConstantsPositive DEF HiddenIx
<1>10. ASSUME NEW k \in 1 .. n, NEW i \in Nat, k # n, ToAt(k, i)'
       PROVE  /\ HoldsLoop(hidden'[1 + Own(frames, k - 1)][HiddenIx(i - 1)], acts'[k].loops[i])
              /\ k > 1 => frames[k - 1].isolated
  <2> DEFINE p == 1 + Own(frames, k - 1)
  <2>1. acts'[k] = acts[k] /\ ToAt(k, i) /\ i >= 1 /\ i - 1 \in Nat
    BY <1>2, <1>10 DEF ToAt
  <2>2. /\ HoldsLoop(hidden[p][HiddenIx(i - 1)], acts[k].loops[i])
        /\ k > 1 => frames[k - 1].isolated
    BY <1>0, <2>1 DEF ForInv
  <2>3. hidden'[p][HiddenIx(i - 1)] = hidden[p][HiddenIx(i - 1)]
    <3>1. CASE hidden' = hidden
      BY <3>1
    <3>2. CASE hidden' # hidden
      <4> DEFINE m == n - 2
      <4>1. m \in Nat /\ n - 1 = m + 1 /\ k - 1 <= m /\ k - 1 \in Nat /\ n > 1
        BY <1>1, <1>10
      <4> HIDE DEF m
      <4>2. frames[m + 1].isolated
        <5>1. frames[n - 1].isolated
          BY <1>6, <1>7, <3>2, <4>1
        <5> QED
          BY <4>1, <5>1
      <4>3. Own(frames, m + 1) = Own(frames, m) + 1 /\ Own(frames, m) \in Nat
        BY <4>1, <4>2, OwnNat
      <4>4. Own(frames, k - 1) <= Own(frames, m) /\ Own(frames, k - 1) \in Nat
        BY <4>1, OwnGrows
      <4>5. p \in 1 .. Len(hidden) /\ p # Len(hidden)
        <5>1. Len(hidden) = 1 + Own(frames, m + 1)
          BY <1>1, <4>1
        <5>2. Own(frames, k - 1) < Own(frames, m + 1)
          BY <4>3, <4>4
        <5>3. Own(frames, k - 1) \in Nat /\ Own(frames, m + 1) \in Nat
          BY <4>3, <4>4
        <5> QED
          BY <5>1, <5>2, <5>3
      <4>6. HiddenIx(i - 1) \in 0 .. DoNames - 1
        BY <1>9, <2>1
      <4> HIDE DEF p
      <4> QED
        BY <1>8, <4>5, <4>6
    <3> QED
      BY <3>1, <3>2
  <2> QED
    BY <2>1, <2>2, <2>3
<1>11. ASSUME NEW i \in Nat, ToAt(n, i)'
       PROVE  /\ HoldsLoop(hidden'[Len(hidden)][HiddenIx(i - 1)], a.loops[i])
              /\ n > 1 => frames[n - 1].isolated
  <2>1. i \in 1 .. Len(a.loops) /\ a.loops[i].kind \in ToKinds /\ i >= 1 /\ i - 1 \in Nat
    BY <1>2, <1>11 DEF ToAt
  <2>2. Len(a.loops) = j \/ Len(a.loops) = j + 1
    BY <1>3 DEF LoopWork
  <2>3. CASE i <= j
    <3>1. i \in 1 .. j /\ i \in 1 .. Len(Loops)
      BY <1>4, <2>1, <2>3
    <3>2. a.loops[i] = Loops[i] /\ ToAt(n, i)
      BY <1>3, <1>4, <2>1, <3>1 DEF LoopWork, ToAt
    <3>3. /\ HoldsLoop(hidden[Len(hidden)][HiddenIx(i - 1)], Loops[i])
          /\ n > 1 => frames[n - 1].isolated
      BY <1>5, <3>2
    <3>4. hidden'[Len(hidden)][HiddenIx(i - 1)] = hidden[Len(hidden)][HiddenIx(i - 1)]
      <4>1. CASE hidden' # hidden
        <5>1. HiddenIx(i - 1) # HiddenIx(j)
          BY <1>6, <1>7, <3>1, <3>2, <4>1
        <5>2. HiddenIx(i - 1) \in 0 .. DoNames - 1 /\ Len(hidden) \in 1 .. Len(hidden)
          BY <1>9, <2>1
        <5> QED
          BY <1>8, <5>1, <5>2
      <4> QED
        BY <4>1
    <3> QED
      BY <3>2, <3>3, <3>4
  <2>4. CASE ~(i <= j)
    <3> DEFINE l == a.loops[j + 1]
               o == Loops[j + 1]
    <3>1. i = j + 1 /\ Len(a.loops) = j + 1 /\ i - 1 = j /\ l.kind \in ToKinds
      BY <1>4, <2>1, <2>2, <2>4
    <3> HIDE DEF l, o
    <3>2. ForTold(l, j)
      BY <1>3, <3>1 DEF LoopWork, l
    <3>3. CASE NewNames(j) /\ HoldsLoop(HiddenNow(j), l)
      BY <1>6, <3>1, <3>3 DEF HiddenNow, l
    <3>4. CASE ~(NewNames(j) /\ HoldsLoop(HiddenNow(j), l))
      <4>1. /\ j < Len(Loops) /\ o.kind = l.kind
            /\ HiddenNow(j).bound = HiddenAt(j).bound /\ l.bound = o.bound
            /\ l.kind = "for" => HiddenNow(j).left - HiddenAt(j).left = l.left - o.left
        BY <3>1, <3>2, <3>4 DEF ForTold, HoldsLoop, o
      <4>2. ToAt(n, j + 1) /\ j + 1 \in Nat /\ (j + 1) - 1 = j
        BY <1>4, <3>1, <4>1 DEF ToAt, o
      <4>3. HoldsLoop(HiddenAt(j), o) /\ (n > 1 => frames[n - 1].isolated)
        BY <1>5, <4>2 DEF HiddenAt, o
      <4>4. HiddenNow(j).left \in Int /\ o.left \in Int /\ l.left \in Int
        <5>1. hidden'[Len(hidden)] \in PoolRec /\ HiddenIx(j) \in 0 .. DoNames - 1
          BY <1>4, <1>9
        <5>2. HiddenNow(j) \in HiddenRec
          BY <5>1 DEF HiddenNow, PoolRec
        <5>3. Loops \in Seq(LoopRec) /\ j + 1 \in 1 .. Len(Loops)
          BY <1>1, <1>4, <4>1, ActTyped
        <5>4. a.loops \in Seq(LoopRec) /\ j + 1 \in 1 .. Len(a.loops)
          BY <1>1, <1>4, <3>1 DEF ActRec
        <5>5. o \in LoopRec /\ l \in LoopRec
          BY <5>3, <5>4 DEF o, l
        <5> QED
          BY <5>2, <5>5 DEF HiddenRec, LoopRec
      <4>5. HoldsLoop(HiddenNow(j), l)
        <5>1. HiddenNow(j).bound = l.bound
          BY <4>1, <4>3 DEF HoldsLoop
        <5>2. ASSUME l.kind = "for" PROVE HiddenNow(j).left = l.left
          <6>1. HiddenAt(j).left = o.left
            BY <4>1, <4>3, <5>2 DEF HoldsLoop
          <6>2. HiddenNow(j).left - o.left = l.left - o.left
            BY <4>1, <5>2, <6>1
          <6> QED
            BY <4>4, <6>2
        <5> QED
          BY <5>1, <5>2 DEF HoldsLoop
      <4> QED
        BY <3>1, <4>3, <4>5 DEF HiddenNow, l
    <3> QED
      BY <3>3, <3>4
  <2> QED
    BY <2>3, <2>4
<1>12. ASSUME NEW k \in 1 .. n, NEW i \in Nat, ToAt(k, i)'
       PROVE  /\ HoldsLoop(hidden'[1 + Own(frames, k - 1)][HiddenIx(i - 1)], acts'[k].loops[i])
              /\ k > 1 => frames[k - 1].isolated
  <2>1. CASE k = n
    <3>1. ToAt(n, i)'
      BY <1>12, <2>1
    <3> QED
      BY <1>1, <1>2, <1>11, <2>1, <3>1
  <2>2. CASE k # n
    BY <1>10, <1>12, <2>2
  <2> QED
    BY <2>1, <2>2
<1>13. NamesApart'
  BY OpcodeNames
<1>14. \A k \in 1 .. Len(acts') : \A i \in Nat : ToAt(k, i)' =>
        /\ HoldsLoop(hidden'[1 + Own(frames', k - 1)][HiddenIx(i - 1)], acts'[k].loops[i])
        /\ k > 1 => frames'[k - 1].isolated
  BY <1>1, <1>2, <1>12
<1>15. at' # "label"
  BY <1>1
<1> QED
  BY <1>13, <1>14, <1>15 DEF ForInv, HoldsLoop, HiddenIx

LEMMA EnteringHidden ==
  ASSUME BaseInv, ForInv, NEW push, NEW n, NEW site, NEW c, Entering(push, n, site, c)
  PROVE  ForInv'
<1>0. PICK m : m = Len(acts)
  OBVIOUS
<1>1. /\ TypeInv /\ m \in Nat /\ m >= 1 /\ m = Len(frames) + 1 /\ Len(frames) \in Nat
      /\ Loops = acts[m].loops /\ trap \in Traps
  BY <1>0, ActTyped DEF BaseInv, TypeInv, Loops
<1>2. /\ Len(acts') = m + 1 /\ acts'[m + 1].loops = <<>> /\ Len(<<>>) = 0
      /\ \A k \in 1 .. m : acts'[k].loops = acts[k].loops
      /\ \A k \in 1 .. m - 1 : frames'[k] = frames[k]
      /\ hidden' = hidden
  <2>1. /\ Len(acts') = m + 1 /\ acts'[m + 1].loops = <<>>
        /\ \A k \in 1 .. Len(frames) : acts'[k] = acts[k] /\ frames'[k] = frames[k]
        /\ acts'[m].loops = Loops /\ hidden' = hidden
    <3>1. Len(acts) = m /\ NewAct(trap).loops = <<>>
      BY <1>0, <1>1, NewActTyped
    <3> QED
      BY <3>1, EnteringIs
  <2>2. Len(frames) = m - 1 /\ \A k \in 1 .. m : k = m \/ k \in 1 .. m - 1
    BY <1>1
  <2> QED
    BY <1>1, <2>1, <2>2
<1>3. ASSUME NEW k \in 1 .. m, NEW j \in Nat, ToAt(k, j)
      PROVE  /\ HoldsLoop(hidden'[1 + Own(frames', k - 1)][HiddenIx(j - 1)], acts'[k].loops[j])
             /\ k > 1 => frames'[k - 1].isolated
  <2>1. /\ HoldsLoop(hidden[1 + Own(frames, k - 1)][HiddenIx(j - 1)], acts[k].loops[j])
        /\ k > 1 => frames[k - 1].isolated
    BY <1>0, <1>3 DEF ForInv
  <2>2. k - 1 \in Nat /\ \A i \in 1 .. k - 1 : i \in 1 .. m - 1
    BY <1>1
  <2>3. \A i \in 1 .. k - 1 : frames'[i].isolated = frames[i].isolated
    BY <1>2, <2>2
  <2>4. Own(frames', k - 1) = Own(frames, k - 1)
    BY <2>2, <2>3, SameOwn
  <2>5. k > 1 => k - 1 \in 1 .. k - 1
    BY <1>1
  <2> QED
    BY <1>2, <2>1, <2>3, <2>4, <2>5
<1>4. ASSUME NEW k \in 1 .. m + 1, NEW j \in Nat, ToAt(k, j)'
      PROVE  k \in 1 .. m /\ ToAt(k, j)
  <2>1. k # m + 1
    BY <1>2, <1>4 DEF ToAt
  <2>2. k \in 1 .. m
    BY <1>1, <2>1
  <2> QED
    BY <1>2, <1>4, <2>2 DEF ToAt
<1>5. NamesApart'
  BY <1>0, <1>2, <1>4 DEF ForInv, NamesApart, HiddenIx
<1>6. at' = "label" => acts'[Len(acts')].loops = <<>>
  BY <1>2
<1>7. \A k \in 1 .. Len(acts') : \A j \in Nat : ToAt(k, j)' =>
        /\ HoldsLoop(hidden'[1 + Own(frames', k - 1)][HiddenIx(j - 1)], acts'[k].loops[j])
        /\ k > 1 => frames'[k - 1].isolated
  BY <1>2, <1>3, <1>4
<1> QED
  BY <1>5, <1>6, <1>7 DEF ForInv, HoldsLoop, HiddenIx

LEMMA IsolatingHidden ==
  ASSUME BaseInv, ForInv, Isolating
  PROVE  ForInv'
<1>0. PICK m : m = Len(acts)
  OBVIOUS
<1>1. /\ TypeInv /\ m \in Nat /\ m = Len(frames) + 1 /\ Len(frames) \in Nat
      /\ Len(frames) = m - 1 /\ m - 1 \in Nat /\ Len(hidden) = 1 + Own(frames, m - 1)
  <2>1. TypeInv
    BY DEF BaseInv
  <2>2. /\ m \in Nat /\ m = Len(frames) + 1 /\ Len(frames) \in Nat
        /\ Len(frames) = m - 1 /\ m - 1 \in Nat
    BY <1>0, <2>1, ActTyped
  <2> QED
    BY <2>1, <2>2 DEF TypeInv
<1>2. /\ acts' = acts /\ at' = "run" /\ acts[m].loops = <<>>
      /\ \A k \in 1 .. m - 2 : frames'[k] = frames[k]
      /\ \A i \in 1 .. m - 2 : Own(frames', i) = Own(frames, i)
      /\ \A p \in 1 .. Len(hidden) : hidden'[p] = hidden[p]
  <2>1. acts' = acts /\ at' = "run" /\ at = "label"
    BY DEF Isolating
  <2>2. acts[m].loops = <<>>
    BY <1>0, <2>1 DEF ForInv
  <2>3. Len(frames) - 1 = m - 2
    BY <1>1
  <2>4. /\ \A k \in 1 .. Len(frames) - 1 : frames'[k] = frames[k]
        /\ \A i \in 1 .. Len(frames) - 1 : Own(frames', i) = Own(frames, i)
        /\ \A p \in 1 .. Len(hidden) : hidden'[p] = hidden[p]
    BY <1>1, IsolatingIs
  <2> QED
    BY <2>1, <2>2, <2>3, <2>4
<1>3. ASSUME NEW k \in 1 .. m, NEW j \in Nat, ToAt(k, j)
      PROVE  /\ HoldsLoop(hidden'[1 + Own(frames', k - 1)][HiddenIx(j - 1)], acts[k].loops[j])
             /\ k > 1 => frames'[k - 1].isolated
  <2>1. /\ HoldsLoop(hidden[1 + Own(frames, k - 1)][HiddenIx(j - 1)], acts[k].loops[j])
        /\ k > 1 => frames[k - 1].isolated
    BY <1>0, <1>3 DEF ForInv
  <2>2. k # m
    BY <1>2, <1>3 DEF ToAt
  <2>3. k - 1 \in Nat /\ k - 1 <= m - 2 /\ (k > 1 => k - 1 \in 1 .. m - 2) /\ (k = 1 \/ k > 1)
    BY <1>1, <2>2
  <2>4. Own(frames', k - 1) = Own(frames, k - 1)
    <3>1. CASE k = 1
      BY <3>1, OwnNat
    <3>2. CASE k > 1
      BY <1>2, <2>3, <3>2
    <3> QED
      BY <2>3, <3>1, <3>2
  <2>5. Own(frames, k - 1) <= Own(frames, m - 1) /\ Own(frames, k - 1) \in Nat
    <3>1. k - 1 <= m - 1
      BY <1>1
    <3> QED
      BY <1>1, <2>3, <3>1, OwnGrows
  <2>6. Own(frames, m - 1) \in Nat
    BY <1>1, OwnNat
  <2>7. 1 + Own(frames, k - 1) \in 1 .. Len(hidden)
    BY <1>1, <2>5, <2>6
  <2> QED
    BY <1>2, <2>1, <2>3, <2>4, <2>7
<1>4. \A k \in 1 .. m : \A j \in Nat : ToAt(k, j)' => ToAt(k, j)
  BY <1>2 DEF ToAt
<1>5. NamesApart'
  BY <1>0, <1>2, <1>4 DEF ForInv, NamesApart, HiddenIx
<1>6. \A k \in 1 .. Len(acts') : \A j \in Nat : ToAt(k, j)' =>
        /\ HoldsLoop(hidden'[1 + Own(frames', k - 1)][HiddenIx(j - 1)], acts'[k].loops[j])
        /\ k > 1 => frames'[k - 1].isolated
  BY <1>0, <1>2, <1>3, <1>4
<1> QED
  BY <1>2, <1>5, <1>6 DEF ForInv, HoldsLoop, HiddenIx

LEMMA ReturningHidden ==
  ASSUME BaseInv, ForInv, NEW r, Returning(r)
  PROVE  ForInv'
<1>0. PICK n : n = Len(frames)
  OBVIOUS
<1>1. n \in Nat /\ n >= 1 /\ Len(acts) = n + 1 /\ n - 1 \in Nat
  BY <1>0, ReturningIs DEF BaseInv, TypeInv
<1>2. /\ Len(acts') = n /\ at' = "run"
      /\ \A k \in 1 .. n - 1 : frames'[k] = frames[k] /\ acts'[k] = acts[k]
      /\ acts'[n].loops = acts[n].loops
      /\ Len(hidden') = 1 + Own(frames, n - 1)
      /\ \A p \in 1 .. Len(hidden') : hidden'[p] = hidden[p]
  BY <1>0, ReturningIs
<1>3. ASSUME NEW k \in 1 .. n
      PROVE  acts'[k].loops = acts[k].loops /\ k \in 1 .. Len(acts)
  <2>1. k = n \/ k \in 1 .. n - 1
    BY <1>1
  <2> QED
    BY <1>1, <1>2, <2>1
<1>4. ASSUME NEW k \in 1 .. n, NEW j \in Nat, ToAt(k, j)'
      PROVE  /\ HoldsLoop(hidden'[1 + Own(frames', k - 1)][HiddenIx(j - 1)], acts'[k].loops[j])
             /\ k > 1 => frames'[k - 1].isolated
  <2>1. ToAt(k, j)
    BY <1>3, <1>4 DEF ToAt
  <2>2. /\ HoldsLoop(hidden[1 + Own(frames, k - 1)][HiddenIx(j - 1)], acts[k].loops[j])
        /\ k > 1 => frames[k - 1].isolated
    BY <1>3, <2>1 DEF ForInv
  <2>3. /\ k - 1 \in Nat /\ k - 1 <= n - 1 /\ (k > 1 => k - 1 \in 1 .. n - 1)
        /\ \A i \in 1 .. k - 1 : i \in 1 .. n - 1
    BY <1>1
  <2>4. \A i \in 1 .. k - 1 : frames'[i].isolated = frames[i].isolated
    BY <1>2, <2>3
  <2>5. Own(frames', k - 1) = Own(frames, k - 1)
    BY <2>3, <2>4, SameOwn
  <2>6. Own(frames, k - 1) <= Own(frames, n - 1) /\ Own(frames, k - 1) \in Nat
    BY <1>1, <2>3, OwnGrows
  <2>7. Own(frames, n - 1) \in Nat
    BY <1>1, OwnNat
  <2>8. 1 + Own(frames, k - 1) \in 1 .. Len(hidden')
    BY <1>2, <2>6, <2>7
  <2> QED
    BY <1>2, <1>3, <2>2, <2>3, <2>5, <2>8
<1>5. NamesApart'
  <2>1. \A k \in 1 .. n : \A j \in Nat : ToAt(k, j)' => ToAt(k, j)
    BY <1>3 DEF ToAt
  <2> QED
    BY <1>2, <1>3, <2>1 DEF ForInv, NamesApart, HiddenIx
<1> QED
  BY <1>2, <1>4, <1>5 DEF ForInv, HoldsLoop, HiddenIx

LEMMA HiddenStep ==
  ASSUME BaseInv, ForInv, ~ForShared, ~ForDeep, Shape
  PROVE  ForInv'
<1>1. CASE Cleared
  BY <1>1, ClearedHidden
<1>2. ASSUME NEW a, Opcode(a) PROVE ForInv'
  BY <1>2, OpcodeHidden
<1>3. ASSUME NEW push, NEW n, NEW site, NEW c, Entering(push, n, site, c) PROVE ForInv'
  BY <1>3, EnteringHidden
<1>4. CASE Isolating
  BY <1>4, IsolatingHidden
<1>5. CASE Aside
  <2>1. UNCHANGED <<frames, hidden, acts>> /\ (at' = "label" => at = "label")
    BY <1>5 DEF Aside, Obtained, Again, vars
  <2> QED
    BY <2>1 DEF ForInv, NamesApart, HoldsLoop, HiddenIx, ToAt
<1>6. ASSUME NEW r, Returning(r) PROVE ForInv'
  BY <1>6, ReturningHidden
<1> QED
  BY <1>1, <1>2, <1>3, <1>4, <1>5, <1>6 DEF Shape

\* The same of DO TO, with FOR or without, for programs whose routines with a
\* DO TO have PROCEDURE, and whose DO TO are not open in one whose hidden names
\* they share: limit, step and count are not touched by another loop, of the
\* same call or of one below, however deep loops and calls nest.
THEOREM ForCountsKept ==
  ASSUME ~ForShared, ~ForDeep
  PROVE  Spec => []ForOwned
<1>1. ASSUME Init PROVE ForInv
  <2>1. acts = <<NewAct(AllOff)>> /\ NewAct(AllOff).loops = <<>> /\ at # "label"
    BY <1>1 DEF Init, NewAct
  <2>2. Len(acts) = 1 /\ acts[1].loops = <<>>
    BY <2>1
  <2>3. \A k \in 1 .. Len(acts) : \A j \in Nat : ~ToAt(k, j)
    BY <2>2 DEF ToAt
  <2> QED
    BY <2>1, <2>3 DEF ForInv, NamesApart
<1>2. BaseInv /\ ForInv /\ [Next]_vars => ForInv'
  BY StepBase, HiddenStep
<1>3. BaseInv /\ ForInv => ForOwned
  <2> SUFFICES ASSUME BaseInv, ForInv PROVE ForOwned
    OBVIOUS
  <2>1. DOMAIN acts = 1 .. Len(acts) /\ acts \in Seq(ActRec)
    BY ActTyped DEF BaseInv, TypeInv
  <2>2. ASSUME NEW k \in 1 .. Len(acts), NEW j \in DOMAIN acts[k].loops,
               acts[k].loops[j].kind \in ToKinds
        PROVE  ToAt(k, j) /\ j \in Nat
    <3>1. acts[k] \in ActRec
      BY <2>1
    <3>2. acts[k].loops \in Seq(LoopRec)
      BY <3>1 DEF ActRec
    <3> QED
      BY <2>2, <3>2 DEF ToAt
  <2>3. \A k \in 1 .. Len(acts) : PoolIx(k) = 1 + Own(frames, k - 1)
    BY DEF PoolIx, Own
  <2>4. \A k \in 1 .. Len(acts) : \A j \in DOMAIN acts[k].loops :
          acts[k].loops[j].kind \in ToKinds =>
            HoldsLoop(hidden[PoolIx(k)][HiddenIx(j - 1)], acts[k].loops[j])
    BY <2>2, <2>3 DEF ForInv
  <2> QED
    BY <2>1, <2>4 DEF ForOwned, HoldsLoop, ToKinds
<1> QED
  BY <1>1, <1>2, <1>3, BaseInvariant, PTL DEF Spec

-----------------------------------------------------------------------------
(* The storage of a run.                                                   *)

Fixed ==
    {Block("stack"), Block("lstrs"), Block("label_pc"), Block("bif_cache"),
     Block("var_cache"), Block("const_cache"), Block("proxy_parser"), Block("top_args")}

\* What a run needs with c counters, frames f of generation g, and p pools.
Needs(c, g, f, p) ==
    Fixed \cup {CountersOf(c), FramesOf(g)}
          \cup {ArgsOfFrame(k) : k \in {j \in 1 .. Len(f) : f[j].argc > 0}}
          \cup {PoolAt(q) : q \in 1 .. p}

\* A run being set up has allocated what it has not still to do; one that runs
\* has what it needs.
HeldInv ==
    /\ at \in {"setup", "ended"} =>
          frames = <<>> /\ Len(counters) = CounterInit /\ gen = 0 /\ Len(hidden) = 1
    /\ at = "ended" => held = {}
    /\ at = "setup" => /\ held = Range(Plan) \ Range(todo)
                       /\ \A i, j \in 1 .. Len(todo) : todo[i] = todo[j] => i = j
    /\ Running => held = Needs(Len(counters), gen, frames, Len(hidden))

\* Blocks of different names, and of the same name for different calls or pools,
\* are different.
LEMMA BlocksDiffer ==
  /\ \A b \in Fixed : \A i : b # CountersOf(i) /\ b # FramesOf(i) /\ b # ArgsOfFrame(i) /\ b # PoolAt(i)
  /\ \A i, j : CountersOf(i) # FramesOf(j) /\ CountersOf(i) # ArgsOfFrame(j) /\ CountersOf(i) # PoolAt(j)
  /\ \A i, j : FramesOf(i) # ArgsOfFrame(j) /\ FramesOf(i) # PoolAt(j) /\ ArgsOfFrame(i) # PoolAt(j)
  /\ \A i, j : ArgsOfFrame(i) = ArgsOfFrame(j) => i = j
  /\ \A i, j : PoolAt(i) = PoolAt(j) => i = j
<1>1. \A a, b, i, j : <<a, i>> = <<b, j>> => a = b /\ i = j
  OBVIOUS
<1>2. \A b \in Fixed : \E a : b = <<a, 0>> /\ a \in {"stack", "lstrs", "label_pc", "bif_cache",
         "var_cache", "const_cache", "proxy_parser", "top_args"}
  BY DEF Fixed, Block
<1>3. \A b \in Fixed : \A i : b # CountersOf(i) /\ b # FramesOf(i) /\ b # ArgsOfFrame(i) /\ b # PoolAt(i)
  BY <1>1, <1>2 DEF CountersOf, FramesOf, ArgsOfFrame, PoolAt
<1>4. \A i, j : CountersOf(i) # FramesOf(j) /\ CountersOf(i) # ArgsOfFrame(j) /\ CountersOf(i) # PoolAt(j)
  BY <1>1 DEF CountersOf, FramesOf, ArgsOfFrame, PoolAt
<1>5. \A i, j : FramesOf(i) # ArgsOfFrame(j) /\ FramesOf(i) # PoolAt(j) /\ ArgsOfFrame(i) # PoolAt(j)
  BY <1>1 DEF FramesOf, ArgsOfFrame, PoolAt
<1>6. /\ \A i, j : ArgsOfFrame(i) = ArgsOfFrame(j) => i = j
      /\ \A i, j : PoolAt(i) = PoolAt(j) => i = j
  BY <1>1 DEF ArgsOfFrame, PoolAt
<1> QED
  BY <1>3, <1>4, <1>5, <1>6

\* What is set up is what a run needs before its first opcode.
LEMMA PlanIs ==
  Range(Plan) = Fixed \cup {CountersOf(CounterInit), FramesOf(0), PoolAt(1)}
<1>1. /\ DOMAIN Plan = 1 .. 11
      /\ Plan[1] = Block("stack") /\ Plan[2] = Block("lstrs") /\ Plan[3] = CountersOf(CounterInit)
      /\ Plan[4] = PoolAt(1) /\ Plan[5] = FramesOf(0) /\ Plan[6] = Block("label_pc")
      /\ Plan[7] = Block("bif_cache") /\ Plan[8] = Block("var_cache")
      /\ Plan[9] = Block("const_cache") /\ Plan[10] = Block("proxy_parser")
      /\ Plan[11] = Block("top_args")
  BY DEF Plan
<1>2. \A i : i \in 1 .. 11 <=> i \in {1, 2, 3, 4, 5, 6, 7, 8, 9, 10, 11}
  OBVIOUS
<1> QED
  BY <1>1, <1>2 DEF Range, Fixed

LEMMA PlanDiffers == \A i, j \in 1 .. Len(Plan) : Plan[i] = Plan[j] => i = j
<1>1. Len(Plan) = 11
  BY DEF Plan
<1>2. \A i, j \in 1 .. 11 : Plan[i] = Plan[j] => i = j
  BY DEF Plan, Block, CountersOf, PoolAt, FramesOf
<1> QED
  BY <1>1, <1>2

\* done: reaches all that is held, in a run or before it.
LEMMA FreesAll ==
  ASSUME BaseInv, HeldInv
  PROVE  held \subseteq DoneFrees(frames, Len(hidden))
<1>1. /\ TypeInv /\ Isolated(frames) = Own(frames, Len(frames)) /\ Own(frames, Len(frames)) \in Nat
      /\ Len(hidden) = 1 + Own(frames, Len(frames)) /\ DOMAIN frames = 1 .. Len(frames)
  BY IsolatedIs, OwnNat, ActTyped DEF BaseInv, TypeInv
<1>2. CASE at = "ended"
  BY <1>2 DEF HeldInv
<1>3. CASE at = "setup"
  <2>1. /\ held = Range(Plan) \ Range(todo) /\ Len(hidden) = 1 /\ Isolated(frames) = 0
        /\ Len(counters) = CounterInit /\ gen = 0
    BY <1>1, <1>3 DEF HeldInv
  <2>2. Range(Plan) \subseteq Tables \cup {PoolAt(1)} \cup {Block("top_args")}
    BY <2>1, PlanIs DEF Tables, Fixed
  <2>3. Len(hidden) - Isolated(frames) = 1
    BY <2>1
  <2> QED
    BY <2>1, <2>2, <2>3 DEF DoneFrees
<1>4. CASE Running
  <2>1. held = Needs(Len(counters), gen, frames, Len(hidden)) /\ Range(todo) = {}
    BY <1>1, <1>4 DEF HeldInv, Running, TypeInv, Range
  <2>2. Fixed \cup {CountersOf(Len(counters)), FramesOf(gen)} \subseteq Tables \cup {Block("top_args")}
    BY DEF Fixed, Tables
  <2>3. \A k \in 1 .. Len(frames) : ArgsOfFrame(k) \in CallStorage(frames, Len(hidden))
    BY <1>1 DEF CallStorage
  <2>4. ASSUME NEW q \in 1 .. Len(hidden)
        PROVE  \/ PoolAt(q) \in CallStorage(frames, Len(hidden))
               \/ q = Len(hidden) - Isolated(frames)
    <3>1. q = Len(hidden) - Isolated(frames) \/ q \in Len(hidden) - Isolated(frames) + 1 .. Len(hidden)
      BY <1>1
    <3> QED
      BY <3>1 DEF CallStorage
  <2> QED
    BY <2>1, <2>2, <2>3, <2>4 DEF DoneFrees, Needs
<1> QED
  BY <1>1, <1>2, <1>3, <1>4 DEF TypeInv, Running

\* When RESULT finds no storage the frame is popped and its pool destroyed: done:
\* reaches the rest, if the frame has no arguments.
LEMMA ResultFrees ==
  ASSUME BaseInv, HeldInv, Running, frames # <<>>, Last(frames).argc = 0,
         NEW lost, lost = PoolOf(Last(frames))
  PROVE  held \ lost \subseteq DoneFrees(Front(frames), Len(hidden) - Cardinality(lost))
<1> DEFINE n == Len(frames)
           m == n - 1
           f == Last(frames)
           p == Len(hidden) - Cardinality(lost)
<1>1. /\ TypeInv /\ n \in Nat /\ n >= 1 /\ m \in Nat /\ n = m + 1 /\ frames \in Seq(FrameRec)
      /\ f = frames[n] /\ f.argc = 0
  BY EmptySeq DEF BaseInv, TypeInv, Last
<1>2. /\ Front(frames) \in Seq(FrameRec) /\ Len(Front(frames)) = m
      /\ \A k \in 1 .. m : Front(frames)[k] = frames[k]
  BY <1>1, FrontOf
<1>3. /\ Own(frames, m) \in Nat
      /\ Len(hidden) = 1 + Own(frames, m) + (IF f.isolated THEN 1 ELSE 0)
  <2>1. Own(frames, m) \in Nat /\ Own(frames, m + 1) = Own(frames, m) + (IF frames[m + 1].isolated THEN 1 ELSE 0)
    BY <1>1, OwnNat
  <2> QED
    BY <1>1, <2>1 DEF TypeInv
<1>4. Isolated(Front(frames)) = Own(frames, m)
  <2>1. Isolated(Front(frames)) = Own(Front(frames), m)
    BY <1>2, IsolatedIs
  <2>2. Own(Front(frames), m) = Own(frames, m)
    BY <1>1, <1>2, SameOwn
  <2> QED
    BY <2>1, <2>2
<1>5. /\ lost = IF f.isolated THEN {PoolAt(Len(hidden))} ELSE {}
      /\ Cardinality(lost) = IF f.isolated THEN 1 ELSE 0
  BY FS_Singleton, FS_EmptySet DEF PoolOf
<1> HIDE DEF f
<1>6. p = 1 + Own(frames, m)
  BY <1>3, <1>5
<1>7. held = Needs(Len(counters), gen, frames, Len(hidden)) /\ Range(todo) = {}
  BY <1>1 DEF HeldInv, Running, TypeInv, Range
<1> HIDE DEF p
<1>8. Fixed \cup {CountersOf(Len(counters)), FramesOf(gen)} \subseteq Tables \cup {Block("top_args")}
  BY DEF Fixed, Tables
<1> HIDE DEF n, m
<1>9. ASSUME NEW k \in 1 .. n, frames[k].argc > 0
      PROVE  ArgsOfFrame(k) \in CallStorage(Front(frames), p)
  <2>1. k # n
    BY <1>1, <1>9
  <2>2. k \in 1 .. m /\ DOMAIN Front(frames) = 1 .. m
    BY <1>1, <1>2, <2>1
  <2> QED
    BY <2>2 DEF CallStorage
<1>10. ASSUME NEW q \in 1 .. Len(hidden)
       PROVE  \/ PoolAt(q) \in lost
              \/ PoolAt(q) \in CallStorage(Front(frames), p)
              \/ q = p - Isolated(Front(frames))
  <2>1. CASE q = Len(hidden) /\ f.isolated
    BY <1>5, <2>1
  <2>2. CASE ~(q = Len(hidden) /\ f.isolated)
    <3>1. q \in 1 .. p
      BY <1>3, <1>6, <2>2
    <3>2. q = p - Isolated(Front(frames)) \/ q \in p - Isolated(Front(frames)) + 1 .. p
      BY <1>3, <1>4, <1>6, <3>1
    <3> QED
      BY <3>2 DEF CallStorage
  <2> QED
    BY <2>1, <2>2
<1>11. ASSUME NEW b \in held, b \notin lost PROVE b \in DoneFrees(Front(frames), p)
  <2>1. CASE b \in Fixed \cup {CountersOf(Len(counters)), FramesOf(gen)}
    BY <1>7, <1>8, <2>1 DEF DoneFrees
  <2>2. CASE \E k \in 1 .. n : frames[k].argc > 0 /\ b = ArgsOfFrame(k)
    BY <1>7, <1>9, <2>2 DEF DoneFrees
  <2>3. CASE \E q \in 1 .. Len(hidden) : b = PoolAt(q)
    BY <1>7, <1>10, <1>11, <2>3 DEF DoneFrees
  <2> QED
    BY <1>7, <2>1, <2>2, <2>3 DEF Needs, n
<1> QED
  BY <1>11 DEF p

\* SIGNAL and traps free what calls have, and keep the exec's own.
LEMMA JumpKeeps ==
  ASSUME BaseInv, Running, HeldInv, NEW h, h = held \ CallStorage(frames, Len(hidden))
  PROVE  h = Needs(Len(counters), gen, <<>>, 1)
<1>1. /\ Isolated(frames) = Own(frames, Len(frames)) /\ Own(frames, Len(frames)) \in Nat
      /\ Len(hidden) = 1 + Own(frames, Len(frames)) /\ DOMAIN frames = 1 .. Len(frames)
  BY IsolatedIs, OwnNat, ActTyped DEF BaseInv, TypeInv
<1>2. held = Needs(Len(counters), gen, frames, Len(hidden))
  BY DEF HeldInv
<1>3. \A q : q \in Len(hidden) - Isolated(frames) + 1 .. Len(hidden) <=> q \in 1 .. Len(hidden) /\ q # 1
  BY <1>1
<1>4. Needs(Len(counters), gen, <<>>, 1) =
        Fixed \cup {CountersOf(Len(counters)), FramesOf(gen), PoolAt(1)}
  <2>1. 1 .. Len(<<>>) = {} /\ 1 .. 1 = {1}
    OBVIOUS
  <2> QED
    BY <2>1 DEF Needs
<1>5. 1 \in 1 .. Len(hidden)
  BY <1>1
<1>6. ASSUME NEW b \in h PROVE b \in Needs(Len(counters), gen, <<>>, 1)
  <2>1. CASE \E k \in 1 .. Len(frames) : b = ArgsOfFrame(k)
    BY <1>1, <1>6, <2>1 DEF CallStorage
  <2>2. CASE \E q \in 1 .. Len(hidden) : b = PoolAt(q)
    BY <1>3, <1>4, <1>6, <2>2 DEF CallStorage
  <2>3. CASE b \in Fixed \cup {CountersOf(Len(counters)), FramesOf(gen)}
    BY <1>4, <2>3
  <2> QED
    BY <1>2, <1>6, <2>1, <2>2, <2>3 DEF Needs
<1>7. ASSUME NEW b \in Needs(Len(counters), gen, <<>>, 1) PROVE b \in h
  <2>1. b \in held
    BY <1>2, <1>4, <1>5, <1>7 DEF Needs
  <2>2. b \notin CallStorage(frames, Len(hidden))
    BY <1>3, <1>4, <1>7, BlocksDiffer DEF CallStorage
  <2> QED
    BY <2>1, <2>2
<1> QED
  BY <1>6, <1>7

LEMMA ClearedHeld ==
  ASSUME BaseInv, HeldInv, ~CopiesLost, Cleared
  PROVE  HeldInv'
<1>1. frames' = <<>> /\ Len(hidden') = 1 /\ at' \in {"run", "ended"}
  BY DEF Cleared
<1>2. CASE /\ at' = "run" /\ Running /\ UNCHANGED <<gen, counters>>
           /\ held' = held \ CallStorage(frames, Len(hidden))
  <2>1. held' = Needs(Len(counters'), gen', frames', Len(hidden'))
    BY <1>1, <1>2, JumpKeeps
  <2> QED
    BY <1>2, <2>1 DEF HeldInv, Running
<1>3. CASE at' = "ended" /\ gen' = 0 /\ Len(counters') = CounterInit
  <2>1. CASE held' = held \ DoneFrees(frames, Len(hidden))
    <3>1. held' = {}
      BY <2>1, FreesAll
    <3> QED
      BY <1>1, <1>3, <3>1 DEF HeldInv, Running
  <2>2. CASE CopyShort
    <3>1. held' = (held \cup {}) \ DoneFrees(frames, Len(hidden))
      BY <2>2 DEF CopyShort
    <3>2. held' = {}
      BY <3>1, FreesAll
    <3> QED
      BY <1>1, <1>3, <3>2 DEF HeldInv, Running
  <2>3. CASE ResultShort
    <3>1. /\ Running /\ frames # <<>> /\ Last(frames).argc = 0
          /\ held' = (held \ PoolOf(Last(frames)))
                      \ DoneFrees(Front(frames), Len(hidden) - Cardinality(PoolOf(Last(frames))))
      BY <2>3 DEF ResultShort
    <3>2. held' = {}
      BY <3>1, ResultFrees
    <3> QED
      BY <1>1, <1>3, <3>2 DEF HeldInv, Running
  <2> QED
    BY <1>2, <1>3, <2>1, <2>2, <2>3 DEF Cleared, Released
<1> QED
  BY <1>2, <1>3 DEF Cleared, Released

LEMMA OpcodeHeld ==
  ASSUME BaseInv, HeldInv, NEW a, Opcode(a)
  PROVE  HeldInv'
<1>1. /\ Running /\ at' = "run" /\ UNCHANGED <<frames, gen>> /\ Len(hidden') = Len(hidden)
      /\ held = Needs(Len(counters), gen, frames, Len(hidden)) /\ CountersHeld
  BY DEF Opcode, Inner, callVars, HeldInv
<1>2. held' = Needs(Len(counters'), gen, frames, Len(hidden))
  <2>1. CASE held' = held /\ Len(counters') = Len(counters)
    BY <1>1, <2>1
  <2>2. CASE held' = (held \ {CountersOf(Len(counters))}) \cup {CountersOf(Len(counters'))}
    BY <1>1, <2>2, BlocksDiffer DEF Needs
  <2> QED
    BY <1>1, <2>1, <2>2 DEF CountersHeld
<1> QED
  BY <1>1, <1>2 DEF HeldInv, Running

LEMMA EnteringHeld ==
  ASSUME BaseInv, HeldInv, NEW push, NEW n, NEW site, NEW c, Entering(push, n, site, c)
  PROVE  HeldInv'
<1> DEFINE m == Len(frames)
           A(f) == {ArgsOfFrame(k) : k \in {j \in 1 .. Len(f) : f[j].argc > 0}}
           mine == IF n = 0 THEN {} ELSE {ArgsOfFrame(m + 1)}
<1>1. /\ Running /\ at' = "label" /\ UNCHANGED <<counters, hidden>> /\ n \in Nat /\ m \in Nat
      /\ held = Needs(Len(counters), gen, frames, Len(hidden))
      /\ held' = (held \ {FramesOf(gen)}) \cup {FramesOf(gen')} \cup mine
      /\ frames' = Append(frames, FrameOf(push, n))
      /\ Len(frames') = m + 1 /\ \A k \in 1 .. m : frames'[k] = frames[k]
      /\ frames'[m + 1].argc = n
  BY ActTyped, EnteringIs DEF BaseInv, HeldInv, Entering, Enter, FrameOf
<1>2. A(frames') = A(frames) \cup mine
  <2>1. \A k : k \in 1 .. m + 1 <=> k \in 1 .. m \/ k = m + 1
    BY <1>1
  <2>2. \A k : k \in {j \in 1 .. m + 1 : frames'[j].argc > 0} <=>
                k \in {j \in 1 .. m : frames[j].argc > 0} \/ (k = m + 1 /\ n # 0)
    BY <1>1, <2>1
  <2> QED
    BY <1>1, <2>2
<1> HIDE DEF m, mine
<1>3. held' = Needs(Len(counters), gen', frames', Len(hidden))
  <2> DEFINE P == {PoolAt(q) : q \in 1 .. Len(hidden)}
             C == CountersOf(Len(counters))
  <2>1. FramesOf(gen) \notin A(frames) /\ FramesOf(gen) \notin P
        /\ FramesOf(gen) \notin Fixed /\ FramesOf(gen) # C
    BY BlocksDiffer
  <2>2. /\ held = Fixed \cup {C, FramesOf(gen)} \cup A(frames) \cup P
        /\ Needs(Len(counters), gen', frames', Len(hidden)) =
              Fixed \cup {C, FramesOf(gen')} \cup A(frames') \cup P
    BY <1>1 DEF Needs
  <2> HIDE DEF A, P, C
  <2> QED
    BY <1>1, <1>2, <2>1, <2>2
<1> QED
  BY <1>1, <1>3 DEF HeldInv, Running

LEMMA IsolatingHeld ==
  ASSUME BaseInv, HeldInv, Isolating
  PROVE  HeldInv'
<1> DEFINE A(f) == {ArgsOfFrame(k) : k \in {j \in 1 .. Len(f) : f[j].argc > 0}}
<1>1. TypeInv /\ Len(hidden) \in Nat /\ Len(frames) \in Nat
  BY DEF BaseInv, TypeInv
<1>2. /\ Running /\ at' = "run" /\ UNCHANGED <<counters, gen>> /\ Len(hidden') = Len(hidden) + 1
      /\ held = Needs(Len(counters), gen, frames, Len(hidden))
      /\ held' = held \cup {PoolAt(Len(hidden'))}
  BY <1>1, IsolatingIs DEF Isolating, Running, HeldInv
<1>3. Len(frames') = Len(frames) /\ \A k \in 1 .. Len(frames) : frames'[k].argc = frames[k].argc
  <2>1. \A k \in 1 .. Len(frames) : k = Len(frames) \/ k \in 1 .. Len(frames) - 1
    BY <1>1
  <2> QED
    BY <1>1, <2>1, IsolatingIs
<1>4. A(frames') = A(frames)
  BY <1>3
<1>5. \A q : q \in 1 .. Len(hidden) + 1 <=> q \in 1 .. Len(hidden) \/ q = Len(hidden) + 1
  BY <1>1
<1>6. held' = Needs(Len(counters), gen, frames', Len(hidden'))
  BY <1>2, <1>4, <1>5 DEF Needs
<1> QED
  BY <1>2, <1>6 DEF HeldInv, Running

LEMMA ReturningHeld ==
  ASSUME BaseInv, HeldInv, NEW r, Returning(r)
  PROVE  HeldInv'
<1> DEFINE n == Len(frames)
           m == n - 1
           f == Last(frames)
           A(g) == {ArgsOfFrame(k) : k \in {j \in 1 .. Len(g) : g[j].argc > 0}}
           P(p) == {PoolAt(q) : q \in 1 .. p}
<1>1. /\ n \in Nat /\ n >= 1 /\ m \in Nat /\ n = m + 1 /\ Len(frames') = m
      /\ \A k \in 1 .. m : frames'[k] = frames[k]
      /\ Len(hidden') = 1 + Own(frames, m) /\ Own(frames, m) \in Nat
      /\ at' = "run" /\ UNCHANGED <<gen, counters>>
  BY ReturningIs
<1>2. /\ held = Needs(Len(counters), gen, frames, Len(hidden))
      /\ held' = held \ (PoolOf(f) \cup {ArgsOfFrame(n)})
      /\ PoolOf(f) = IF f.isolated THEN {PoolAt(Len(hidden))} ELSE {}
  BY DEF Returning, Resume, HeldInv, PoolOf
<1>3. Len(hidden) = Len(hidden') + (IF f.isolated THEN 1 ELSE 0)
  <2>1. Own(frames, m + 1) = Own(frames, m) + (IF frames[m + 1].isolated THEN 1 ELSE 0)
    BY <1>1, OwnNat
  <2>2. f = frames[m + 1] /\ Len(hidden) = 1 + Own(frames, m + 1)
    BY <1>1 DEF Last, BaseInv, TypeInv
  <2> QED
    BY <1>1, <2>1, <2>2
<1>4. A(frames) \ {ArgsOfFrame(n)} = A(frames')
  <2>1. \A k : k \in 1 .. m <=> k \in 1 .. n /\ k # n
    BY <1>1
  <2>2. \A k : k \in {j \in 1 .. m : frames'[j].argc > 0} <=>
                k \in {j \in 1 .. n : frames[j].argc > 0} /\ k # n
    BY <1>1, <2>1
  <2> QED
    BY <1>1, <2>2, BlocksDiffer
<1>5. P(Len(hidden)) \ PoolOf(f) = P(Len(hidden'))
  <2>1. Len(hidden') \in Nat
    BY <1>1
  <2>2. CASE f.isolated
    <3>1. Len(hidden) = Len(hidden') + 1
      BY <1>3, <2>2
    <3>2. \A q : q \in 1 .. Len(hidden') <=> q \in 1 .. Len(hidden) /\ q # Len(hidden)
      BY <2>1, <3>1
    <3> QED
      BY <1>2, <2>2, <3>2, BlocksDiffer
  <2>3. CASE ~f.isolated
    BY <1>2, <1>3, <2>1, <2>3
  <2> QED
    BY <2>2, <2>3
<1> HIDE DEF f, m, n
<1>6. held' = Needs(Len(counters), gen, frames', Len(hidden'))
  <2> DEFINE F == Fixed \cup {CountersOf(Len(counters)), FramesOf(gen)}
  <2>1. /\ held = F \cup A(frames) \cup P(Len(hidden))
        /\ Needs(Len(counters), gen, frames', Len(hidden')) = F \cup A(frames') \cup P(Len(hidden'))
    BY <1>2 DEF Needs
  <2>2. /\ F \cap (PoolOf(f) \cup {ArgsOfFrame(n)}) = {} /\ A(frames) \cap PoolOf(f) = {}
        /\ ArgsOfFrame(n) \notin P(Len(hidden))
    BY <1>2, BlocksDiffer
  <2> HIDE DEF F, A, P
  <2> QED
    BY <1>2, <1>4, <1>5, <2>1, <2>2
<1> QED
  BY <1>1, <1>6 DEF HeldInv, Running

LEMMA AsideHeld ==
  ASSUME BaseInv, HeldInv, Aside
  PROVE  HeldInv'
<1>1. UNCHANGED <<frames, gen, counters, hidden>> /\ (at' = "label" => at = "label")
  BY DEF Aside
<1>2. CASE UNCHANGED vars
  BY <1>2 DEF vars, HeldInv, Running
<1>3. CASE Again
  <2>1. at = "ended" /\ at' = "setup" /\ todo' = Plan /\ held' = held
    BY <1>3 DEF Again
  <2>2. held' = Range(Plan) \ Range(Plan)
    BY <2>1 DEF HeldInv
  <2>3. \A i, j \in 1 .. Len(todo') : todo'[i] = todo'[j] => i = j
    BY <2>1, PlanDiffers
  <2> QED
    BY <1>1, <2>1, <2>2, <2>3 DEF HeldInv, Running
<1>4. CASE Obtained
  <2>1. /\ at = "setup" /\ held' = held \cup {Head(todo)} /\ todo' = Tail(todo)
        /\ at' = (IF Len(todo) = 1 THEN "run" ELSE "setup")
        /\ todo \in Seq(Range(Plan)) /\ todo # <<>>
        /\ frames = <<>> /\ Len(counters) = CounterInit /\ gen = 0 /\ Len(hidden) = 1
        /\ held = Range(Plan) \ Range(todo)
        /\ \A i, j \in 1 .. Len(todo) : todo[i] = todo[j] => i = j
    BY <1>4 DEF Obtained, HeldInv, BaseInv, TypeInv
  <2>2. /\ Len(todo) \in Nat /\ Len(todo) >= 1 /\ Head(todo) = todo[1] /\ todo[1] \in Range(Plan)
        /\ Len(todo') = Len(todo) - 1 /\ todo' \in Seq(Range(Plan))
        /\ \A i \in 1 .. Len(todo') : todo'[i] = todo[i + 1]
    BY <2>1, EmptySeq, HeadTailProperties
  <2>3. \A i, j \in 1 .. Len(todo') : todo'[i] = todo'[j] => i = j
    <3>1. \A i \in 1 .. Len(todo') : i + 1 \in 1 .. Len(todo) /\ i \in Nat
      BY <2>2
    <3>2. \A i, j \in 1 .. Len(todo') : todo'[i] = todo'[j] => i + 1 = j + 1
      BY <2>1, <2>2, <3>1
    <3> QED
      BY <3>2
  <2>4. Range(todo') = Range(todo) \ {Head(todo)}
    <3>1. DOMAIN todo = 1 .. Len(todo) /\ DOMAIN todo' = 1 .. Len(todo')
      BY <2>1, <2>2
    <3>2. ASSUME NEW i \in 1 .. Len(todo')
          PROVE  todo'[i] \in Range(todo) /\ todo'[i] # Head(todo)
      <4>1. i + 1 \in 1 .. Len(todo) /\ 1 \in 1 .. Len(todo) /\ i + 1 # 1
        BY <2>2
      <4> QED
        BY <2>1, <2>2, <3>1, <4>1 DEF Range
    <3>3. ASSUME NEW i \in 1 .. Len(todo), todo[i] # Head(todo)
          PROVE  todo[i] \in Range(todo')
      <4>1. i # 1
        BY <2>2, <3>3
      <4>2. i - 1 \in 1 .. Len(todo') /\ (i - 1) + 1 = i
        BY <2>2, <4>1
      <4> QED
        BY <2>2, <3>1, <4>2 DEF Range
    <3> QED
      BY <3>1, <3>2, <3>3 DEF Range
  <2>5. held' = Range(Plan) \ Range(todo')
    BY <2>1, <2>2, <2>4
  <2>6. CASE at' = "setup"
    BY <1>1, <2>1, <2>3, <2>5, <2>6 DEF HeldInv, Running
  <2>7. CASE at' = "run"
    <3>1. Range(todo') = {}
      <4>1. Len(todo') = 0
        BY <2>1, <2>2, <2>7
      <4> QED
        BY <2>2, <4>1 DEF Range
    <3>2. 1 .. Len(<<>>) = {} /\ 1 .. 1 = {1}
      OBVIOUS
    <3>3. Needs(CounterInit, 0, <<>>, 1) = Range(Plan)
      BY <3>2, PlanIs DEF Needs
    <3>4. held' = Needs(Len(counters'), gen', frames', Len(hidden'))
      BY <1>1, <2>1, <2>5, <3>1, <3>3
    <3> QED
      BY <2>7, <3>4 DEF HeldInv, Running
  <2> QED
    BY <2>1, <2>6, <2>7
<1> QED
  BY <1>2, <1>3, <1>4 DEF Aside

LEMMA HeldStep ==
  ASSUME BaseInv, HeldInv, ~CopiesLost, Shape
  PROVE  HeldInv'
<1>1. ASSUME NEW a, Opcode(a) PROVE HeldInv'
  BY <1>1, OpcodeHeld
<1>2. ASSUME NEW push, NEW n, NEW site, NEW c, Entering(push, n, site, c) PROVE HeldInv'
  BY <1>2, EnteringHeld
<1>3. ASSUME NEW r, Returning(r) PROVE HeldInv'
  BY <1>3, ReturningHeld
<1> QED
  BY <1>1, <1>2, <1>3, ClearedHeld, IsolatingHeld, AsideHeld DEF Shape

\* A run holds what its calls, pools and arrays need and nothing else, whatever
\* array grows and whichever way a call is left, and gives all of it back at the
\* step it ends in: but for a shortage of storage where copies of arguments are
\* in nobody's hands (irx#bvm.c:4288-4435).
THEOREM StorageReleased ==
  ASSUME ~CopiesLost
  PROVE  Spec => []StorageOwned
<1>1. ASSUME Init PROVE HeldInv
  <2>1. /\ at = "setup" /\ todo = Plan /\ held = {} /\ frames = <<>> /\ gen = 0
        /\ counters = Zeros(CounterInit) /\ Len(hidden) = 1
    BY <1>1 DEF Init
  <2>2. Len(counters) = CounterInit
    BY <2>1, ConstantsPositive, ZerosTyped
  <2> QED
    BY <2>1, <2>2, PlanDiffers DEF HeldInv, Running
<1>2. BaseInv /\ HeldInv /\ [Next]_vars => HeldInv'
  BY StepBase, HeldStep
<1>3. BaseInv /\ HeldInv => StorageOwned
  <2> SUFFICES ASSUME BaseInv, HeldInv, Running
               PROVE  held = Tables \cup {Block("top_args")}
                        \cup {ArgsOfFrame(k) : k \in {j \in DOMAIN frames : frames[j].argc > 0}}
                        \cup {PoolAt(p) : p \in 1 .. Len(hidden)}
    BY DEF StorageOwned, HeldInv
  <2>1. DOMAIN frames = 1 .. Len(frames)
    BY ActTyped DEF BaseInv
  <2>2. Tables \cup {Block("top_args")} = Fixed \cup {CountersOf(Len(counters)), FramesOf(gen)}
    BY DEF Tables, Fixed
  <2> QED
    BY <2>1, <2>2 DEF HeldInv, Needs
<1> QED
  BY <1>1, <1>2, <1>3, BaseInvariant, PTL DEF Spec
=============================================================================
