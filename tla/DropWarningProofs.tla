------------------------- MODULE DropWarningProofs -------------------------
(***************************************************************************)
(* Theorems about recordDrop for every number of goroutines, interval and  *)
(* behaviour of the wall clock.                                            *)
(***************************************************************************)
EXTENDS DropWarning, FiniteSetTheorems, TLAPS

(* The types of recordDrop's atomics and locals are an invariant.          *)
THEOREM TypeCorrect == Spec => []TypeOK
<1>1. Init => TypeOK
  BY DropAssumption DEF Init, TypeOK, Labels
<1>2. TypeOK /\ [Next]_dropVars => TypeOK'
  <2> SUFFICES ASSUME TypeOK, [Next]_dropVars PROVE TypeOK'
    OBVIOUS
  <2> USE DropAssumption DEF TypeOK, Labels
  <2>1. ASSUME NEW p \in Producers, Begin(p) PROVE TypeOK'
    BY <2>1 DEF Begin
  <2>2. ASSUME NEW p \in Producers, ReadClock(p) PROVE TypeOK'
    BY <2>2 DEF ReadClock
  <2>3. ASSUME NEW p \in Producers, Load(p) PROVE TypeOK'
    BY <2>3 DEF Load, Return
  <2>4. ASSUME NEW p \in Producers, CompareAndSwap(p) PROVE TypeOK'
    BY <2>4 DEF CompareAndSwap, Return
  <2>5. ASSUME NEW p \in Producers, SwapAndWarn(p) PROVE TypeOK'
    BY <2>5 DEF SwapAndWarn, AfterWarning, Return
  <2>6. CASE Tick
    BY <2>6 DEF Tick
  <2>7. CASE UNCHANGED dropVars
    BY <2>7 DEF dropVars
  <2>. QED
    BY <2>1, <2>2, <2>3, <2>4, <2>5, <2>6, <2>7 DEF Next, Continue
<1>. QED
  BY <1>1, <1>2, PTL DEF Spec

(* No dropped line escapes the warnings' accounts, at any interleaving of  *)
(* the Add of one goroutine with the Swap of another.                      *)
THEOREM DropsAlwaysAccounted == Spec => []DropsAccounted
<1>1. Init => DropsAccounted
  BY DEF Init, DropsAccounted
<1>2. TypeOK /\ DropsAccounted /\ [Next]_dropVars => DropsAccounted'
  <2> SUFFICES ASSUME TypeOK, DropsAccounted, [Next]_dropVars
               PROVE  DropsAccounted'
    OBVIOUS
  <2> USE DEF TypeOK, DropsAccounted
  <2>1. ASSUME NEW p \in Producers, Begin(p) PROVE DropsAccounted'
    BY <2>1 DEF Begin
  <2>2. ASSUME NEW p \in Producers, SwapAndWarn(p) PROVE DropsAccounted'
    BY <2>2 DEF SwapAndWarn, AfterWarning
  <2>3. ASSUME NEW p \in Producers,
               ReadClock(p) \/ Load(p) \/ CompareAndSwap(p)
        PROVE  DropsAccounted'
    BY <2>3 DEF ReadClock, Load, CompareAndSwap
  <2>4. CASE Tick \/ UNCHANGED dropVars
    BY <2>4 DEF Tick, dropVars
  <2>. QED
    BY <2>1, <2>2, <2>3, <2>4 DEF Next, Continue
<1>. QED
  BY <1>1, <1>2, TypeCorrect, PTL DEF Spec

(***************************************************************************)
(* Why a claimed window is an interval after the previous one: a goroutine *)
(* on its way to CompareAndSwap found its own reading of the clock outside *)
(* the window of the value it is about to compare with.  Nothing is said   *)
(* of the clock, so this survives any adjustment of it.                    *)
(***************************************************************************)
ClaimChecked ==
  \A p \in Producers : pc[p] = "cas" => ~WithinWindow(now[p], last[p])

LEMMA ClaimsChecked == Spec => []ClaimChecked
<1>1. Init => ClaimChecked
  BY DEF Init, ClaimChecked
<1>2. TypeOK /\ ClaimChecked /\ [Next]_dropVars => ClaimChecked'
  <2> SUFFICES ASSUME TypeOK, ClaimChecked, [Next]_dropVars,
                      NEW q \in Producers, pc'[q] = "cas"
               PROVE  ~WithinWindow(now'[q], last'[q])
    BY DEF ClaimChecked, WithinWindow
  <2> USE DEF TypeOK
  <2>1. ASSUME NEW p \in Producers, Load(p)
        PROVE  ~WithinWindow(now'[q], last'[q])
    <3>1. CASE p = q
      BY <2>1, <3>1 DEF Load, Return
    <3>2. CASE p # q
      BY <2>1, <3>2 DEF Load, Return, ClaimChecked
    <3>. QED
      BY <3>1, <3>2
  <2>2. ASSUME NEW p \in Producers, Begin(p) \/ ReadClock(p)
        PROVE  ~WithinWindow(now'[q], last'[q])
    BY <2>2 DEF Begin, ReadClock, ClaimChecked
  <2>3. ASSUME NEW p \in Producers, CompareAndSwap(p) \/ SwapAndWarn(p)
        PROVE  ~WithinWindow(now'[q], last'[q])
    BY <2>3 DEF CompareAndSwap, SwapAndWarn, Return, ClaimChecked
  <2>4. CASE Tick \/ UNCHANGED dropVars
    BY <2>4 DEF Tick, dropVars, ClaimChecked
  <2>. QED
    BY <2>1, <2>2, <2>3, <2>4 DEF Next, Continue
<1>. QED
  BY <1>1, <1>2, TypeCorrect, PTL DEF Spec

(* Windows claimed through q.lastWarnedAt are at least dropWarnInterval    *)
(* apart, for any number of goroutines and any jumps of the wall clock.    *)
THEOREM WindowsAlwaysSpaced == Spec => WindowsSpaced
<1>1. TypeOK /\ ClaimChecked /\ [Next]_dropVars =>
        [ lastWarnedAt' # lastWarnedAt /\ lastWarnedAt # 0
            => lastWarnedAt' - lastWarnedAt >= Interval ]_dropVars
  <2> SUFFICES ASSUME TypeOK, ClaimChecked, Next,
                      lastWarnedAt' # lastWarnedAt, lastWarnedAt # 0
               PROVE  lastWarnedAt' - lastWarnedAt >= Interval
    OBVIOUS
  <2>1. PICK p \in Producers : CompareAndSwap(p)
    BY DEF Next, Continue, Begin, ReadClock, Load, SwapAndWarn, Tick
  <2>2. pc[p] = "cas" /\ lastWarnedAt = last[p] /\ lastWarnedAt' = now[p]
    BY <2>1 DEF CompareAndSwap, Swappable
  <2>. QED
    BY <2>2, DropAssumption DEF ClaimChecked, WithinWindow, TypeOK
<1>. QED
  BY <1>1, TypeCorrect, ClaimsChecked, PTL DEF Spec, WindowsSpaced

(***************************************************************************)
(* Why the warnings are rate limited: a claimed window is a warning logged *)
(* or one a goroutine is about to log, and every claim after the first     *)
(* moves q.lastWarnedAt on by an interval.  Producers need not be finite:  *)
(* those at "swap" always are.                                             *)
(***************************************************************************)
Warning == {p \in Producers : pc[p] = "swap"}

Claims == warnings + Cardinality(Warning)

ClaimsCounted ==
  /\ IsFiniteSet(Warning)
  /\ \A p \in Producers : pc[p] \in {"load", "cas"} => now[p] >= 1
  /\ lastWarnedAt = 0 => Claims = 0
  /\ lastWarnedAt # 0 => (Claims - 1) * Interval <= lastWarnedAt - 1

ClaimInv == TypeOK /\ ClaimChecked /\ ClaimsCounted

LEMMA NoClaim ==
  ASSUME ClaimInv, TypeOK', Warning' = Warning,
         UNCHANGED <<lastWarnedAt, warnings>>,
         \A p \in Producers : pc'[p] \in {"load", "cas"} => now'[p] >= 1
  PROVE  ClaimsCounted'
<1>1. Claims' = Claims
  BY DEF Claims
<1>. QED
  BY <1>1 DEF ClaimInv, ClaimsCounted

LEMMA Claim ==
  ASSUME ClaimInv, NEW p \in Producers, pc[p] = "cas", Swappable(p),
         lastWarnedAt' = now[p], pc' = [pc EXCEPT ![p] = "swap"],
         UNCHANGED <<warnings, now>>
  PROVE  ClaimsCounted'
<1>1. IsFiniteSet(Warning) /\ p \notin Warning
  BY DEF ClaimInv, ClaimsCounted, Warning
<1>2. Warning' = Warning \union {p}
  BY DEF ClaimInv, TypeOK, Warning
<1>3. /\ IsFiniteSet(Warning')
      /\ Cardinality(Warning') = Cardinality(Warning) + 1
      /\ Cardinality(Warning) \in Nat
  BY <1>1, <1>2, FS_AddElement, FS_CardinalityType
<1>4. Claims \in Nat /\ Claims' = Claims + 1
  BY <1>3 DEF ClaimInv, TypeOK, Claims
<1>5. /\ now[p] \in Nat \ {0} /\ lastWarnedAt \in Nat
      /\ ~WithinWindow(now[p], lastWarnedAt)
  BY DropAssumption DEF ClaimInv, TypeOK, ClaimsCounted, ClaimChecked, Swappable
<1>6. \A q \in Producers : pc'[q] \in {"load", "cas"} => now'[q] >= 1
  BY DEF ClaimInv, TypeOK, ClaimsCounted
<1>7. (Claims' - 1) * Interval <= now[p] - 1
  <2>1. CASE lastWarnedAt = 0
    BY <1>4, <1>5, <2>1, DropAssumption DEF ClaimInv, ClaimsCounted
  <2>2. CASE lastWarnedAt # 0
    <3>1. (Claims - 1) * Interval <= lastWarnedAt - 1
      BY <2>2 DEF ClaimInv, ClaimsCounted
    <3>2. now[p] - lastWarnedAt >= Interval
      BY <1>5, <2>2, DropAssumption DEF WithinWindow
    <3>3. Claims * Interval = (Claims - 1) * Interval + Interval
      BY <1>4, DropAssumption
    <3>4. (Claims - 1) * Interval \in Int
      BY <1>4, DropAssumption
    <3>. QED
      BY <1>4, <1>5, <3>1, <3>2, <3>3, <3>4, DropAssumption
  <2>. QED
    BY <2>1, <2>2
<1>. QED
  BY <1>3, <1>5, <1>6, <1>7 DEF ClaimsCounted

LEMMA WarnOfClaim ==
  ASSUME ClaimInv, NEW p \in Producers, SwapAndWarn(p)
  PROVE  ClaimsCounted'
<1>1. IsFiniteSet(Warning) /\ p \in Warning
  BY DEF ClaimInv, ClaimsCounted, Warning, SwapAndWarn
<1>2. Warning' = Warning \ {p}
  BY DEF ClaimInv, TypeOK, Warning, SwapAndWarn, Return
<1>3. /\ IsFiniteSet(Warning')
      /\ Cardinality(Warning') = Cardinality(Warning) - 1
      /\ Cardinality(Warning) \in Nat
  BY <1>1, <1>2, FS_RemoveElement, FS_CardinalityType
<1>4. Claims' = Claims
  BY <1>3 DEF ClaimInv, TypeOK, Claims, SwapAndWarn
<1>5. \A q \in Producers : pc'[q] \in {"load", "cas"} => now'[q] >= 1
  BY DEF ClaimInv, TypeOK, ClaimsCounted, SwapAndWarn, Return
<1>. QED
  BY <1>3, <1>4, <1>5 DEF ClaimInv, ClaimsCounted, SwapAndWarn

LEMMA ClaimsAlwaysCounted == Spec => []ClaimsCounted
<1>1. Init => ClaimsCounted
  <2> SUFFICES ASSUME Init PROVE ClaimsCounted
    OBVIOUS
  <2>1. Warning = {}
    BY DEF Init, Warning
  <2>. QED
    BY <2>1, FS_EmptySet DEF Init, ClaimsCounted, Claims
<1>2. ClaimInv /\ TypeOK' /\ [Next]_dropVars => ClaimsCounted'
  <2> SUFFICES ASSUME ClaimInv, TypeOK', [Next]_dropVars
               PROVE  ClaimsCounted'
    OBVIOUS
  <2> USE DEF TypeOK
  <2>1. ASSUME NEW p \in Producers, Begin(p) \/ ReadClock(p) \/ Load(p)
        PROVE  ClaimsCounted'
    <3>1. Warning' = Warning
      BY <2>1 DEF ClaimInv, Warning, Begin, ReadClock, Load, Return
    <3>2. UNCHANGED <<lastWarnedAt, warnings>>
      BY <2>1 DEF Begin, ReadClock, Load
    <3>3. \A q \in Producers : pc'[q] \in {"load", "cas"} => now'[q] >= 1
      BY <2>1 DEF ClaimInv, ClaimsCounted, Begin, ReadClock, Load, Return
    <3>. QED
      BY <3>1, <3>2, <3>3, NoClaim
  <2>2. ASSUME NEW p \in Producers, CompareAndSwap(p)
        PROVE  ClaimsCounted'
    <3>1. CASE Swappable(p) /\ lastWarnedAt' = now[p]
               /\ pc' = [pc EXCEPT ![p] = "swap"] /\ UNCHANGED <<now, last>>
      BY <2>2, <3>1, Claim DEF CompareAndSwap
    <3>2. CASE Return(p) /\ UNCHANGED lastWarnedAt
      <4>1. Warning' = Warning
        BY <2>2, <3>2 DEF ClaimInv, Warning, CompareAndSwap, Return
      <4>2. \A q \in Producers : pc'[q] \in {"load", "cas"} => now'[q] >= 1
        BY <3>2 DEF ClaimInv, ClaimsCounted, Return
      <4>. QED
        BY <2>2, <3>2, <4>1, <4>2, NoClaim DEF CompareAndSwap
    <3>. QED
      BY <2>2, <3>1, <3>2 DEF CompareAndSwap
  <2>3. ASSUME NEW p \in Producers, SwapAndWarn(p) PROVE ClaimsCounted'
    BY <2>3, WarnOfClaim
  <2>4. CASE Tick \/ UNCHANGED dropVars
    <3>1. Warning' = Warning /\ UNCHANGED <<lastWarnedAt, warnings, pc, now>>
      BY <2>4 DEF Tick, dropVars, Warning
    <3>2. \A q \in Producers : pc'[q] \in {"load", "cas"} => now'[q] >= 1
      BY <3>1 DEF ClaimInv, ClaimsCounted
    <3>. QED
      BY <3>1, <3>2, NoClaim
  <2>. QED
    BY <2>1, <2>2, <2>3, <2>4 DEF Next, Continue
<1>. QED
  BY <1>1, <1>2, TypeCorrect, ClaimsChecked, PTL DEF Spec, ClaimInv

LEMMA DivisionBound ==
  ASSUME NEW n \in Int, NEW m \in Nat, NEW d \in Nat \ {0}, n * d <= m
  PROVE  n <= m \div d
OBVIOUS

(* At most one warning per dropWarnInterval of the time the clock has      *)
(* shown, for any number of goroutines and of drops.                       *)
THEOREM WarningsAlwaysRateLimited == Spec => []WarningsRateLimited
<1>1. TypeOK /\ ClaimsCounted => WarningsRateLimited
  <2> SUFFICES ASSUME TypeOK, ClaimsCounted PROVE WarningsRateLimited
    OBVIOUS
  <2> DEFINE Rest == (MaxClock - 1) \div Interval
  <2>1. /\ {MaxClock, MaxClock - 1} \subseteq Nat /\ Interval \in Nat \ {0}
        /\ lastWarnedAt \in 0 .. MaxClock /\ warnings \in Nat
    BY DropAssumption DEF TypeOK
  <2>2. Claims \in Nat /\ warnings <= Claims
    BY FS_CardinalityType DEF Claims, ClaimsCounted, TypeOK
  <2>3. Rest \in Nat
    BY <2>1
  <2>4. CASE lastWarnedAt = 0
    BY <2>1, <2>2, <2>3, <2>4 DEF ClaimsCounted, WarningsRateLimited
  <2>5. CASE lastWarnedAt # 0
    <3>1. (Claims - 1) * Interval <= lastWarnedAt - 1
      BY <2>5 DEF ClaimsCounted
    <3>2. (Claims - 1) * Interval <= MaxClock - 1
      <4>1. (Claims - 1) * Interval \in Int
        BY <2>1, <2>2
      <4>. QED
        BY <2>1, <3>1, <4>1
    <3>3. Claims - 1 <= Rest
      BY <2>1, <2>2, <3>2, DivisionBound
    <3>. QED
      BY <2>1, <2>2, <2>3, <3>3 DEF WarningsRateLimited
  <2>. QED
    BY <2>4, <2>5
<1>. QED
  BY <1>1, TypeCorrect, ClaimsAlwaysCounted, PTL
=============================================================================
