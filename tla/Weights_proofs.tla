--------------------------- MODULE Weights_proofs ---------------------------
(***************************************************************************)
(* The validator's weight setter, for any number of miners and categories, *)
(* any interval and any number of blocks and faults.                       *)
(*                                                                         *)
(* The setter goes on from three keys of a file that a save may truncate:  *)
(* the invariant compares what they say in memory and in the file with     *)
(* what the setter did before a fault.                                     *)
(*                                                                         *)
(* The allocation is arithmetic: what a pool loses to rounding is bounded  *)
(* per category, and the sum over miners of what categories give them is   *)
(* the sum over categories of what they give away (SumSwap).               *)
(***************************************************************************)
EXTENDS Weights, SumTheorems, TLAPS

Stamps == {None} \cup Nat
Store == [block: Stamps, stamp: Stamps, version: Stamps]
Phases == {"start", "dead", "idle", "attempt", "version", "submit", "persist", "store", "stamp"}

\* A round is under way.
Active == pc \in {"attempt", "version", "submit", "persist", "store", "stamp"}

Typed ==
  /\ now \in Nat
  /\ verified \in [Miners -> Stamps]
  /\ pc \in Phases
  /\ last \in Nat /\ round \in Nat /\ stamp \in Nat
  /\ attempt \in Nat /\ tries \in Nat
  /\ paid \subseteq Miners
  /\ mem \in Store /\ file \in Store
  /\ faults \in Nat
  /\ sent \in Nat /\ done \in Stamps /\ lost \in BOOLEAN
  /\ pays \in [Miners -> SUBSET Nat]

\* Nothing is dated later than now, and no round later than the one under way.
Dated ==
  /\ done <= now /\ mem.stamp <= now /\ file.stamp <= now
  /\ \A m \in Miners : verified[m] <= now /\ \A r \in pays[m] : r <= now
  /\ Active => /\ round <= now
               /\ \A m \in Miners : \A r \in pays[m] : r <= round
  /\ pc = "stamp" => mem.stamp <= stamp /\ round <= stamp /\ stamp <= now /\ done = round

\* The version key of a store.
KeyOf(store) == IF store.version = None THEN 0 ELSE store.version

\* The key in memory and the one in the file are not below the keys handed out.
Versions ==
  /\ ~lost => sent <= KeyOf(mem)
  /\ ~lost => file = EmptyStore \/ sent <= KeyOf(file)
  /\ pc = "submit" => file = mem /\ mem.version # None

\* A block from which the next round is far enough from the completed one.
After(b) == done # None => b >= done \/ (lost /\ b >= done - Interval \div 2)

\* The stored blocks, and the one the setter counts from, are such blocks.
Rounds ==
  /\ mem.block = None => mem = EmptyStore /\ (done = None \/ lost)
  /\ file.block = None => file = EmptyStore
  /\ mem.block # None => After(mem.block)
  /\ file.block # None => After(file.block)
  /\ pc \notin {"start", "dead"} => mem.block # None
  /\ pc \notin {"start", "dead", "stamp"} => After(last)
  /\ Active => round >= last + Interval

\* The stored timestamp rules the miner's last verification out.
Closed(m) == mem.stamp # None /\ verified[m] < mem.stamp

\* The rounds that began after the last verification and paid it.
PaidBy(m) == {r \in pays[m] : r > verified[m]}

\* The round under way handed its submission to the chain, and nothing failed since.
HandedOver == pc \in {"persist", "store", "stamp"}

\* A later attempt or round may still pay the verification.
Open(m) == ~Closed(m) /\ ~(HandedOver /\ round \in pays[m])

\* While a verification may still be paid again, every round that paid it was
\* followed by a fault.
Payouts ==
  /\ \A m \in Miners :
       /\ IsFiniteSet(pays[m])
       /\ verified[m] # None =>
            /\ Cardinality(PaidBy(m)) <= 1 + faults
            /\ Open(m) => Cardinality(PaidBy(m)) <= faults
  /\ pc \in {"version", "submit"} => \A m \in paid : verified[m] # None /\ ~Closed(m)

IInv == Typed /\ Dated /\ Versions /\ Rounds /\ Payouts

LEMMA StampsInt == Stamps \subseteq Int /\ None \in Stamps /\ \A x \in Stamps : x # None => x \in Nat
  BY DEF Stamps, None

LEMMA StoreFields ==
  ASSUME NEW s \in Store
  PROVE  s.block \in Stamps /\ s.stamp \in Stamps /\ s.version \in Stamps
  BY DEF Store

LEMMA EmptyFields ==
  EmptyStore \in Store /\ EmptyStore.block = None /\ EmptyStore.stamp = None /\ EmptyStore.version = None
  BY DEF Store, EmptyStore, Stamps

LEMMA SetBlock ==
  ASSUME NEW s \in Store, NEW b \in Nat, NEW t, t = [s EXCEPT !.block = b]
  PROVE  t \in Store /\ t.block = b /\ t.stamp = s.stamp /\ t.version = s.version
  BY DEF Store, Stamps

LEMMA SetStamp ==
  ASSUME NEW s \in Store, NEW b \in Nat, NEW t, t = [s EXCEPT !.stamp = b]
  PROVE  t \in Store /\ t.stamp = b /\ t.block = s.block /\ t.version = s.version
  BY DEF Store, Stamps

LEMMA SetVersion ==
  ASSUME NEW s \in Store, NEW b \in Nat, NEW t, t = [s EXCEPT !.version = b]
  PROVE  t \in Store /\ t.version = b /\ t.block = s.block /\ t.stamp = s.stamp
  BY DEF Store, Stamps

\* A store with a block is not the empty one.
LEMMA NotEmpty == ASSUME NEW s, s.block # None PROVE s # EmptyStore
  BY EmptyFields

LEMMA KeyNat == ASSUME NEW s \in Store PROVE KeyOf(s) \in Nat
  BY StoreFields, StampsInt DEF KeyOf, None

\* The first state.
LEMMA InitInv == Init => IInv
<1> SUFFICES ASSUME Init PROVE IInv
  OBVIOUS
<1>1. Typed
  BY EmptyFields DEF Init, Typed, Stamps, Phases, None
<1>2. Dated
  BY EmptyFields DEF Init, Dated, Active, None
<1>3. Versions
  BY EmptyFields DEF Init, Versions, KeyOf, None
<1>4. Rounds
  BY EmptyFields DEF Init, Rounds, After, Active
<1>5. Payouts
  BY FS_EmptySet DEF Init, Payouts
<1> QED BY <1>1, <1>2, <1>3, <1>4, <1>5 DEF IInv

\* The payments of a miner whose verification, timestamp and rounds stay: what is open
\* may close, and a fault opens everything.
LEMMA PaysKept ==
  ASSUME IInv, verified' = verified, pays' = pays,
         \/ faults' = faults /\ \A m \in Miners : Open(m)' => Open(m)
         \/ faults' = faults + 1
  PROVE  \A m \in Miners :
           /\ IsFiniteSet(pays'[m])
           /\ verified'[m] # None =>
                /\ Cardinality(PaidBy(m)') <= 1 + faults'
                /\ Open(m)' => Cardinality(PaidBy(m)') <= faults'
<1> SUFFICES ASSUME NEW m \in Miners, verified[m] # None
             PROVE  /\ Cardinality(PaidBy(m)') <= 1 + faults'
                    /\ Open(m)' => Cardinality(PaidBy(m)') <= faults'
  BY DEF IInv, Payouts
<1>1. PaidBy(m)' = PaidBy(m)
  BY DEF PaidBy
<1>2. /\ Cardinality(PaidBy(m)) <= 1 + faults
      /\ Open(m) => Cardinality(PaidBy(m)) <= faults
  BY DEF IInv, Payouts
<1>3. Cardinality(PaidBy(m)) \in Nat /\ faults \in Nat
  <2>1. IsFiniteSet(pays[m]) /\ faults \in Nat
    BY DEF IInv, Payouts, Typed
  <2>2. IsFiniteSet(PaidBy(m))
    BY <2>1, FS_Subset DEF PaidBy
  <2> QED BY <2>1, <2>2, FS_CardinalityType
<1> QED BY <1>1, <1>2, <1>3

LEMMA HalfNat == Interval \div 2 \in Nat /\ Interval \div 2 <= Interval
  BY WeightsAssumption

\* The block that is stored when there is none.
LEMMA FirstBlockAfter ==
  ASSUME IInv, mem.block = None
  PROVE  FirstBlock \in Nat /\ After(FirstBlock)
<1>1. now \in Nat /\ done \in Stamps /\ done <= now /\ (done = None \/ lost)
  BY DEF IInv, Typed, Dated, Rounds
<1> PICK half : half = Interval \div 2
  OBVIOUS
<1>2. half \in Nat /\ FirstBlock = (IF now < half THEN 0 ELSE now - half)
      /\ (After(FirstBlock) <=> (done # None => FirstBlock >= done \/ (lost /\ FirstBlock >= done - half)))
  BY HalfNat DEF FirstBlock, After
<1>3. done # None => done \in Nat
  BY <1>1, StampsInt
<1> QED BY <1>1, <1>2, <1>3

\* What a save leaves in the file.
LEMMA SaveCases ==
  /\ Saved => file' = mem' /\ faults' = faults
  /\ SaveFailed => faults' = faults + 1 /\ file' \in {file, EmptyStore}
  BY DEF Saved, SaveFailed, Fault

\* A file that is kept or emptied still has its properties.
LEMMA FileKept ==
  ASSUME IInv, file' \in {file, EmptyStore}, sent' = sent, lost' = lost, done' = done, now \in Nat, now' = now
  PROVE  /\ file' \in Store /\ file'.stamp <= now'
         /\ ~lost' => file' = EmptyStore \/ sent' <= KeyOf(file)'
         /\ file'.block = None => file' = EmptyStore
         /\ file'.block # None => After(file.block)'
<1>1. CASE file' = file
  BY <1>1 DEF IInv, Typed, Dated, Versions, Rounds, KeyOf, After
<1>2. CASE file' = EmptyStore
  BY <1>2, EmptyFields DEF None
<1> QED BY <1>1, <1>2

\* A step that only saves something new in memory, or fails to: the parts of the
\* invariant about the file and the faults.
LEMMA SaveInv ==
  ASSUME IInv, Saved \/ SaveFailed, sent' = sent, lost' = lost, done' = done, now' = now,
         mem' \in Store, mem'.stamp <= now, mem'.block # None, After(mem.block)',
         ~lost => sent <= KeyOf(mem)'
  PROVE  /\ file' \in Store /\ faults' \in Nat /\ file'.stamp <= now'
         /\ ~lost' => file' = EmptyStore \/ sent' <= KeyOf(file)'
         /\ file'.block = None => file' = EmptyStore
         /\ file'.block # None => After(file.block)'
<1>1. now \in Nat /\ faults \in Nat
  BY DEF IInv, Typed
<1>2. CASE Saved
  <2>1. file' = mem' /\ faults' = faults
    BY <1>2, SaveCases
  <2> QED BY <1>1, <2>1 DEF KeyOf, After
<1>3. CASE SaveFailed
  <2>1. file' \in {file, EmptyStore} /\ faults' = faults + 1
    BY <1>3, SaveCases
  <2> QED BY <1>1, <2>1, FileKept
<1> QED BY <1>2, <1>3

\* Start.
LEMMA StartInv == ASSUME IInv, Start PROVE IInv'
<1>1. /\ pc = "start" /\ now' = now /\ verified' = verified /\ round' = round /\ paid' = paid
      /\ attempt' = attempt /\ tries' = tries /\ stamp' = stamp
      /\ sent' = sent /\ done' = done /\ lost' = lost /\ pays' = pays
  BY DEF Start, local, history
<1>2. Typed /\ Dated /\ Versions /\ Rounds /\ Payouts
  BY DEF IInv
<1>3. now \in Nat /\ mem \in Store /\ file \in Store /\ faults \in Nat
  BY <1>2 DEF Typed
<1>4. CASE mem.block # None /\ last' = mem.block /\ pc' = "idle" /\ UNCHANGED <<mem, file, faults>>
  <2>1. mem.block \in Nat
    BY <1>3, <1>4, StoreFields, StampsInt
  <2>2. Typed'
    BY <1>1, <1>2, <1>4, <2>1 DEF Typed, Phases
  <2>3. Dated'
    BY <1>1, <1>2, <1>4 DEF Dated, Active
  <2>4. Versions'
    BY <1>1, <1>2, <1>4 DEF Versions, KeyOf
  <2>5. Rounds'
    BY <1>1, <1>2, <1>4 DEF Rounds, After, Active
  <2>6. \A m \in Miners : Open(m)' => Open(m)
    BY <1>1, <1>4 DEF Open, Closed, HandedOver
  <2>7. Payouts'
    BY <1>1, <1>4, <2>2, <2>6, PaysKept DEF Payouts
  <2> QED BY <2>2, <2>3, <2>4, <2>5, <2>7 DEF IInv
<1>5. ASSUME mem.block = None, mem' = [mem EXCEPT !.block = FirstBlock],
             \/ Saved /\ last' = FirstBlock /\ pc' = "idle"
             \/ SaveFailed /\ pc' = "dead" /\ UNCHANGED last
      PROVE  IInv'
  <2>1. FirstBlock \in Nat /\ After(FirstBlock)
    BY <1>5, FirstBlockAfter
  <2>2. mem' \in Store /\ mem'.block = FirstBlock /\ mem'.stamp = mem.stamp /\ mem'.version = mem.version
    BY <1>3, <1>5, <2>1, SetBlock
  <2>3. mem'.block # None
    BY <2>1, <2>2 DEF None
  <2>4. After(mem.block)' /\ KeyOf(mem)' = KeyOf(mem)
    BY <1>1, <2>1, <2>2 DEF After, KeyOf
  <2>5. /\ file' \in Store /\ faults' \in Nat /\ file'.stamp <= now'
        /\ ~lost' => file' = EmptyStore \/ sent' <= KeyOf(file)'
        /\ file'.block = None => file' = EmptyStore
        /\ file'.block # None => After(file.block)'
    <3>1. mem'.stamp <= now /\ (~lost => sent <= KeyOf(mem)')
      BY <1>2, <2>2, <2>4 DEF Dated, Versions
    <3> QED BY <1>1, <1>5, <2>2, <2>3, <2>4, <3>1, SaveInv
  <2>6. Typed'
    BY <1>1, <1>2, <1>5, <2>1, <2>2, <2>5 DEF Typed, Phases
  <2>7. Dated'
    BY <1>1, <1>2, <1>5, <2>2, <2>5 DEF Dated, Active
  <2>8. Versions'
    BY <1>1, <1>2, <1>5, <2>4, <2>5 DEF Versions
  <2>9. Rounds'
    BY <1>1, <1>5, <2>1, <2>3, <2>4, <2>5 DEF Rounds, After, Active
  <2>10. \A m \in Miners : Open(m)' => Open(m)
    BY <1>1, <1>5, <2>2 DEF Open, Closed, HandedOver
  <2>11. Payouts'
    BY <1>1, <1>5, <2>10, PaysKept, SaveCases DEF Payouts
  <2> QED BY <2>6, <2>7, <2>8, <2>9, <2>11 DEF IInv
<1> QED BY <1>4, <1>5 DEF Start

LEMMA FailCases ==
  ASSUME attempt \in Nat, FailAttempt
  PROVE  /\ pc' \in {"attempt", "idle"} /\ attempt' \in Nat /\ paid' = {} /\ tries' = 0
         /\ round' = round /\ stamp' = stamp
  BY DEF FailAttempt

\* BeginRound.
LEMMA BeginInv == ASSUME IInv, BeginRound PROVE IInv'
<1>1. /\ pc = "idle" /\ now >= last + Interval /\ round' = now /\ attempt' = 1 /\ pc' = "attempt"
      /\ now' = now /\ verified' = verified /\ last' = last /\ paid' = paid /\ tries' = tries
      /\ stamp' = stamp /\ mem' = mem /\ file' = file /\ faults' = faults
      /\ sent' = sent /\ done' = done /\ lost' = lost /\ pays' = pays
  BY DEF BeginRound, Due, history
<1>2. Typed /\ Dated /\ Versions /\ Rounds /\ Payouts
  BY DEF IInv
<1>3. Typed'
  BY <1>1, <1>2 DEF Typed, Phases
<1>4. Dated'
  BY <1>1, <1>2 DEF Dated, Active, Typed
<1>5. Versions'
  BY <1>1, <1>2 DEF Versions, KeyOf
<1>6. Rounds'
  BY <1>1, <1>2 DEF Rounds, After, Active
<1>7. \A m \in Miners : Open(m)' => Open(m)
  BY <1>1 DEF Open, Closed, HandedOver
<1>8. Payouts'
  BY <1>1, <1>7, PaysKept DEF Payouts
<1> QED BY <1>3, <1>4, <1>5, <1>6, <1>8 DEF IInv

\* Allocate.
LEMMA AllocateInv == ASSUME IInv, Allocate PROVE IInv'
<1>1. /\ pc = "attempt" /\ now' = now /\ verified' = verified /\ last' = last /\ mem' = mem /\ file' = file
      /\ sent' = sent /\ done' = done /\ lost' = lost /\ pays' = pays
  BY DEF Allocate, history
<1>2. Typed /\ Dated /\ Versions /\ Rounds /\ Payouts
  BY DEF IInv
<1>3. CASE /\ \E active \in SUBSET Miners : paid' = {m \in active : Eligible(m)}
           /\ pc' = "version" /\ UNCHANGED <<round, attempt, tries, stamp, faults>>
  <2>0. paid' \subseteq Miners /\ \A m \in paid' : Eligible(m)
    BY <1>3
  <2>1. Typed'
    BY <1>1, <1>2, <1>3, <2>0 DEF Typed, Phases
  <2>2. Dated'
    BY <1>1, <1>2, <1>3 DEF Dated, Active
  <2>3. Versions'
    BY <1>1, <1>2, <1>3 DEF Versions, KeyOf
  <2>4. Rounds'
    BY <1>1, <1>2, <1>3 DEF Rounds, After, Active
  <2>5. \A m \in Miners : Open(m)' => Open(m)
    BY <1>1, <1>3 DEF Open, Closed, HandedOver
  <2>6. \A m \in paid' : verified'[m] # None /\ ~Closed(m)'
    <3> SUFFICES ASSUME NEW m \in paid' PROVE verified[m] # None /\ ~Closed(m)
      BY <1>1 DEF Closed
    <3>1. verified[m] \in Int /\ mem.stamp \in Int
      BY <1>2, <2>0, StoreFields, StampsInt DEF Typed
    <3> QED BY <2>0, <3>1 DEF Eligible, Closed
  <2>7. Payouts'
    BY <1>1, <1>3, <2>5, <2>6, PaysKept DEF Payouts
  <2> QED BY <2>1, <2>2, <2>3, <2>4, <2>7 DEF IInv
<1>4. CASE Fault /\ FailAttempt
  <2>1. /\ pc' \in {"attempt", "idle"} /\ attempt' \in Nat /\ paid' = {} /\ tries' = 0
        /\ round' = round /\ stamp' = stamp /\ faults' = faults + 1
    BY <1>2, <1>4, FailCases DEF Typed, Fault
  <2>2. Typed'
    BY <1>1, <1>2, <2>1 DEF Typed, Phases
  <2>3. Dated'
    BY <1>1, <1>2, <2>1 DEF Dated, Active
  <2>4. Versions'
    BY <1>1, <1>2, <2>1 DEF Versions, KeyOf
  <2>5. Rounds'
    BY <1>1, <1>2, <2>1 DEF Rounds, After, Active
  <2>6. Payouts'
    BY <1>1, <2>1, PaysKept DEF Payouts
  <2> QED BY <2>2, <2>3, <2>4, <2>5, <2>6 DEF IInv
<1>5. CASE FailAttempt /\ UNCHANGED faults
  <2>1. /\ pc' \in {"attempt", "idle"} /\ attempt' \in Nat /\ paid' = {} /\ tries' = 0
        /\ round' = round /\ stamp' = stamp /\ faults' = faults
    BY <1>2, <1>5, FailCases DEF Typed
  <2>2. Typed'
    BY <1>1, <1>2, <2>1 DEF Typed, Phases
  <2>3. Dated'
    BY <1>1, <1>2, <2>1 DEF Dated, Active
  <2>4. Versions'
    BY <1>1, <1>2, <2>1 DEF Versions, KeyOf
  <2>5. Rounds'
    BY <1>1, <1>2, <2>1 DEF Rounds, After, Active
  <2>6. \A m \in Miners : Open(m)' => Open(m)
    BY <1>1 DEF Open, Closed, HandedOver
  <2>7. Payouts'
    BY <1>1, <2>1, <2>6, PaysKept DEF Payouts
  <2> QED BY <2>2, <2>3, <2>4, <2>5, <2>7 DEF IInv
<1> QED BY <1>3, <1>4, <1>5 DEF Allocate

\* BumpVersion.
LEMMA BumpInv == ASSUME IInv, BumpVersion PROVE IInv'
<1>1. /\ pc = "version" /\ now' = now /\ verified' = verified /\ last' = last
      /\ sent' = sent /\ done' = done /\ lost' = lost /\ pays' = pays
      /\ mem' = [mem EXCEPT !.version = NextVersion]
  BY DEF BumpVersion, history
<1>2. Typed /\ Dated /\ Versions /\ Rounds /\ Payouts
  BY DEF IInv
<1>3. now \in Nat /\ mem \in Store /\ faults \in Nat /\ sent \in Nat /\ mem.block # None
  BY <1>1, <1>2 DEF Typed, Rounds
<1>4. NextVersion \in Nat /\ NextVersion = KeyOf(mem) + 1 /\ NextVersion # None
  <2>1. mem.version = None \/ mem.version \in Nat
    BY <1>3, StoreFields, StampsInt
  <2> QED BY <2>1 DEF NextVersion, KeyOf, None
<1>5. mem' \in Store /\ mem'.version = NextVersion /\ mem'.block = mem.block /\ mem'.stamp = mem.stamp
  BY <1>1, <1>3, <1>4, SetVersion
<1>6. KeyOf(mem)' = NextVersion /\ (~lost => sent <= NextVersion)
  BY <1>2, <1>3, <1>4, <1>5, KeyNat DEF KeyOf, Versions
<1>7. Saved \/ SaveFailed
  BY DEF BumpVersion
<1>8. After(mem.block)'
  BY <1>1, <1>2, <1>3, <1>5 DEF After, Rounds
<1>9. /\ file' \in Store /\ faults' \in Nat /\ file'.stamp <= now'
      /\ ~lost' => file' = EmptyStore \/ sent' <= KeyOf(file)'
      /\ file'.block = None => file' = EmptyStore
      /\ file'.block # None => After(file.block)'
  <2>1. mem'.stamp <= now /\ mem'.block # None /\ (~lost => sent <= KeyOf(mem)')
    BY <1>2, <1>3, <1>5, <1>6 DEF Dated
  <2> QED BY <1>1, <1>5, <1>7, <1>8, <2>1, SaveInv
<1>10. \/ /\ file' = mem' /\ faults' = faults /\ tries' = 1 /\ pc' = "submit"
          /\ round' = round /\ paid' = paid /\ attempt' = attempt /\ stamp' = stamp
       \/ /\ faults' = faults + 1 /\ pc' \in {"attempt", "idle"} /\ attempt' \in Nat
          /\ paid' = {} /\ tries' = 0 /\ round' = round /\ stamp' = stamp
  BY <1>2, FailCases, SaveCases DEF BumpVersion, Typed
<1>11. Typed'
  BY <1>1, <1>2, <1>5, <1>9, <1>10 DEF Typed, Phases
<1>12. Dated'
  BY <1>1, <1>2, <1>5, <1>9, <1>10 DEF Dated, Active
<1>13. Versions'
  BY <1>1, <1>4, <1>5, <1>6, <1>9, <1>10 DEF Versions
<1>14. Rounds'
  BY <1>1, <1>2, <1>3, <1>5, <1>8, <1>9, <1>10 DEF Rounds, After, Active
<1>15. \A m \in Miners : /\ Closed(m)' <=> Closed(m)
                         /\ pc' = "submit" => (Open(m)' => Open(m))
  BY <1>1, <1>5, <1>10 DEF Open, Closed, HandedOver
<1>16. Payouts'
  <2>1. pc' = "submit" => \A m \in paid' : verified'[m] # None /\ ~Closed(m)'
    <3> SUFFICES ASSUME pc' = "submit", NEW m \in paid' PROVE verified[m] # None /\ ~Closed(m)
      BY <1>1, <1>10, <1>15, <1>2 DEF Typed
    <3> QED BY <1>1, <1>2, <1>10 DEF Payouts
  <2> QED BY <1>1, <1>10, <1>15, <2>1, PaysKept DEF Payouts
<1> QED BY <1>11, <1>12, <1>13, <1>14, <1>16 DEF IInv

\* A round pays its miners: all of them were open.
LEMMA PaysAdd ==
  ASSUME IInv, pc = "submit", Handed, verified' = verified, mem' = mem, round' = round,
         \/ faults' = faults /\ pc' = "persist"
         \/ faults' = faults + 1
  PROVE  \A m \in Miners :
           /\ IsFiniteSet(pays'[m])
           /\ verified'[m] # None =>
                /\ Cardinality(PaidBy(m)') <= 1 + faults'
                /\ Open(m)' => Cardinality(PaidBy(m)') <= faults'
<1> SUFFICES ASSUME NEW m \in Miners
             PROVE  /\ IsFiniteSet(pays'[m])
                    /\ verified'[m] # None =>
                         /\ Cardinality(PaidBy(m)') <= 1 + faults'
                         /\ Open(m)' => Cardinality(PaidBy(m)') <= faults'
  OBVIOUS
<1>1. /\ faults \in Nat /\ IsFiniteSet(pays[m])
      /\ verified[m] # None => /\ Cardinality(PaidBy(m)) <= 1 + faults
                               /\ Open(m) => Cardinality(PaidBy(m)) <= faults
      /\ m \in paid => ~Closed(m)
  BY DEF IInv, Typed, Payouts
<1>2. IsFiniteSet(PaidBy(m)) /\ Cardinality(PaidBy(m)) \in Nat
  <2>1. IsFiniteSet(PaidBy(m))
    BY <1>1, FS_Subset DEF PaidBy
  <2> QED BY <2>1, FS_CardinalityType
<1>3. (Closed(m)' <=> Closed(m)) /\ ~HandedOver
  BY DEF Closed, HandedOver
<1>4. CASE m \notin paid \/ round \in pays[m]
  <2>1. pays'[m] = pays[m]
    BY <1>4 DEF Handed
  <2>2. PaidBy(m)' = PaidBy(m)
    BY <2>1 DEF PaidBy
  <2>3. faults' = faults => (Open(m)' => Open(m))
    BY <1>1, <1>3, <2>1 DEF Open
  <2> QED BY <1>1, <1>2, <2>1, <2>2, <2>3
<1>5. CASE m \in paid /\ round \notin pays[m]
  <2>1. pays'[m] = pays[m] \cup {round}
    BY <1>5 DEF Handed
  <2>2. IsFiniteSet(pays'[m])
    BY <1>1, <2>1, FS_AddElement
  <2>3. Open(m)
    BY <1>1, <1>3, <1>5 DEF Open
  <2>4. /\ IsFiniteSet(PaidBy(m) \cup {round})
        /\ Cardinality(PaidBy(m) \cup {round}) = Cardinality(PaidBy(m)) + 1
    <3>1. round \notin PaidBy(m)
      BY <1>5 DEF PaidBy
    <3> QED BY <1>2, <3>1, FS_AddElement
  <2>5. PaidBy(m)' \subseteq PaidBy(m) \cup {round}
    BY <2>1 DEF PaidBy
  <2>6. Cardinality(PaidBy(m)') \in Nat /\ Cardinality(PaidBy(m)') <= Cardinality(PaidBy(m)) + 1
    <3> PICK S, T : S = PaidBy(m)' /\ T = PaidBy(m) \cup {round}
      OBVIOUS
    <3>1. IsFiniteSet(T) /\ S \subseteq T
      BY <2>4, <2>5
    <3>2. Cardinality(S) <= Cardinality(T) /\ IsFiniteSet(S)
      BY <3>1, FS_Subset
    <3>3. Cardinality(S) \in Nat
      BY <3>2, FS_CardinalityType
    <3> QED BY <2>4, <3>2, <3>3
  <2>7. faults' = faults => ~Open(m)'
    BY <1>1, <2>1 DEF Open, HandedOver
  <2> QED BY <1>1, <1>2, <2>2, <2>3, <2>6, <2>7
<1> QED BY <1>4, <1>5

\* Submit.
LEMMA SubmitInv == ASSUME IInv, Submit PROVE IInv'
<1>1. /\ pc = "submit" /\ now' = now /\ verified' = verified /\ last' = last /\ mem' = mem /\ file' = file
      /\ done' = done /\ lost' = lost
  BY DEF Submit
<1>2. Typed /\ Dated /\ Versions /\ Rounds /\ Payouts
  BY DEF IInv
<1>3. /\ mem \in Store /\ file = mem /\ mem.version # None /\ mem.version \in Nat
      /\ KeyOf(mem) = mem.version /\ faults \in Nat
  <2>1. mem \in Store /\ file = mem /\ mem.version # None /\ faults \in Nat
    BY <1>1, <1>2 DEF Typed, Versions
  <2> QED BY <2>1, StoreFields, StampsInt DEF KeyOf
<1>4. Handed \/ UNCHANGED <<sent, pays>>
  BY DEF Submit
<1>5. /\ round' = round /\ stamp' = stamp /\ attempt' \in Nat /\ tries' \in Nat
      /\ \/ faults' = faults /\ pc' = "persist" /\ paid' = {} /\ Handed
         \/ faults' = faults + 1 /\ pc' = "submit" /\ paid' = paid
         \/ faults' = faults + 1 /\ pc' \in {"attempt", "idle"} /\ paid' = {}
  BY <1>1, <1>2, FailCases DEF Submit, Fault, Typed
<1>6. sent' \in Nat /\ (sent' = sent \/ sent' = mem.version)
  BY <1>2, <1>3, <1>4 DEF Handed, Typed
<1>7. /\ pays' \in [Miners -> SUBSET Nat]
      /\ \A m \in Miners : \A r \in pays'[m] : r \in pays[m] \/ r = round
  <2>1. round \in Nat /\ pays \in [Miners -> SUBSET Nat]
    BY <1>2 DEF Typed
  <2>2. CASE Handed
    BY <2>1, <2>2 DEF Handed
  <2>3. CASE UNCHANGED <<sent, pays>>
    BY <2>1, <2>3
  <2> QED BY <1>4, <2>2, <2>3
<1>8. Typed'
  BY <1>1, <1>2, <1>5, <1>6, <1>7 DEF Typed, Phases
<1>9. Dated'
  <2>1. \A m \in Miners : \A r \in pays'[m] : r <= round /\ round <= now
    BY <1>1, <1>2, <1>7 DEF Dated, Active, Typed
  <2>2. \A m \in Miners : \A r \in pays'[m] : r <= now
    <3> SUFFICES ASSUME NEW m \in Miners, NEW r \in pays'[m] PROVE r <= now
      OBVIOUS
    <3>1. r \in Nat /\ round \in Nat /\ now \in Nat
      BY <1>2, <1>7 DEF Typed
    <3> QED BY <2>1, <3>1
  <2> QED BY <1>1, <1>2, <1>5, <2>1, <2>2 DEF Dated, Active
<1>10. Versions'
  <2>1. KeyOf(mem)' = KeyOf(mem) /\ KeyOf(file)' = KeyOf(mem)
    BY <1>1, <1>3
  <2>2. ~lost => sent' <= KeyOf(mem)
    BY <1>2, <1>3, <1>6 DEF Versions
  <2> QED BY <1>1, <1>3, <2>1, <2>2 DEF Versions
<1>11. Rounds'
  BY <1>1, <1>2, <1>5 DEF Rounds, After, Active
<1>12. Payouts'
  <2>1. \A m \in Miners : Closed(m)' <=> Closed(m)
    BY <1>1 DEF Closed
  <2>2. pc' \in {"version", "submit"} => \A m \in paid' : verified'[m] # None /\ ~Closed(m)'
    <3> SUFFICES ASSUME pc' = "submit", NEW m \in paid' PROVE verified[m] # None /\ ~Closed(m)
      BY <1>1, <1>2, <1>5, <2>1 DEF Typed
    <3> QED BY <1>1, <1>2, <1>5 DEF Payouts
  <2>3. CASE Handed
    <3>1. \A m \in Miners :
           /\ IsFiniteSet(pays'[m])
           /\ verified'[m] # None =>
                /\ Cardinality(PaidBy(m)') <= 1 + faults'
                /\ Open(m)' => Cardinality(PaidBy(m)') <= faults'
      BY <1>1, <1>5, <2>3, PaysAdd
    <3> QED BY <2>2, <3>1 DEF Payouts
  <2>4. CASE ~Handed
    <3>1. pays' = pays /\ faults' = faults + 1
      BY <1>4, <1>5, <2>4
    <3> QED BY <1>1, <2>2, <3>1, PaysKept DEF Payouts
  <2> QED BY <2>3, <2>4
<1> QED BY <1>8, <1>9, <1>10, <1>11, <1>12 DEF IInv

\* Persist.
LEMMA PersistInv == ASSUME IInv, Persist PROVE IInv'
<1>1. /\ pc = "persist" /\ now' = now /\ verified' = verified /\ last' = last /\ mem' = mem
      /\ sent' = sent /\ done' = done /\ lost' = lost /\ pays' = pays
  BY DEF Persist, history
<1>2. Typed /\ Dated /\ Versions /\ Rounds /\ Payouts
  BY DEF IInv
<1>3. now \in Nat /\ mem \in Store /\ faults \in Nat /\ mem.block # None /\ KeyOf(mem)' = KeyOf(mem)
  BY <1>1, <1>2 DEF Typed, Rounds, KeyOf
<1>4. After(mem.block)'
  BY <1>1, <1>2, <1>3 DEF After, Rounds
<1>5. /\ file' \in Store /\ faults' \in Nat /\ file'.stamp <= now'
      /\ ~lost' => file' = EmptyStore \/ sent' <= KeyOf(file)'
      /\ file'.block = None => file' = EmptyStore
      /\ file'.block # None => After(file.block)'
  <2>1. /\ Saved \/ SaveFailed
        /\ mem' \in Store /\ mem'.stamp <= now /\ mem'.block # None /\ (~lost => sent <= KeyOf(mem)')
    BY <1>1, <1>2, <1>3 DEF Persist, Dated, Versions
  <2> QED BY <1>1, <1>4, <2>1, SaveInv
<1>6. /\ round' = round /\ stamp' = stamp /\ attempt' \in Nat /\ tries' \in Nat
      /\ \/ faults' = faults /\ pc' = "store" /\ paid' = paid
         \/ faults' = faults + 1 /\ pc' \in {"attempt", "idle"} /\ paid' = {}
  BY <1>2, FailCases, SaveCases DEF Persist, Typed, local
<1>7. Typed'
  BY <1>1, <1>2, <1>5, <1>6 DEF Typed, Phases
<1>8. Dated'
  BY <1>1, <1>2, <1>5, <1>6 DEF Dated, Active
<1>9. Versions'
  BY <1>1, <1>2, <1>3, <1>5, <1>6 DEF Versions
<1>10. Rounds'
  BY <1>1, <1>2, <1>5, <1>6 DEF Rounds, After, Active
<1>11. faults' = faults => \A m \in Miners : Open(m)' => Open(m)
  BY <1>1, <1>3, <1>6 DEF Open, Closed, HandedOver
<1>12. Payouts'
  BY <1>1, <1>6, <1>11, PaysKept DEF Payouts
<1> QED BY <1>7, <1>8, <1>9, <1>10, <1>12 DEF IInv

\* StoreBlock.
LEMMA StoreBlockInv == ASSUME IInv, StoreBlock PROVE IInv'
<1>1. /\ pc = "store" /\ now' = now /\ verified' = verified
      /\ sent' = sent /\ lost' = lost /\ pays' = pays /\ mem' = [mem EXCEPT !.block = round]
  BY DEF StoreBlock
<1>2. Typed /\ Dated /\ Versions /\ Rounds /\ Payouts
  BY DEF IInv
<1>3. /\ now \in Nat /\ mem \in Store /\ faults \in Nat /\ round \in Nat /\ last \in Nat
      /\ done \in Stamps /\ round <= now /\ round >= last + Interval /\ mem.stamp <= now
  BY <1>1, <1>2 DEF Typed, Rounds, Dated, Active
<1>4. /\ mem' \in Store /\ mem'.block = round /\ mem'.stamp = mem.stamp /\ mem'.version = mem.version
      /\ mem'.block # None /\ KeyOf(mem)' = KeyOf(mem)
  <2>1. mem' \in Store /\ mem'.block = round /\ mem'.stamp = mem.stamp /\ mem'.version = mem.version
    BY <1>1, <1>3, SetBlock
  <2> QED BY <1>3, <2>1 DEF KeyOf, None
<1>5. After(round)
  <2>1. After(last) /\ done \in Int
    BY <1>1, <1>2, <1>3, StampsInt DEF Rounds
  <2>2. round >= last
    BY <1>3, WeightsAssumption
  <2> QED BY <1>3, <2>1, <2>2, HalfNat DEF After
<1>6. CASE Saved /\ pc' = "stamp" /\ stamp' = now /\ done' = round
           /\ UNCHANGED <<last, round, paid, attempt, tries>>
  <2>1. file' = mem' /\ faults' = faults
    BY <1>6, SaveCases
  <2>2. After(mem.block)' /\ After(file.block)'
    BY <1>3, <1>4, <1>6, <2>1 DEF After
  <2>3. Typed'
    BY <1>1, <1>2, <1>3, <1>4, <1>6, <2>1 DEF Typed, Phases, Stamps
  <2>4. Dated'
    BY <1>1, <1>2, <1>3, <1>4, <1>6, <2>1 DEF Dated, Active
  <2>5. Versions'
    BY <1>1, <1>2, <1>4, <1>6, <2>1 DEF Versions, KeyOf
  <2>6. Rounds'
    BY <1>3, <1>4, <1>6, <2>1, <2>2 DEF Rounds, Active
  <2>7. \A m \in Miners : Open(m)' => Open(m)
    BY <1>1, <1>4, <1>6 DEF Open, Closed, HandedOver
  <2>8. Payouts'
    BY <1>1, <1>6, <2>1, <2>7, PaysKept DEF Payouts
  <2> QED BY <2>3, <2>4, <2>5, <2>6, <2>8 DEF IInv
<1>7. CASE SaveFailed /\ EndRound /\ UNCHANGED done
  <2>1. /\ faults' = faults + 1 /\ last' = round /\ pc' = "idle" /\ round' = 0 /\ paid' = {}
        /\ attempt' = 0 /\ tries' = 0 /\ stamp' = 0 /\ done' = done
    BY <1>7, SaveCases DEF EndRound
  <2>2. After(mem.block)' /\ After(last)'
    BY <1>1, <1>4, <1>5, <2>1 DEF After
  <2>3. /\ file' \in Store /\ faults' \in Nat /\ file'.stamp <= now'
        /\ ~lost' => file' = EmptyStore \/ sent' <= KeyOf(file)'
        /\ file'.block = None => file' = EmptyStore
        /\ file'.block # None => After(file.block)'
    <3>1. mem'.stamp <= now /\ (~lost => sent <= KeyOf(mem)')
      BY <1>2, <1>3, <1>4 DEF Versions
    <3> QED BY <1>1, <1>4, <1>7, <2>1, <2>2, <3>1, SaveInv
  <2>4. Typed'
    BY <1>1, <1>2, <1>3, <1>4, <2>1, <2>3 DEF Typed, Phases
  <2>5. Dated'
    BY <1>1, <1>2, <1>4, <2>1, <2>3 DEF Dated, Active
  <2>6. Versions'
    BY <1>1, <1>2, <1>4, <2>1, <2>3 DEF Versions
  <2>7. Rounds'
    BY <1>4, <2>1, <2>2, <2>3 DEF Rounds, Active
  <2>8. Payouts'
    BY <1>1, <2>1, PaysKept DEF Payouts
  <2> QED BY <2>4, <2>5, <2>6, <2>7, <2>8 DEF IInv
<1> QED BY <1>6, <1>7 DEF StoreBlock

\* StoreStamp: the round is over, and its timestamp rules out what it paid.
LEMMA StoreStampInv == ASSUME IInv, StoreStamp PROVE IInv'
<1>1. /\ pc = "stamp" /\ now' = now /\ verified' = verified
      /\ sent' = sent /\ lost' = lost /\ pays' = pays /\ done' = done
      /\ mem' = [mem EXCEPT !.stamp = stamp] /\ (Saved \/ SaveFailed)
      /\ last' = round /\ pc' = "idle" /\ round' = 0 /\ paid' = {}
      /\ attempt' = 0 /\ tries' = 0 /\ stamp' = 0
  BY DEF StoreStamp, StampOf, EndRound, history
<1>2. Typed /\ Dated /\ Versions /\ Rounds /\ Payouts
  BY DEF IInv
<1>3. /\ now \in Nat /\ mem \in Store /\ faults \in Nat /\ round \in Nat /\ stamp \in Nat
      /\ round <= stamp /\ stamp <= now /\ done = round /\ mem.block # None
  BY <1>1, <1>2 DEF Typed, Rounds, Dated
<1>4. mem' \in Store /\ mem'.stamp = stamp /\ mem'.block = mem.block /\ mem'.version = mem.version
  BY <1>1, <1>3, SetStamp
<1>5. After(mem.block)' /\ After(last)' /\ KeyOf(mem)' = KeyOf(mem)
  BY <1>1, <1>2, <1>3, <1>4 DEF After, Rounds, KeyOf
<1>6. /\ file' \in Store /\ faults' \in Nat /\ file'.stamp <= now'
      /\ ~lost' => file' = EmptyStore \/ sent' <= KeyOf(file)'
      /\ file'.block = None => file' = EmptyStore
      /\ file'.block # None => After(file.block)'
  <2>1. mem'.stamp <= now /\ mem'.block # None /\ (~lost => sent <= KeyOf(mem)')
    BY <1>2, <1>3, <1>4, <1>5 DEF Versions
  <2> QED BY <1>1, <1>4, <1>5, <2>1, SaveInv
<1>7. Typed'
  BY <1>1, <1>2, <1>3, <1>4, <1>6 DEF Typed, Phases
<1>8. Dated'
  BY <1>1, <1>2, <1>3, <1>4, <1>6 DEF Dated, Active
<1>9. Versions'
  BY <1>1, <1>2, <1>5, <1>6 DEF Versions
<1>10. Rounds'
  BY <1>1, <1>3, <1>4, <1>5, <1>6 DEF Rounds, Active
<1>11. Payouts'
  <2> SUFFICES ASSUME NEW m \in Miners
               PROVE  /\ IsFiniteSet(pays[m])
                      /\ verified[m] # None =>
                           /\ Cardinality(PaidBy(m)) <= 1 + faults'
                           /\ Open(m)' => Cardinality(PaidBy(m)) <= faults'
    BY <1>1 DEF Payouts, PaidBy
  <2>1. /\ IsFiniteSet(pays[m])
        /\ verified[m] # None => Cardinality(PaidBy(m)) <= 1 + faults
    BY <1>2 DEF Payouts
  <2>2. Cardinality(PaidBy(m)) \in Nat
    <3>1. IsFiniteSet(PaidBy(m))
      BY <2>1, FS_Subset DEF PaidBy
    <3> QED BY <3>1, FS_CardinalityType
  <2>3. faults' = faults \/ faults' = faults + 1
    BY <1>1, SaveCases
  <2>4. ASSUME Open(m)' PROVE Cardinality(PaidBy(m)) = 0
    <3>1. ~(verified[m] < stamp) /\ verified[m] \in Int
      BY <1>1, <1>2, <1>3, <1>4, <2>4, StampsInt DEF Open, Closed, None, Typed
    <3>2. \A r \in pays[m] : r \in Nat /\ r <= round
      BY <1>1, <1>2 DEF Dated, Active, Typed
    <3>3. \A r \in pays[m] : ~(r > verified[m])
      BY <1>3, <3>1, <3>2
    <3>4. PaidBy(m) = {}
      BY <3>3 DEF PaidBy
    <3> QED BY <3>4, FS_EmptySet
  <2> QED BY <1>3, <2>1, <2>2, <2>3, <2>4
<1> QED BY <1>7, <1>8, <1>9, <1>10, <1>11 DEF IInv

\* A verification succeeds.
LEMMA VerifyInv == ASSUME IInv, NEW m \in Miners, VerifySucceeds(m) PROVE IInv'
<1>1. /\ verified' = [verified EXCEPT ![m] = now] /\ pays' = [pays EXCEPT ![m] = {}]
      /\ now' = now /\ pc' = pc /\ last' = last /\ round' = round /\ paid' = paid /\ attempt' = attempt
      /\ tries' = tries /\ stamp' = stamp /\ mem' = mem /\ file' = file /\ faults' = faults
      /\ sent' = sent /\ done' = done /\ lost' = lost
  BY DEF VerifySucceeds, local
<1>2. Typed /\ Dated /\ Versions /\ Rounds /\ Payouts
  BY DEF IInv
<1>3. Typed'
  BY <1>1, <1>2 DEF Typed, Stamps
<1>4. Dated'
  BY <1>1, <1>2 DEF Dated, Active, Typed
<1>5. Versions'
  BY <1>1, <1>2 DEF Versions, KeyOf
<1>6. Rounds'
  BY <1>1, <1>2 DEF Rounds, After, Active
<1>7. Payouts'
  <2>1. verified'[m] = now /\ now \in Nat /\ ~Closed(m)' /\ now # None
    <3>1. verified'[m] = now /\ now \in Nat /\ mem.stamp <= now /\ mem.stamp \in Int
      BY <1>1, <1>2, StoreFields, StampsInt DEF Typed, Dated
    <3> QED BY <1>1, <3>1 DEF Closed, None
  <2>2. pays'[m] = {} /\ PaidBy(m)' = {} /\ IsFiniteSet({}) /\ Cardinality({}) = 0 /\ faults \in Nat
    BY <1>1, <1>2, FS_EmptySet DEF Typed, PaidBy
  <2>3. ASSUME NEW n \in Miners \ {m}
        PROVE  /\ verified'[n] = verified[n] /\ pays'[n] = pays[n] /\ PaidBy(n)' = PaidBy(n)
               /\ (Closed(n)' <=> Closed(n)) /\ (Open(n)' <=> Open(n))
    <3>1. verified'[n] = verified[n] /\ pays'[n] = pays[n]
      BY <1>1, <1>2 DEF Typed
    <3> QED BY <1>1, <3>1 DEF PaidBy, Closed, Open, HandedOver
  <2>4. pc \in {"version", "submit"} => \A n \in paid : verified'[n] # None /\ ~Closed(n)'
    <3> SUFFICES ASSUME pc \in {"version", "submit"}, NEW n \in paid PROVE verified'[n] # None /\ ~Closed(n)'
      OBVIOUS
    <3>1. n \in Miners /\ verified[n] # None /\ ~Closed(n)
      BY <1>2 DEF Typed, Payouts
    <3> QED BY <2>1, <2>3, <3>1
  <2>5. ASSUME NEW n \in Miners
        PROVE  /\ IsFiniteSet(pays'[n])
               /\ verified'[n] # None =>
                    /\ Cardinality(PaidBy(n)') <= 1 + faults
                    /\ Open(n)' => Cardinality(PaidBy(n)') <= faults
    <3>1. CASE n = m
      BY <2>2, <3>1
    <3>2. CASE n # m
      BY <1>2, <2>3, <3>2 DEF Payouts
    <3> QED BY <3>1, <3>2
  <2> QED BY <1>1, <2>4, <2>5 DEF Payouts
<1> QED BY <1>3, <1>4, <1>5, <1>6, <1>7 DEF IInv

\* A block passes.
LEMMA TickInv == ASSUME IInv, Tick PROVE IInv'
<1>1. /\ now' = now + 1 /\ verified' = verified /\ pays' = pays
      /\ pc' = pc /\ last' = last /\ round' = round /\ paid' = paid /\ attempt' = attempt
      /\ tries' = tries /\ stamp' = stamp /\ mem' = mem /\ file' = file /\ faults' = faults
      /\ sent' = sent /\ done' = done /\ lost' = lost
  BY DEF Tick, local, history
<1>2. Typed /\ Dated /\ Versions /\ Rounds /\ Payouts
  BY DEF IInv
<1>3. Typed'
  BY <1>1, <1>2 DEF Typed
<1>4. Dated'
  <2>1. /\ now \in Nat /\ done \in Int /\ mem.stamp \in Int /\ file.stamp \in Int /\ round \in Nat /\ stamp \in Nat
        /\ \A m \in Miners : verified[m] \in Int /\ \A r \in pays[m] : r \in Nat
    BY <1>2, StoreFields, StampsInt DEF Typed
  <2> QED BY <1>1, <1>2, <2>1 DEF Dated, Active
<1>5. Versions'
  BY <1>1, <1>2 DEF Versions, KeyOf
<1>6. Rounds'
  BY <1>1, <1>2 DEF Rounds, After, Active
<1>7. \A m \in Miners : Open(m)' <=> Open(m)
  BY <1>1 DEF Open, Closed, HandedOver
<1>8. Payouts'
  <2>1. \A m \in Miners : Closed(m)' <=> Closed(m)
    BY <1>1 DEF Closed
  <2>2. pc \in {"version", "submit"} => \A m \in paid : verified[m] # None /\ ~Closed(m)'
    BY <1>2, <2>1 DEF Payouts, Typed
  <2> QED BY <1>1, <1>7, <2>2, PaysKept DEF Payouts
<1> QED BY <1>3, <1>4, <1>5, <1>6, <1>8 DEF IInv

\* A crash: the memory is read from the file.
LEMMA CrashInv == ASSUME IInv, Crash PROVE IInv'
<1>1. /\ faults' = faults + 1 /\ pc' = "start" /\ last' = 0 /\ mem' = file'
      /\ file' \in {file, EmptyStore} /\ round' = 0 /\ paid' = {} /\ attempt' = 0 /\ tries' = 0 /\ stamp' = 0
      /\ lost' = (lost \/ (file' = EmptyStore /\ mem # EmptyStore))
      /\ now' = now /\ verified' = verified /\ sent' = sent /\ done' = done /\ pays' = pays
  BY DEF Crash, Fault
<1>2. Typed /\ Dated /\ Versions /\ Rounds /\ Payouts
  BY DEF IInv
<1>3. file' \in Store /\ lost' \in BOOLEAN /\ (lost => lost') /\ faults \in Nat
  BY <1>1, <1>2, EmptyFields DEF Typed
<1>4. Typed'
  BY <1>1, <1>2, <1>3 DEF Typed, Phases
<1>5. Dated'
  BY <1>1, <1>2, EmptyFields DEF Dated, Active, None, Typed
<1>6. Versions'
  BY <1>1, <1>2, <1>3 DEF Versions, KeyOf
<1>7. Rounds'
  <2>1. CASE file' = file /\ file # EmptyStore
    BY <1>1, <1>2, <1>3, <2>1 DEF Rounds, After, Active
  <2>2. CASE file' = EmptyStore
    <3>1. done = None \/ lost'
      BY <1>1, <1>2, <1>3, <2>2, EmptyFields DEF Rounds
    <3> QED BY <1>1, <2>2, <3>1, EmptyFields DEF Rounds, Active
  <2> QED BY <1>1, <2>1, <2>2
<1>8. Payouts'
  BY <1>1, PaysKept DEF Payouts
<1> QED BY <1>4, <1>5, <1>6, <1>7, <1>8 DEF IInv

LEMMA NextInv == IInv /\ [Next]_vars => IInv'
<1> SUFFICES ASSUME IInv, [Next]_vars PROVE IInv'
  OBVIOUS
<1>1. CASE SetterStep
  BY <1>1, StartInv, BeginInv, AllocateInv, BumpInv, SubmitInv, PersistInv, StoreBlockInv, StoreStampInv
     DEF SetterStep
<1>2. CASE UNCHANGED vars
  <2>1. /\ now' = now /\ verified' = verified /\ pays' = pays
        /\ pc' = pc /\ last' = last /\ round' = round /\ paid' = paid /\ attempt' = attempt
        /\ tries' = tries /\ stamp' = stamp /\ mem' = mem /\ file' = file /\ faults' = faults
        /\ sent' = sent /\ done' = done /\ lost' = lost
    BY <1>2 DEF vars, local, history
  <2>2. Typed' /\ Dated'
    BY <2>1 DEF IInv, Typed, Dated, Active
  <2>3. Versions' /\ Rounds'
    BY <2>1 DEF IInv, Versions, Rounds, Active, KeyOf, After
  <2>4. Payouts'
    BY <2>1 DEF IInv, Payouts, Closed, PaidBy, Open, HandedOver
  <2> QED BY <2>2, <2>3, <2>4 DEF IInv
<1> QED BY <1>1, <1>2, VerifyInv, TickInv, CrashInv DEF Next

LEMMA Invariance == Spec => []IInv
  BY InitInv, NextInv, PTL DEF Spec

\* Over failed attempts and restarts, the version key that get_version_key saves for an
\* attempt is larger than every key handed to the chain before, unless a restart found
\* the file of keys empty.
THEOREM KeysGrow == Spec => VersionsGrow
<1>1. IInv /\ [Next]_vars => [pc = "version" /\ pc' = "submit" => mem'.version > sent \/ lost]_vars
  <2> SUFFICES ASSUME IInv, [Next]_vars, pc = "version", pc' = "submit", ~lost
               PROVE  mem'.version > sent
    BY DEF IInv, Typed
  <2>1. BumpVersion
    BY DEF Next, SetterStep, Start, BeginRound, Allocate, Submit, Persist, StoreBlock, StoreStamp,
       VerifySucceeds, Tick, Crash, vars
  <2>2. mem' = [mem EXCEPT !.version = NextVersion] /\ mem \in Store /\ sent \in Nat /\ sent <= KeyOf(mem)
    BY <2>1 DEF BumpVersion, IInv, Typed, Versions
  <2>3. mem.version = None \/ mem.version \in Nat
    BY <2>2, StoreFields, StampsInt
  <2>4. NextVersion \in Nat /\ NextVersion = KeyOf(mem) + 1 /\ KeyOf(mem) \in Nat
    BY <2>3 DEF NextVersion, KeyOf, None
  <2>5. mem'.version = NextVersion
    BY <2>2, <2>4, SetVersion
  <2> QED BY <2>2, <2>4, <2>5
<1> QED BY <1>1, Invariance, PTL DEF Spec, VersionsGrow

\* Weights are not submitted sooner than blocks_per_weight_set after the last round
\* whose block was saved, or half of it when the saved block was lost.
THEOREM RoundsKeepApart == Spec => RoundsSpaced
<1>1. IInv => [pc = "submit" /\ sent' # sent /\ done # None =>
                 \/ round >= done + Interval
                 \/ lost /\ round >= done + Interval - Interval \div 2]_vars
  <2> SUFFICES ASSUME IInv, pc = "submit", done # None
               PROVE  \/ round >= done + Interval
                      \/ lost /\ round >= done + Interval - Interval \div 2
    OBVIOUS
  <2>1. /\ After(last) /\ round >= last + Interval
        /\ last \in Nat /\ round \in Nat /\ done \in Nat /\ Interval \in Nat
    BY WeightsAssumption, StampsInt DEF IInv, Typed, Rounds, Active
  <2> QED BY <2>1, HalfNat DEF After
<1> QED BY <1>1, Invariance, PTL DEF RoundsSpaced

\* The rounds that begin after a verification and pay for it are at most one more than
\* the faults there were: a second payment takes a failed save or a crash.
THEOREM PaymentsAreBounded == Spec => []PaidOnce
<1>1. IInv => PaidOnce
  BY DEF IInv, Payouts, PaidBy, PaidOnce
<1> QED BY <1>1, Invariance, PTL

-----------------------------------------------------------------------------
(* The allocation.  Arithmetic first: a division rounds down, and a common  *)
(* positive factor cancels.                                                *)

LEMMA DivBounds ==
  ASSUME NEW a \in Nat, NEW n \in Nat \ {0}
  PROVE  a \div n \in Nat /\ n * (a \div n) <= a /\ a < n * (a \div n) + n
  OBVIOUS

LEMMA MulNat == ASSUME NEW a \in Nat, NEW b \in Nat PROVE a * b \in Nat
  OBVIOUS

LEMMA MulMono ==
  ASSUME NEW k \in Nat, NEW a \in Int, NEW b \in Int, a <= b
  PROVE  k * a <= k * b
  OBVIOUS

LEMMA MulAdd ==
  ASSUME NEW k \in Int, NEW a \in Int, NEW b \in Int
  PROVE  k * (a + b) = k * a + k * b /\ k * (a - b) = k * a - k * b
         /\ k * a = a * k /\ k * a \in Int /\ k * 1 = k /\ k * 0 = 0
  OBVIOUS

LEMMA MulCancel ==
  ASSUME NEW k \in Nat \ {0}, NEW a \in Int, NEW b \in Int
  PROVE  /\ k * a <= k * b => a <= b
         /\ k * a < k * b => a < b
  OBVIOUS

-----------------------------------------------------------------------------
(* The pools.                                                              *)

LEMMA ConfigFacts ==
  ASSUME NEW cfg \in Configs
  PROVE  /\ cfg.burn \in Nat /\ cfg.burn <= Full /\ cfg.min \in Nat
         /\ \A c \in Categories : cfg.share[c] \in Nat
         /\ SumFunction(cfg.share) = SumFunctionOnSet(cfg.share, Categories)
         /\ SumFunctionOnSet(cfg.share, Categories) \in Nat
         /\ \A c \in Categories : cfg.share[c] <= SumFunctionOnSet(cfg.share, Categories)
         /\ U16Max \in Nat
<1>0. PICK f : f = cfg.share
  OBVIOUS
<1>1. /\ cfg.burn \in Burns /\ cfg.min \in 0 .. MaxMinMiners /\ f \in [Categories -> Shares]
  BY <1>0 DEF Configs
<1>2. cfg.burn \in Nat /\ cfg.burn <= Full /\ cfg.min \in Nat
  <2>1. PICK b, m, M, F : b = cfg.burn /\ m = cfg.min /\ M = MaxMinMiners /\ F = Full
    OBVIOUS
  <2>2. M \in Nat /\ F \in Nat /\ Burns \subseteq 0 .. F
    BY <2>1, AllocationAssumption
  <2>3. b \in Burns /\ m \in 0 .. M
    BY <1>1, <2>1
  <2>4. b \in 0 .. F
    BY <2>2, <2>3
  <2> QED BY <2>1, <2>2, <2>3, <2>4
<1>3. \A c \in Categories : f[c] \in Nat
  BY <1>1, AllocationAssumption
<1>4. /\ SumFunctionOnSet(f, Categories) \in Nat
      /\ \A c \in Categories : f[c] <= SumFunctionOnSet(f, Categories)
  BY <1>3, AllocationAssumption, SumBound
<1>5. DOMAIN f = Categories
  BY <1>1
<1>6. SumFunction(f) = SumFunctionOnSet(f, Categories)
  BY <1>5, Zenon DEF SumFunction
<1>7. U16Max \in Nat
  BY DEF U16Max
<1> QED BY <1>0, <1>2, <1>3, <1>4, <1>6, <1>7

\* What is left of the total when the burn share is taken.
Rest(cfg) == U16Max - BurnWeight(cfg)

LEMMA BurnFits ==
  ASSUME NEW cfg \in Configs
  PROVE  BurnWeight(cfg) \in Nat /\ Rest(cfg) \in Nat /\ U16Max = BurnWeight(cfg) + Rest(cfg)
<1>0. PICK u : u = U16Max
  OBVIOUS
<1>1. u \in Nat /\ cfg.burn \in Nat /\ cfg.burn <= Full /\ Full \in Nat \ {0}
  BY <1>0, ConfigFacts, AllocationAssumption
<1>2. u * cfg.burn \in Nat
  BY <1>1, MulNat
<1>3. u * cfg.burn <= u * Full /\ u * Full = Full * u
  BY <1>1, MulMono, MulAdd
<1>4. PICK b : b = (u * cfg.burn) \div Full
  OBVIOUS
<1>5. b \in Nat /\ Full * b <= u * cfg.burn
  BY <1>1, <1>2, <1>4, DivBounds
<1>6. Full * b \in Int /\ Full * u \in Int
  BY <1>1, <1>5, MulAdd
<1>7. Full * b <= Full * u
  BY <1>2, <1>3, <1>5, <1>6
<1>8. b <= u
  BY <1>1, <1>5, <1>7, MulCancel
<1>9. b = BurnWeight(cfg)
  BY <1>0, <1>4 DEF BurnWeight
<1> QED BY <1>0, <1>1, <1>5, <1>8, <1>9 DEF Rest

LEMMA PoolBounds ==
  ASSUME NEW cfg \in Configs, NEW c \in Categories
  PROVE  /\ Pool(cfg, c) \in Nat
         /\ Full * Pool(cfg, c) <= Rest(cfg) * cfg.share[c]
         /\ Rest(cfg) * cfg.share[c] <= Full * Pool(cfg, c) + Full
         /\ Rest(cfg) * cfg.share[c] \in Nat
<1>1. Rest(cfg) \in Nat /\ cfg.share[c] \in Nat /\ Full \in Nat \ {0}
  BY BurnFits, ConfigFacts, AllocationAssumption
<1>2. Rest(cfg) * cfg.share[c] \in Nat
  BY <1>1, MulNat
<1>0. PICK a : a = Rest(cfg) * cfg.share[c]
  OBVIOUS
<1>3. a \div Full \in Nat /\ Full * (a \div Full) <= a /\ a < Full * (a \div Full) + Full
  BY <1>0, <1>1, <1>2, DivBounds
<1>4. Pool(cfg, c) = a \div Full
  BY <1>0 DEF Pool, Rest
<1>5. Full * (a \div Full) \in Nat
  BY <1>1, <1>3, MulNat
<1> QED BY <1>0, <1>1, <1>2, <1>3, <1>4, <1>5

\* A pool is no larger than what is left, so that nothing in its category is capped.
LEMMA PoolFits ==
  ASSUME NEW cfg \in Configs, Within(cfg), NEW c \in Categories
  PROVE  Pool(cfg, c) <= Rest(cfg) /\ Pool(cfg, c) <= U16Max
<1>0. PICK r, f, k : r = Rest(cfg) /\ f = cfg.share[c] /\ k = Pool(cfg, c)
  OBVIOUS
<1>1. r \in Nat /\ f \in Nat /\ f <= Full /\ Full \in Nat \ {0} /\ k \in Nat
  BY <1>0, BurnFits, ConfigFacts, PoolBounds, AllocationAssumption DEF Within
<1>2. Full * k <= r * f
  BY <1>0, PoolBounds
<1>3. r * f <= r * Full /\ r * Full = Full * r
  BY <1>1, MulMono, MulAdd
<1>4. Full * k \in Nat /\ r * f \in Nat /\ Full * r \in Nat
  BY <1>1, MulNat
<1>5. Full * k <= Full * r
  BY <1>2, <1>3, <1>4
<1>6. k <= r
  BY <1>1, <1>5, MulCancel
<1>7. BurnWeight(cfg) \in Nat /\ U16Max = BurnWeight(cfg) + r
  BY <1>0, BurnFits
<1> QED BY <1>0, <1>1, <1>6, <1>7

\* What the shares leave out, rounded up.
LEMMA UnassignedBounds ==
  ASSUME NEW cfg \in Configs, Within(cfg)
  PROVE  /\ Unassigned(cfg) \in Nat
         /\ Rest(cfg) * (Full - SumFunctionOnSet(cfg.share, Categories)) <= Full * Unassigned(cfg)
<1>0. PICK u, r, d, a, q :
        /\ u = U16Max /\ r = Rest(cfg) /\ d = Full - SumFunctionOnSet(cfg.share, Categories)
        /\ a = u * d + Full - 1 /\ q = a \div Full
  OBVIOUS
<1>1. Full \in Nat \ {0} /\ r \in Nat /\ u \in Nat /\ r <= u /\ d \in Nat
  <2>1. r \in Nat /\ u \in Nat /\ r <= u /\ Full \in Nat \ {0}
    BY <1>0, BurnFits, ConfigFacts, AllocationAssumption
  <2>2. SumFunctionOnSet(cfg.share, Categories) \in Nat /\ SumFunctionOnSet(cfg.share, Categories) <= Full
    BY ConfigFacts DEF Within
  <2> QED BY <1>0, <2>1, <2>2
<1>2. u * d \in Nat /\ r * d \in Nat /\ r * d <= u * d
  <2>1. d * r <= d * u /\ d * r = r * d /\ d * u = u * d
    BY <1>1, MulMono, MulAdd
  <2> QED BY <1>1, <2>1, MulNat
<1>3. a \in Nat
  BY <1>0, <1>1, <1>2
<1>4. q \in Nat /\ a < Full * q + Full
  BY <1>0, <1>1, <1>3, DivBounds
<1>5. Full * q \in Nat
  BY <1>1, <1>4, MulNat
<1>6. r * d <= Full * q
  BY <1>0, <1>1, <1>2, <1>4, <1>5
<1>7. Unassigned(cfg) = q
  BY <1>0, ConfigFacts DEF Unassigned
<1> QED BY <1>0, <1>4, <1>6, <1>7

\* The pools take what is left of the total but for what the shares leave out and less than
\* a unit per category.
LEMMA PoolsSum ==
  ASSUME NEW cfg \in Configs, Within(cfg), NEW P, \A c \in Categories : P[c] = Pool(cfg, c)
  PROVE  /\ SumFunctionOnSet(P, Categories) <= Rest(cfg)
         /\ Rest(cfg) <= SumFunctionOnSet(P, Categories) + Cardinality(Categories) + Unassigned(cfg)
<1>0. PICK s, r, n, g, w :
        /\ s = SumFunctionOnSet(P, Categories) /\ r = Rest(cfg) /\ n = Cardinality(Categories)
        /\ g = SumFunctionOnSet(cfg.share, Categories) /\ w = Unassigned(cfg)
  OBVIOUS
<1>1. /\ IsFiniteSet(Categories) /\ Full \in Nat \ {0} /\ r \in Nat /\ n \in Nat /\ g \in Nat /\ w \in Nat
      /\ \A c \in Categories : cfg.share[c] \in Nat
      /\ g <= Full
  BY <1>0, AllocationAssumption, BurnFits, ConfigFacts, UnassignedBounds, FS_CardinalityType DEF Within
<1>2. PICK low, mid, high, one :
        /\ low = [c \in Categories |-> Full * P[c]]
        /\ mid = [c \in Categories |-> r * cfg.share[c]]
        /\ high = [c \in Categories |-> Full * P[c] + Full]
        /\ one = [c \in Categories |-> Full]
  OBVIOUS
<1>3. ASSUME NEW c \in Categories
      PROVE  /\ P[c] \in Nat /\ low[c] \in Int /\ mid[c] \in Int /\ high[c] \in Int /\ one[c] \in Int
             /\ low[c] <= mid[c] /\ mid[c] <= high[c]
             /\ low[c] = Full * P[c] /\ mid[c] = r * cfg.share[c] /\ high[c] = low[c] + one[c] /\ one[c] = Full
  <2>1. P[c] \in Nat /\ Full * P[c] \in Nat
    BY <1>1, PoolBounds, MulNat
  <2>2. /\ low[c] = Full * P[c] /\ mid[c] = r * cfg.share[c]
        /\ high[c] = Full * P[c] + Full /\ one[c] = Full
    BY <1>2
  <2>3. /\ Full * P[c] <= r * cfg.share[c] /\ r * cfg.share[c] <= Full * P[c] + Full
        /\ r * cfg.share[c] \in Nat
    BY <1>0, PoolBounds
  <2> QED BY <1>1, <2>1, <2>2, <2>3
<1>4. s \in Int
  BY <1>0, <1>1, <1>3, SumInt
<1>5. SumFunctionOnSet(low, Categories) = Full * s
  BY <1>0, <1>1, <1>3, SumScale
<1>6. SumFunctionOnSet(mid, Categories) = r * g
  <2>0. PICK share : share = cfg.share
    OBVIOUS
  <2>1. \A c \in Categories : share[c] \in Int /\ mid[c] = r * share[c]
    BY <1>1, <1>3, <2>0
  <2>2. SumFunctionOnSet(mid, Categories) = r * SumFunctionOnSet(share, Categories)
    BY <1>1, <2>1, SumScale
  <2> QED BY <1>0, <2>0, <2>2
<1>7. SumFunctionOnSet(one, Categories) = Full * n
  BY <1>0, <1>1, <1>3, SumConst
<1>8. SumFunctionOnSet(high, Categories) = SumFunctionOnSet(low, Categories) + SumFunctionOnSet(one, Categories)
  BY <1>1, <1>3, SumAdd
<1>9. SumFunctionOnSet(low, Categories) <= SumFunctionOnSet(mid, Categories)
  BY <1>1, <1>3, SumMono
<1>10. SumFunctionOnSet(mid, Categories) <= SumFunctionOnSet(high, Categories)
  BY <1>1, <1>3, SumMono
<1>11. Full * s <= r * g /\ r * g <= Full * s + Full * n
  BY <1>5, <1>6, <1>7, <1>8, <1>9, <1>10
<1>12. r * (Full - g) <= Full * w
  BY <1>0, UnassignedBounds
<1>13. /\ r * (Full - g) = r * Full - r * g /\ r * Full = Full * r /\ r * g <= r * Full
       /\ Full * ((s + n) + w) = Full * (s + n) + Full * w /\ Full * (s + n) = Full * s + Full * n
       /\ r * g \in Int /\ Full * r \in Int /\ Full * s \in Int /\ Full * n \in Int /\ Full * w \in Int
  <2>1. r * g <= r * Full
    BY <1>1, MulMono
  <2> QED BY <1>1, <1>4, <2>1, MulAdd
<1>14. Full * s <= Full * r
  BY <1>11, <1>13
<1>15. Full * r <= Full * ((s + n) + w)
  BY <1>11, <1>12, <1>13
<1>16. s <= r /\ r <= (s + n) + w
  BY <1>1, <1>4, <1>14, <1>15, MulCancel
<1> QED BY <1>0, <1>16

-----------------------------------------------------------------------------
(* The parts of a category.                                                *)

\* A listed miner has a score.
LEMMA ListedFacts ==
  ASSUME NEW l \in Listings, NEW c \in Categories
  PROVE  /\ Listed(l, c) \subseteq Miners /\ IsFiniteSet(Listed(l, c))
         /\ Cardinality(Listed(l, c)) \in Nat
         /\ Listed(l, c) # {} => Cardinality(Listed(l, c)) > 0
         /\ \A m \in Listed(l, c) : l[c][m] \in Nat
         /\ \A m \in Miners \ Listed(l, c) : l[c][m] = NotListed
         /\ TotalScore(l, c) \in Nat
<1>1. Listed(l, c) \subseteq Miners /\ IsFiniteSet(Listed(l, c))
  BY AllocationAssumption, FS_Subset DEF Listed
<1>2. \A m \in Listed(l, c) : l[c][m] \in Nat
  BY AllocationAssumption DEF Listed, Listings, NotListed
<1>3. \A m \in Miners \ Listed(l, c) : l[c][m] = NotListed
  BY DEF Listed
<1>4. TotalScore(l, c) \in Nat
  BY <1>1, <1>2, SumBound DEF TotalScore
<1>5. Cardinality(Listed(l, c)) \in Nat /\ (Listed(l, c) # {} => Cardinality(Listed(l, c)) # 0)
  BY <1>1, FS_CardinalityType, FS_EmptySet
<1> QED BY <1>1, <1>2, <1>3, <1>4, <1>5

LEMMA PartBounds ==
  ASSUME NEW cfg \in Configs, NEW l \in Listings, NEW c \in Categories,
         NEW m \in Listed(l, c), TotalScore(l, c) # 0
  PROVE  /\ Part(cfg, l, c, m) \in Nat
         /\ Pool(cfg, c) * l[c][m] \in Nat
         /\ TotalScore(l, c) * Part(cfg, l, c, m) \in Nat
         /\ TotalScore(l, c) * Part(cfg, l, c, m) <= Pool(cfg, c) * l[c][m]
         /\ Within(cfg) =>
              Pool(cfg, c) * l[c][m] < TotalScore(l, c) * Part(cfg, l, c, m) + TotalScore(l, c)
<1>0. PICK a, t, q, p, w, k :
        /\ p = Pool(cfg, c) /\ w = l[c][m] /\ a = p * w /\ t = TotalScore(l, c)
        /\ q = a \div t /\ k = Part(cfg, l, c, m)
  OBVIOUS
<1>1. p \in Nat /\ w \in Nat /\ a \in Nat /\ t \in Nat \ {0}
  <2>1. Pool(cfg, c) \in Nat /\ l[c][m] \in Nat /\ TotalScore(l, c) \in Nat
    BY PoolBounds, ListedFacts
  <2> QED BY <1>0, <2>1, MulNat
<1>2. q \in Nat /\ t * q <= a /\ a < t * q + t
  BY <1>0, <1>1, DivBounds
<1>3. k = (IF q > U16Max THEN U16Max ELSE q) /\ U16Max \in Nat
  BY <1>0, ConfigFacts DEF Part, Capped
<1>4. k \in Nat /\ k <= q
  BY <1>2, <1>3
<1>5. t * k \in Nat /\ t * q \in Nat /\ t * k <= t * q
  BY <1>1, <1>2, <1>4, MulNat, MulMono
<1>6. ASSUME Within(cfg) PROVE k = q
  <2>1. w <= t
    <3>1. IsFiniteSet(Listed(l, c)) /\ \A x \in Listed(l, c) : l[c][x] \in Nat
      BY ListedFacts
    <3>2. PICK f : f = l[c]
      OBVIOUS
    <3>3. f[m] <= SumFunctionOnSet(f, Listed(l, c))
      BY <3>1, <3>2, SumBound
    <3> QED BY <1>0, <3>2, <3>3 DEF TotalScore
  <2>2. p * w <= p * t /\ p * t = t * p /\ t * p \in Int
    BY <1>1, <2>1, MulMono, MulAdd
  <2>3. t * q <= t * p
    BY <1>0, <1>1, <1>2, <1>5, <2>2
  <2>4. q <= p
    BY <1>1, <1>2, <2>3, MulCancel
  <2>5. p <= U16Max
    BY <1>0, <1>6, PoolFits
  <2> QED BY <1>1, <1>2, <1>3, <2>4, <2>5
<1>7. Within(cfg) => a < t * k + t
  BY <1>2, <1>6
<1>8. t * k <= a
  BY <1>1, <1>2, <1>5
<1> QED BY <1>0, <1>1, <1>4, <1>5, <1>7, <1>8

\* The parts before the last never take more than the pool, capped or not.
LEMMA LeftOverNat ==
  ASSUME NEW cfg \in Configs, NEW l \in Listings, NEW c \in Categories,
         NEW e \in Listed(l, c), TotalScore(l, c) # 0
  PROVE  LeftOver(cfg, l, c, e) \in Nat
<1>0. PICK L, f, t, p, w :
        /\ L = Listed(l, c) /\ f = [x \in L |-> Part(cfg, l, c, x)]
        /\ t = TotalScore(l, c) /\ p = Pool(cfg, c) /\ w = l[c]
  OBVIOUS
<1>1. PICK sum, rest : sum = SumFunctionOnSet(f, L \ {e}) /\ rest = SumFunctionOnSet(w, L \ {e})
  OBVIOUS
<1>2. PICK low, mid : low = [x \in L |-> t * f[x]] /\ mid = [x \in L |-> p * w[x]]
  OBVIOUS
<1>3. /\ e \in L /\ IsFiniteSet(L) /\ t \in Nat \ {0} /\ p \in Nat
      /\ \A x \in L : w[x] \in Nat
      /\ t = SumFunctionOnSet(w, L)
  BY <1>0, ListedFacts, PoolBounds DEF TotalScore
<1>4. IsFiniteSet(L \ {e})
  BY <1>3, FS_Subset
<1>5. ASSUME NEW x \in L
      PROVE  /\ f[x] \in Int /\ low[x] \in Int /\ mid[x] \in Int
             /\ low[x] <= mid[x] /\ low[x] = t * f[x] /\ mid[x] = p * w[x]
  <2>1. f[x] = Part(cfg, l, c, x)
    BY <1>0
  <2>2. f[x] \in Nat /\ p * w[x] \in Nat /\ t * f[x] \in Nat /\ t * f[x] <= p * w[x]
    BY <1>0, <2>1, PartBounds
  <2>3. low[x] = t * f[x] /\ mid[x] = p * w[x]
    BY <1>2
  <2> QED BY <2>2, <2>3
<1>6. sum \in Int /\ SumFunctionOnSet(low, L \ {e}) = t * sum
  BY <1>1, <1>3, <1>4, <1>5, SumInt, SumScale
<1>7. \A x \in L : w[x] \in Int
  BY <1>3
<1>8. rest \in Int /\ t = w[e] + rest
  <2>1. SumFunctionOnSet(w, L) = w[e] + SumFunctionOnSet(w, L \ {e})
    BY <1>3, <1>7, SumSplit
  <2>2. SumFunctionOnSet(w, L \ {e}) \in Int
    BY <1>4, <1>7, SumInt
  <2> QED BY <1>1, <1>3, <2>1, <2>2
<1>9. SumFunctionOnSet(mid, L \ {e}) = p * rest
  <2>1. \A x \in L \ {e} : w[x] \in Int /\ mid[x] = p * w[x]
    BY <1>5, <1>7
  <2>2. p \in Int
    BY <1>3
  <2>3. SumFunctionOnSet(mid, L \ {e}) = p * SumFunctionOnSet(w, L \ {e})
    BY <1>4, <2>1, <2>2, SumScale
  <2> QED BY <1>1, <2>3
<1>10. SumFunctionOnSet(low, L \ {e}) <= SumFunctionOnSet(mid, L \ {e})
  BY <1>4, <1>5, SumMono
<1>11. p * rest <= p * t /\ p * t = t * p /\ t * p \in Int /\ p * rest \in Int /\ t * sum \in Int
  <2>1. rest <= t
    BY <1>3, <1>8
  <2> QED BY <1>3, <1>6, <1>8, <2>1, MulMono, MulAdd
<1>12. t * sum <= t * p
  BY <1>6, <1>9, <1>10, <1>11
<1>13. sum <= p
  BY <1>3, <1>6, <1>12, MulCancel
<1>14. LeftOver(cfg, l, c, e) = p - sum
  BY <1>0, <1>1 DEF LeftOver
<1> QED BY <1>3, <1>6, <1>13, <1>14

\* What the last miner of a category gets: its own part, and less than a unit for every
\* miner of the category besides.
LEMMA LastBounds ==
  ASSUME NEW cfg \in Configs, Within(cfg), NEW l \in Listings, NEW c \in Categories,
         NEW e \in Listed(l, c), TotalScore(l, c) # 0
  PROVE  /\ LastPart(cfg, l, c, e) \in Nat
         /\ LastPart(cfg, l, c, e) = LeftOver(cfg, l, c, e)
         /\ Part(cfg, l, c, e) <= LastPart(cfg, l, c, e)
         /\ LastPart(cfg, l, c, e) <= Part(cfg, l, c, e) + Cardinality(Listed(l, c))
<1>0. PICK L, f, t, p, n, q :
        /\ L = Listed(l, c) /\ f = [x \in L |-> Part(cfg, l, c, x)]
        /\ t = TotalScore(l, c) /\ p = Pool(cfg, c) /\ n = Cardinality(L) /\ q = Part(cfg, l, c, e)
  OBVIOUS
<1>1. PICK sum : sum = SumFunctionOnSet(f, L \ {e})
  OBVIOUS
<1>2. PICK low, mid, high, one, w :
        /\ w = l[c]
        /\ low = [x \in L |-> t * f[x]] /\ mid = [x \in L |-> p * w[x]]
        /\ high = [x \in L |-> t * f[x] + t] /\ one = [x \in L |-> t]
  OBVIOUS
<1>3. /\ e \in L /\ IsFiniteSet(L) /\ IsFiniteSet(L \ {e}) /\ n \in Nat
      /\ t \in Nat \ {0} /\ p \in Nat /\ q \in Nat
      /\ \A x \in L : w[x] \in Nat
      /\ t = SumFunctionOnSet(w, L)
  <2>1. /\ IsFiniteSet(L) /\ n \in Nat /\ t \in Nat \ {0} /\ p \in Nat
        /\ \A x \in L : w[x] \in Nat
    BY <1>0, <1>2, ListedFacts, PoolBounds
  <2>2. q \in Nat
    BY <1>0, PartBounds
  <2>3. IsFiniteSet(L \ {e})
    BY <2>1, FS_Subset
  <2> QED BY <1>0, <1>2, <2>1, <2>2, <2>3 DEF TotalScore
<1>4. ASSUME NEW x \in L
      PROVE  /\ f[x] \in Nat /\ low[x] \in Int /\ mid[x] \in Int /\ high[x] \in Int /\ one[x] \in Int
             /\ low[x] <= mid[x] /\ mid[x] <= high[x]
             /\ low[x] = t * f[x] /\ mid[x] = p * w[x] /\ high[x] = low[x] + one[x] /\ one[x] = t
  <2>1. f[x] = Part(cfg, l, c, x)
    BY <1>0
  <2>2. /\ f[x] \in Nat /\ p * w[x] \in Nat /\ t * f[x] \in Nat
        /\ t * f[x] <= p * w[x] /\ p * w[x] < t * f[x] + t
    BY <1>0, <1>2, <2>1, PartBounds
  <2>3. low[x] = t * f[x] /\ mid[x] = p * w[x] /\ high[x] = t * f[x] + t /\ one[x] = t
    BY <1>2
  <2> QED BY <1>3, <2>2, <2>3
<1>5. sum \in Int
  BY <1>1, <1>3, <1>4, SumInt
<1>6. SumFunctionOnSet(low, L \ {e}) = t * sum
  BY <1>1, <1>3, <1>4, SumScale
<1>7. PICK rest : rest = SumFunctionOnSet(w, L \ {e})
  OBVIOUS
<1>8. rest \in Int /\ t = w[e] + rest
  <2>1. \A x \in L : w[x] \in Int
    BY <1>3
  <2>2. SumFunctionOnSet(w, L) = w[e] + SumFunctionOnSet(w, L \ {e})
    BY <1>3, <2>1, SumSplit
  <2>3. SumFunctionOnSet(w, L \ {e}) \in Int
    BY <1>3, <2>1, SumInt
  <2> QED BY <1>3, <1>7, <2>2, <2>3
<1>9. SumFunctionOnSet(mid, L \ {e}) = p * rest
  <2>1. \A x \in L \ {e} : w[x] \in Int /\ mid[x] = p * w[x]
    BY <1>3, <1>4
  <2> QED BY <1>3, <1>7, <2>1, SumScale
<1>10. SumFunctionOnSet(one, L \ {e}) = t * (n - 1)
  <2>1. Cardinality(L \ {e}) = n - 1
    BY <1>0, <1>3, FS_RemoveElement
  <2>2. SumFunctionOnSet(one, L \ {e}) = t * Cardinality(L \ {e})
    BY <1>3, <1>4, SumConst
  <2> QED BY <2>1, <2>2
<1>11. SumFunctionOnSet(high, L \ {e}) = SumFunctionOnSet(low, L \ {e}) + SumFunctionOnSet(one, L \ {e})
  BY <1>3, <1>4, SumAdd
<1>12. /\ SumFunctionOnSet(low, L \ {e}) <= SumFunctionOnSet(mid, L \ {e})
       /\ SumFunctionOnSet(mid, L \ {e}) <= SumFunctionOnSet(high, L \ {e})
  BY <1>3, <1>4, SumMono
<1>13. t * sum <= p * rest /\ p * rest <= t * sum + t * (n - 1)
  BY <1>6, <1>9, <1>10, <1>11, <1>12
<1>14. f[e] = q /\ t * q <= p * w[e] /\ p * w[e] < t * q + t
  <2>1. f[e] = q
    BY <1>0, <1>3
  <2> QED BY <1>0, <1>2, <2>1, PartBounds
<1>15. PICK k : k = p - sum
  OBVIOUS
<1>16. k \in Int
  BY <1>3, <1>5, <1>15
<1>17. p * t = p * w[e] + p * rest
  <2>1. p \in Int /\ w[e] \in Int /\ rest \in Int /\ t = w[e] + rest
    BY <1>3, <1>8
  <2>2. p * (w[e] + rest) = p * w[e] + p * rest
    BY <2>1, MulAdd
  <2> QED BY <2>1, <2>2
<1>18. /\ t * k = t * p - t * sum /\ t * p = p * t
       /\ t * (q + n) = t * q + t * n /\ t * (n - 1) = t * n - t
       /\ t * q \in Int /\ t * n \in Int /\ t * sum \in Int /\ p * t \in Int /\ p * rest \in Int /\ p * w[e] \in Int
  <2>1. t \in Int /\ p \in Int /\ q \in Int /\ n \in Int /\ 1 \in Int /\ t * 1 = t /\ w[e] \in Int
    BY <1>3, MulAdd
  <2> QED BY <1>5, <1>8, <1>15, <2>1, MulAdd
<1>19. t * q <= t * k /\ t * k <= t * (q + n)
  BY <1>3, <1>13, <1>14, <1>17, <1>18
<1>20. q <= k /\ k <= q + n
  BY <1>3, <1>16, <1>19, MulCancel
<1>21. LeftOver(cfg, l, c, e) = k
  BY <1>0, <1>1, <1>15 DEF LeftOver
<1>22. k <= p
  <2>1. \A x \in L \ {e} : f[x] \in Nat
    BY <1>4
  <2>2. sum \in Nat
    BY <1>1, <1>3, <2>1, SumBound
  <2> QED BY <1>3, <1>15, <2>2
<1>23. LastPart(cfg, l, c, e) = k
  <2>1. p <= U16Max /\ U16Max \in Nat
    BY <1>0, PoolFits, ConfigFacts
  <2>2. ~(k > U16Max)
    BY <1>3, <1>16, <1>22, <2>1
  <2> QED BY <1>21, <2>2 DEF LastPart, Capped
<1> QED BY <1>0, <1>3, <1>16, <1>20, <1>21, <1>23

-----------------------------------------------------------------------------
(* A category.                                                             *)

LEMMA EqualBounds ==
  ASSUME NEW cfg \in Configs, Within(cfg), NEW l \in Listings, NEW c \in Categories, Listed(l, c) # {}
  PROVE  /\ EqualPart(cfg, l, c) \in Nat
         /\ Cardinality(Listed(l, c)) * EqualPart(cfg, l, c) <= Pool(cfg, c)
         /\ Pool(cfg, c) <= Cardinality(Listed(l, c)) * EqualPart(cfg, l, c) + Cardinality(Listed(l, c))
<1>0. PICK a, n : a = Pool(cfg, c) /\ n = Cardinality(Listed(l, c))
  OBVIOUS
<1>1. a \in Nat /\ n \in Nat \ {0}
  <2>1. Cardinality(Listed(l, c)) \in Nat /\ Cardinality(Listed(l, c)) > 0
    BY ListedFacts
  <2> QED BY <1>0, <2>1, PoolBounds
<1>2. a \div n \in Nat /\ n * (a \div n) <= a /\ a < n * (a \div n) + n
  BY <1>1, DivBounds
<1>3. EqualPart(cfg, l, c) = a \div n
  <2>0. PICK q : q = a \div n
    OBVIOUS
  <2>1. q \in Nat /\ n * q <= a
    BY <1>2, <2>0
  <2>2. q * 1 <= q * n /\ q * 1 = q /\ q * n = n * q /\ n * q \in Int
    BY <1>1, <2>1, MulMono, MulAdd
  <2>3. a <= U16Max
    BY <1>0, PoolFits
  <2>4. q <= 65535
    BY <1>1, <2>1, <2>2, <2>3 DEF U16Max
  <2>5. q % 65536 = q
    BY <2>1, <2>4
  <2>6. EqualPart(cfg, l, c) = q % 65536
    BY <1>0, <2>0 DEF EqualPart, U16Max
  <2> QED BY <2>0, <2>5, <2>6
<1>4. n * (a \div n) \in Nat
  BY <1>1, <1>2, MulNat
<1> QED BY <1>0, <1>1, <1>2, <1>3, <1>4

\* The last miner of a category is one of the category.
LEMMA EndListed ==
  ASSUME NEW l \in Listings, NEW end \in Lasts(l), NEW c \in Categories, Listed(l, c) # {}
  PROVE  end[c] \in Listed(l, c)
  BY DEF Lasts, MayBeLast

\* What a miner gets of a category: nothing, an equal part, or a part in proportion to
\* which rounding adds at most a unit per miner.
LEMMA WeightCases ==
  ASSUME NEW cfg \in Configs, Within(cfg), NEW l \in Listings, NEW end \in Lasts(l), NEW c \in Categories,
         NEW m \in Miners
  PROVE  /\ CategoryWeight(cfg, l, end, c, m) \in Nat
         /\ m \notin Listed(l, c) \/ ~Served(cfg, l, c) => CategoryWeight(cfg, l, end, c, m) = 0
         /\ m \in Listed(l, c) /\ Served(cfg, l, c) =>
              /\ TotalScore(l, c) = 0 => CategoryWeight(cfg, l, end, c, m) = EqualPart(cfg, l, c)
              /\ TotalScore(l, c) # 0 =>
                   /\ Part(cfg, l, c, m) <= CategoryWeight(cfg, l, end, c, m)
                   /\ CategoryWeight(cfg, l, end, c, m) <= Part(cfg, l, c, m) + Cardinality(Listed(l, c))
                   /\ m = end[c] => CategoryWeight(cfg, l, end, c, m) = LastPart(cfg, l, c, m)
                   /\ m # end[c] => CategoryWeight(cfg, l, end, c, m) = Part(cfg, l, c, m)
<1>0. PICK w : w = CategoryWeight(cfg, l, end, c, m)
  OBVIOUS
<1>1. CASE m \notin Listed(l, c) \/ ~Served(cfg, l, c)
  <2>1. w = 0
    BY <1>0, <1>1, ListedFacts DEF CategoryWeight
  <2> QED BY <1>0, <1>1, <2>1
<1>2. CASE m \in Listed(l, c) /\ Served(cfg, l, c)
  <2>1. l[c][m] # NotListed
    BY <1>2 DEF Listed
  <2>2. CASE TotalScore(l, c) = 0
    <3>1. w = EqualPart(cfg, l, c)
      BY <1>0, <1>2, <2>1, <2>2 DEF CategoryWeight
    <3>2. EqualPart(cfg, l, c) \in Nat
      BY <1>2, EqualBounds
    <3> QED BY <1>0, <1>2, <2>2, <3>1, <3>2
  <2>3. CASE TotalScore(l, c) # 0
    <3>1. Cardinality(Listed(l, c)) \in Nat /\ Part(cfg, l, c, m) \in Nat
      BY <1>2, <2>3, ListedFacts, PartBounds
    <3>2. CASE m = end[c]
      <4>1. w = LastPart(cfg, l, c, m)
        BY <1>0, <1>2, <2>1, <2>3, <3>2 DEF CategoryWeight
      <4>2. /\ LastPart(cfg, l, c, m) \in Nat
            /\ Part(cfg, l, c, m) <= LastPart(cfg, l, c, m)
            /\ LastPart(cfg, l, c, m) <= Part(cfg, l, c, m) + Cardinality(Listed(l, c))
        BY <1>2, <2>3, LastBounds
      <4> QED BY <1>0, <1>2, <2>3, <3>2, <4>1, <4>2
    <3>3. CASE m # end[c]
      <4>1. w = Part(cfg, l, c, m)
        BY <1>0, <1>2, <2>1, <2>3, <3>3 DEF CategoryWeight
      <4> QED BY <1>0, <1>2, <2>3, <3>1, <3>3, <4>1
    <3> QED BY <3>2, <3>3
  <2> QED BY <2>2, <2>3
<1> QED BY <1>1, <1>2

\* The part of a category's pool that is burnt.
Burnt(cfg, l, c) == IF Served(cfg, l, c) THEN 0 ELSE Pool(cfg, c)

\* A pool is given to the miners of its category or burnt, but for less than a unit per
\* miner.
LEMMA CategoryExact ==
  ASSUME NEW cfg \in Configs, Within(cfg), NEW l \in Listings, NEW end \in Lasts(l), NEW c \in Categories,
         NEW W, \A m \in Miners : W[m] = CategoryWeight(cfg, l, end, c, m)
  PROVE  /\ SumFunctionOnSet(W, Miners) \in Nat /\ Burnt(cfg, l, c) \in Nat
         /\ SumFunctionOnSet(W, Miners) + Burnt(cfg, l, c) <= Pool(cfg, c)
         /\ Pool(cfg, c)
              <= SumFunctionOnSet(W, Miners) + Burnt(cfg, l, c) + Cardinality(Listed(l, c))
<1>0. PICK L, s, p, n :
        /\ L = Listed(l, c) /\ s = SumFunctionOnSet(W, Miners)
        /\ p = Pool(cfg, c) /\ n = Cardinality(L)
  OBVIOUS
<1>1. /\ IsFiniteSet(Miners) /\ L \subseteq Miners /\ IsFiniteSet(L) /\ n \in Nat /\ p \in Nat
      /\ \A m \in Miners : W[m] \in Nat /\ W[m] \in Int
      /\ \A m \in L : W[m] \in Nat /\ W[m] \in Int
  <2>1. \A m \in Miners : W[m] \in Nat
    BY WeightCases
  <2> QED BY <1>0, <2>1, AllocationAssumption, ListedFacts, PoolBounds
<1>2. s \in Nat
  BY <1>0, <1>1, SumBound
<1>3. CASE ~Served(cfg, l, c)
  <2>1. \A m \in Miners : W[m] = 0
    BY <1>3, WeightCases
  <2>2. s = 0
    BY <1>0, <1>1, <2>1, SumZero
  <2> QED BY <1>0, <1>1, <1>3, <2>2 DEF Burnt
<1>4. CASE Served(cfg, l, c)
  <2>1. L # {}
    BY <1>0, <1>4 DEF Served
  <2>2. s = SumFunctionOnSet(W, L)
    <3>1. s = SumFunctionOnSet(W, L) + SumFunctionOnSet(W, Miners \ L)
      BY <1>0, <1>1, SumPart
    <3>2. \A m \in Miners \ L : W[m] = 0
      BY <1>0, WeightCases
    <3>3. IsFiniteSet(Miners \ L)
      BY <1>1, FS_Subset
    <3>4. SumFunctionOnSet(W, Miners \ L) = 0
      BY <3>2, <3>3, SumZero
    <3>5. SumFunctionOnSet(W, L) \in Int
      BY <1>1, SumInt
    <3> QED BY <3>1, <3>4, <3>5
  <2>3. s <= p /\ p <= s + n
    <3>1. CASE TotalScore(l, c) = 0
      <4>0. PICK e : e = EqualPart(cfg, l, c)
        OBVIOUS
      <4>1. \A m \in L : W[m] = e
        BY <1>0, <1>1, <1>4, <3>1, <4>0, WeightCases
      <4>2. e \in Nat /\ n * e <= p /\ p <= n * e + n
        BY <1>0, <2>1, <4>0, EqualBounds
      <4>3. SumFunctionOnSet(W, L) = e * Cardinality(L)
        <5>1. IsFiniteSet(L) /\ e \in Int
          BY <1>1, <4>2
        <5> QED BY <4>1, <5>1, SumConst
      <4>4. s = n * e
        BY <1>0, <1>1, <2>2, <4>2, <4>3, MulAdd
      <4> QED BY <4>2, <4>4
    <3>2. CASE TotalScore(l, c) # 0
      <4>0. PICK e, f : e = end[c] /\ f = [x \in L |-> Part(cfg, l, c, x)]
        OBVIOUS
      <4>1. e \in L
        BY <1>0, <2>1, <4>0, EndListed
      <4>2. W[e] = LastPart(cfg, l, c, e) /\ \A m \in L \ {e} : W[m] = f[m] /\ f[m] \in Int
        BY <1>0, <1>1, <1>4, <3>2, <4>0, <4>1, WeightCases, PartBounds
      <4>3. IsFiniteSet(L \ {e})
        BY <1>1, FS_Subset
      <4>4. SumFunctionOnSet(W, L \ {e}) = SumFunctionOnSet(f, L \ {e})
        BY <4>2, <4>3, SumAgree
      <4>5. SumFunctionOnSet(f, L \ {e}) \in Int
        BY <4>2, <4>3, SumInt
      <4>6. W[e] = p - SumFunctionOnSet(f, L \ {e})
        BY <1>0, <3>2, <4>0, <4>1, <4>2, LastBounds DEF LeftOver
      <4>7. SumFunctionOnSet(W, L) = W[e] + SumFunctionOnSet(W, L \ {e})
        BY <1>1, <4>1, SumSplit
      <4>8. s = p
        BY <1>1, <2>2, <4>4, <4>5, <4>6, <4>7
      <4> QED BY <1>1, <4>8
    <3> QED BY <3>1, <3>2
  <2> QED BY <1>0, <1>1, <1>2, <1>4, <2>3 DEF Burnt
<1> QED BY <1>3, <1>4

\* In one category, a miner with at least the score of another gets at least as much, up to
\* a unit and one per miner of the category.
LEMMA CategoryFair ==
  ASSUME NEW cfg \in Configs, Within(cfg), NEW l \in Listings, NEW end \in Lasts(l), NEW c \in Categories,
         NEW x \in Miners, NEW y \in Miners, l[c][x] >= l[c][y]
  PROVE  CategoryWeight(cfg, l, end, c, y)
           <= CategoryWeight(cfg, l, end, c, x) + (1 + Cardinality(Listed(l, c)))
<1>0. PICK a, b, n, t, p, qx, qy :
        /\ a = CategoryWeight(cfg, l, end, c, x) /\ b = CategoryWeight(cfg, l, end, c, y)
        /\ n = Cardinality(Listed(l, c)) /\ t = TotalScore(l, c) /\ p = Pool(cfg, c)
        /\ qx = Part(cfg, l, c, x) /\ qy = Part(cfg, l, c, y)
  OBVIOUS
<1>1. a \in Nat /\ b \in Nat /\ n \in Nat /\ t \in Nat /\ p \in Nat
  BY <1>0, WeightCases, ListedFacts, PoolBounds
<1>2. CASE y \notin Listed(l, c) \/ ~Served(cfg, l, c)
  <2>1. b = 0
    BY <1>0, <1>2, WeightCases
  <2> QED BY <1>0, <1>1, <2>1
<1>3. CASE y \in Listed(l, c) /\ Served(cfg, l, c)
  <2>1. l[c][y] \in Nat
    BY <1>3, ListedFacts
  <2>2. x \in Listed(l, c)
    BY <2>1, ListedFacts DEF NotListed
  <2>3. l[c][x] \in Nat
    BY <2>2, ListedFacts
  <2>4. CASE t = 0
    <3>1. a = b
      BY <1>0, <1>3, <2>2, <2>4, WeightCases
    <3> QED BY <1>0, <1>1, <3>1
  <2>5. CASE t # 0
    <3>1. qx <= a /\ b <= qy + n
      BY <1>0, <1>3, <2>2, <2>5, WeightCases
    <3>2. /\ qx \in Nat /\ qy \in Nat /\ t * qx \in Nat /\ t * qy \in Nat
          /\ p * l[c][x] \in Nat /\ p * l[c][y] \in Nat
          /\ t * qy <= p * l[c][y] /\ p * l[c][x] < t * qx + t
      BY <1>0, <1>3, <2>2, <2>5, PartBounds
    <3>3. p * l[c][y] <= p * l[c][x]
      BY <1>1, <2>1, <2>3, MulMono
    <3>4. t * qy < t * (qx + 1)
      BY <1>1, <3>2, <3>3, MulAdd
    <3>5. qy < qx + 1
      BY <1>1, <2>5, <3>2, <3>4, MulCancel
    <3> QED BY <1>0, <1>1, <3>1, <3>2, <3>5
  <2> QED BY <2>4, <2>5
<1> QED BY <1>2, <1>3

-----------------------------------------------------------------------------
(* The distribution.                                                       *)

LEMMA SlackSum ==
  ASSUME NEW l \in Listings, NEW N, \A c \in Categories : N[c] = Cardinality(Listed(l, c))
  PROVE  /\ SumFunctionOnSet(N, Categories) \in Nat /\ Cardinality(Categories) \in Nat
         /\ Slack(l) = Cardinality(Categories) + SumFunctionOnSet(N, Categories)
<1>0. PICK one, both :
        /\ one = [c \in Categories |-> 1]
        /\ both = [c \in Categories |-> 1 + Cardinality(Listed(l, c))]
  OBVIOUS
<1>1. IsFiniteSet(Categories) /\ Cardinality(Categories) \in Nat
  BY AllocationAssumption, FS_CardinalityType
<1>2. \A c \in Categories : N[c] \in Nat /\ N[c] \in Int /\ one[c] = 1 /\ one[c] \in Int /\ both[c] = one[c] + N[c]
  BY <1>0, ListedFacts
<1>3. SumFunctionOnSet(N, Categories) \in Nat
  BY <1>1, <1>2, SumBound
<1>4. SumFunctionOnSet(one, Categories) = 1 * Cardinality(Categories)
  BY <1>1, <1>2, SumConst
<1>5. SumFunctionOnSet(both, Categories) = SumFunctionOnSet(one, Categories) + SumFunctionOnSet(N, Categories)
  BY <1>1, <1>2, SumAdd
<1>6. Slack(l) = SumFunctionOnSet(both, Categories)
  BY <1>0 DEF Slack, SumFunction
<1> QED BY <1>1, <1>3, <1>4, <1>5, <1>6

\* What the miners get in all, and what is burnt for want of miners, is what the burn share
\* leaves of the total, up to the slack and to what the shares leave out.
LEMMA PoolsExact ==
  ASSUME NEW cfg \in Configs, Within(cfg), NEW l \in Listings, NEW end \in Lasts(l),
         NEW M, \A m \in Miners : M[m] = MinerWeight(cfg, l, end, m)
  PROVE  /\ \A m \in Miners : M[m] \in Nat
         /\ SumFunctionOnSet(M, Miners) \in Nat /\ EmptyCategoryBurn(cfg, l) \in Nat
         /\ SumFunctionOnSet(M, Miners) + EmptyCategoryBurn(cfg, l) <= Rest(cfg)
         /\ Slack(l) \in Nat
         /\ Unassigned(cfg) \in Nat
         /\ Rest(cfg) <= SumFunctionOnSet(M, Miners) + EmptyCategoryBurn(cfg, l) + Slack(l) + Unassigned(cfg)
<1>0. PICK W, R, S, B, P, Q, N, QN :
        /\ W = [m \in Miners |-> [c \in Categories |-> CategoryWeight(cfg, l, end, c, m)]]
        /\ R = [c \in Categories |-> [m \in Miners |-> W[m][c]]]
        /\ S = [c \in Categories |-> SumFunctionOnSet(R[c], Miners)]
        /\ B = [c \in Categories |-> Burnt(cfg, l, c)]
        /\ P = [c \in Categories |-> Pool(cfg, c)]
        /\ Q = [c \in Categories |-> S[c] + B[c]]
        /\ N = [c \in Categories |-> Cardinality(Listed(l, c))]
        /\ QN = [c \in Categories |-> Q[c] + N[c]]
  OBVIOUS
<1>1. IsFiniteSet(Categories) /\ IsFiniteSet(Miners)
  BY AllocationAssumption
<1>2. ASSUME NEW m \in Miners, NEW c \in Categories
      PROVE  W[m][c] = CategoryWeight(cfg, l, end, c, m) /\ W[m][c] \in Nat
  <2>1. W[m][c] = CategoryWeight(cfg, l, end, c, m)
    BY <1>0
  <2> QED BY <2>1, WeightCases
<1>3. ASSUME NEW m \in Miners
      PROVE  M[m] = SumFunctionOnSet(W[m], Categories) /\ M[m] \in Nat
  <2>1. W[m] = [c \in Categories |-> CategoryWeight(cfg, l, end, c, m)]
    BY <1>0
  <2>2. M[m] = SumFunctionOnSet(W[m], Categories)
    BY <2>1 DEF MinerWeight, SumFunction
  <2> QED BY <1>1, <1>2, <2>2, SumBound
<1>4. ASSUME NEW c \in Categories
      PROVE  /\ S[c] \in Nat /\ B[c] \in Nat /\ N[c] \in Nat /\ P[c] \in Nat /\ Q[c] \in Nat /\ QN[c] \in Nat
             /\ Q[c] = S[c] + B[c] /\ QN[c] = Q[c] + N[c]
             /\ Q[c] <= P[c] /\ P[c] <= QN[c]
  <2>0. PICK w : w = [m \in Miners |-> W[m][c]]
    OBVIOUS
  <2>1. R[c] = w /\ S[c] = SumFunctionOnSet(w, Miners)
    <3>1. R[c] = w
      BY <1>0, <2>0
    <3> QED BY <1>0, <3>1
  <2>2. \A m \in Miners : w[m] = CategoryWeight(cfg, l, end, c, m)
    BY <1>2, <2>0
  <2>3. /\ SumFunctionOnSet(w, Miners) \in Nat /\ Burnt(cfg, l, c) \in Nat
        /\ SumFunctionOnSet(w, Miners) + Burnt(cfg, l, c) <= Pool(cfg, c)
        /\ Pool(cfg, c) <= SumFunctionOnSet(w, Miners) + Burnt(cfg, l, c) + Cardinality(Listed(l, c))
    BY <2>2, CategoryExact
  <2>4. /\ B[c] = Burnt(cfg, l, c) /\ P[c] = Pool(cfg, c) /\ N[c] = Cardinality(Listed(l, c))
        /\ Q[c] = S[c] + B[c] /\ QN[c] = Q[c] + N[c]
    BY <1>0
  <2>5. N[c] \in Nat /\ P[c] \in Nat
    BY <2>4, ListedFacts, PoolBounds
  <2> QED BY <2>1, <2>3, <2>4, <2>5
<1>5. SumFunctionOnSet(M, Miners) = SumFunctionOnSet(S, Categories)
  <2>1. \A m \in Miners : \A c \in Categories : W[m][c] \in Int /\ R[c][m] = W[m][c]
    BY <1>0, <1>2
  <2>2. \A c \in Categories : S[c] = SumFunctionOnSet(R[c], Miners)
    BY <1>0
  <2>3. \A m \in Miners : M[m] = SumFunctionOnSet(W[m], Categories)
    BY <1>3
  <2>4. RowsAndColumns(Miners, Categories, W, R, M, S)
    BY <2>1, <2>2, <2>3 DEF RowsAndColumns
  <2> QED BY <1>1, <2>4, SumSwap
<1>6. EmptyCategoryBurn(cfg, l) = SumFunctionOnSet(B, Categories)
  BY <1>0 DEF EmptyCategoryBurn, SumFunction, Burnt
<1>7. /\ SumFunctionOnSet(S, Categories) \in Nat /\ SumFunctionOnSet(B, Categories) \in Nat
      /\ SumFunctionOnSet(Q, Categories) = SumFunctionOnSet(S, Categories) + SumFunctionOnSet(B, Categories)
  <2>1. \A c \in Categories : S[c] \in Int /\ B[c] \in Int /\ Q[c] = S[c] + B[c]
    BY <1>4
  <2>2. SumFunctionOnSet(S, Categories) \in Nat /\ SumFunctionOnSet(B, Categories) \in Nat
    BY <1>1, <1>4, SumBound
  <2> QED BY <1>1, <2>1, <2>2, SumAdd
<1>8. /\ SumFunctionOnSet(N, Categories) \in Nat /\ Cardinality(Categories) \in Nat
      /\ Slack(l) = Cardinality(Categories) + SumFunctionOnSet(N, Categories)
  <2>1. \A c \in Categories : N[c] = Cardinality(Listed(l, c))
    BY <1>0
  <2> QED BY <2>1, SlackSum
<1>9. SumFunctionOnSet(QN, Categories) = SumFunctionOnSet(Q, Categories) + SumFunctionOnSet(N, Categories)
  <2>1. \A c \in Categories : Q[c] \in Int /\ N[c] \in Int /\ QN[c] = Q[c] + N[c]
    BY <1>4
  <2> QED BY <1>1, <2>1, SumAdd
<1>10. SumFunctionOnSet(Q, Categories) <= SumFunctionOnSet(P, Categories)
  <2>1. \A c \in Categories : Q[c] \in Int /\ P[c] \in Int /\ Q[c] <= P[c]
    BY <1>4
  <2> QED BY <1>1, <2>1, SumMono
<1>11. SumFunctionOnSet(P, Categories) <= SumFunctionOnSet(QN, Categories)
  <2>1. \A c \in Categories : P[c] \in Int /\ QN[c] \in Int /\ P[c] <= QN[c]
    BY <1>4
  <2> QED BY <1>1, <2>1, SumMono
<1>12. /\ SumFunctionOnSet(P, Categories) <= Rest(cfg)
       /\ Rest(cfg) <= SumFunctionOnSet(P, Categories) + Cardinality(Categories) + Unassigned(cfg)
  <2>1. \A c \in Categories : P[c] = Pool(cfg, c)
    BY <1>0
  <2> QED BY <2>1, PoolsSum
<1>13. SumFunctionOnSet(P, Categories) \in Nat /\ Rest(cfg) \in Nat /\ Unassigned(cfg) \in Nat
  BY <1>1, <1>4, SumBound, BurnFits, UnassignedBounds
<1> QED BY <1>3, <1>5, <1>6, <1>7, <1>8, <1>9, <1>10, <1>11, <1>12, <1>13

LEMMA TotalFits ==
  ASSUME NEW cfg \in Configs, Within(cfg), NEW l \in Listings, NEW end \in Lasts(l)
  PROVE  SumFunction(Distribution(cfg, l, end)) \in (U16Max - Slack(l) - Unassigned(cfg)) .. U16Max
<1>0. PICK u, b, eb, D, M, burn, wt, D0 :
        /\ u = U16Max /\ b = BurnWeight(cfg) /\ eb = EmptyCategoryBurn(cfg, l)
        /\ D = Distribution(cfg, l, end)
        /\ M = [m \in Miners |-> MinerWeight(cfg, l, end, m)]
        /\ burn = [x \in Uids |-> IF x = BurnUid THEN b + eb ELSE 0]
        /\ wt = [x \in Uids |-> IF x \in Miners THEN M[x] ELSE 0]
        /\ D0 = [x \in Uids |-> burn[x] + wt[x]]
  OBVIOUS
<1>1. PICK sm, r, sl, ua :
        sm = SumFunctionOnSet(M, Miners) /\ r = Rest(cfg) /\ sl = Slack(l) /\ ua = Unassigned(cfg)
  OBVIOUS
<1>2. /\ u \in Nat /\ b \in Nat /\ r \in Nat /\ u = b + r
      /\ IsFiniteSet(Miners) /\ IsFiniteSet(Uids) /\ Miners \subseteq Uids /\ BurnUid \in Uids
  <2>1. IsFiniteSet(Uids)
    BY AllocationAssumption, FS_AddElement DEF Uids
  <2> QED BY <1>0, <1>1, <2>1, AllocationAssumption, ConfigFacts, BurnFits DEF Uids
<1>3. /\ \A m \in Miners : M[m] \in Nat
      /\ sm \in Nat /\ eb \in Nat /\ sl \in Nat /\ ua \in Nat /\ sm + eb <= r /\ r <= sm + eb + sl + ua
  <2>1. \A m \in Miners : M[m] = MinerWeight(cfg, l, end, m)
    BY <1>0
  <2> QED BY <1>0, <1>1, <2>1, PoolsExact
<1>4. ASSUME NEW x \in Uids
      PROVE  /\ burn[x] = IF x = BurnUid THEN b + eb ELSE 0
             /\ wt[x] = IF x \in Miners THEN M[x] ELSE 0
             /\ D0[x] = burn[x] + wt[x]
             /\ burn[x] \in Nat /\ wt[x] \in Nat /\ D0[x] \in Nat
  <2>1. /\ burn[x] = IF x = BurnUid THEN b + eb ELSE 0
        /\ wt[x] = IF x \in Miners THEN M[x] ELSE 0
        /\ D0[x] = burn[x] + wt[x]
    BY <1>0
  <2>2. burn[x] \in Nat /\ wt[x] \in Nat
    BY <1>2, <1>3, <2>1
  <2> QED BY <2>1, <2>2
<1>5. SumFunctionOnSet(burn, Uids) = b + eb
  <2>1. \A x \in Uids : burn[x] \in Int
    BY <1>4
  <2>2. SumFunctionOnSet(burn, Uids) = burn[BurnUid] + SumFunctionOnSet(burn, Uids \ {BurnUid})
    BY <1>2, <2>1, SumSplit
  <2>3. IsFiniteSet(Uids \ {BurnUid}) /\ \A x \in Uids \ {BurnUid} : burn[x] = 0
    BY <1>2, <1>4, FS_Subset
  <2>4. SumFunctionOnSet(burn, Uids \ {BurnUid}) = 0
    BY <2>3, SumZero
  <2> QED BY <1>2, <1>3, <1>4, <2>2, <2>4
<1>6. SumFunctionOnSet(wt, Uids) = sm
  <2>1. \A x \in Uids : wt[x] \in Int
    BY <1>4
  <2>2. SumFunctionOnSet(wt, Uids) = SumFunctionOnSet(wt, Miners) + SumFunctionOnSet(wt, Uids \ Miners)
    BY <1>2, <2>1, SumPart
  <2>3. IsFiniteSet(Uids \ Miners) /\ \A x \in Uids \ Miners : wt[x] = 0
    BY <1>2, <1>4, FS_Subset
  <2>4. SumFunctionOnSet(wt, Uids \ Miners) = 0
    BY <2>3, SumZero
  <2>5. \A x \in Miners : wt[x] = M[x]
    BY <1>2, <1>4
  <2>6. SumFunctionOnSet(wt, Miners) = sm
    BY <1>1, <1>2, <2>5, SumAgree
  <2> QED BY <1>3, <2>2, <2>4, <2>6
<1>7. SumFunctionOnSet(D0, Uids) = b + eb + sm
  <2>1. \A x \in Uids : burn[x] \in Int /\ wt[x] \in Int /\ D0[x] = burn[x] + wt[x]
    BY <1>4
  <2>2. SumFunctionOnSet(D0, Uids) = SumFunctionOnSet(burn, Uids) + SumFunctionOnSet(wt, Uids)
    BY <1>2, <2>1, SumAdd
  <2> QED BY <1>5, <1>6, <2>2
<1>8. \A x \in Uids : D0[x] <= u
  <2>1. \A x \in Uids : D0[x] \in Nat
    BY <1>4
  <2>2. \A x \in Uids : D0[x] <= SumFunctionOnSet(D0, Uids)
    BY <1>2, <2>1, SumBound
  <2> QED BY <1>2, <1>3, <1>7, <2>1, <2>2
<1>9. ASSUME NEW x \in Uids PROVE D[x] = D0[x]
  <2>1. D[x] = Capped((IF x = BurnUid THEN Capped(b + eb) ELSE 0)
                      + (IF x \in Miners THEN MinerWeight(cfg, l, end, x) ELSE 0))
    BY <1>0 DEF Distribution
  <2>2. b + eb \in Nat /\ b + eb <= u
    BY <1>2, <1>3
  <2>3. Capped(b + eb) = b + eb
    BY <1>0, <1>2, <2>2 DEF Capped
  <2>4. D[x] = Capped(D0[x])
    BY <1>0, <1>4, <2>1, <2>3
  <2>5. D0[x] \in Nat /\ D0[x] <= u
    BY <1>4, <1>8
  <2>6. Capped(D0[x]) = D0[x]
    BY <1>0, <1>2, <2>5 DEF Capped
  <2> QED BY <2>4, <2>6
<1>10. SumFunctionOnSet(D, Uids) = b + eb + sm
  BY <1>2, <1>7, <1>9, SumAgree
<1>11. DOMAIN D = Uids
  BY <1>0 DEF Distribution
<1>12. b + eb + sm <= u /\ u - sl - ua <= b + eb + sm /\ b + eb + sm \in Int /\ u - sl - ua \in Int
  BY <1>2, <1>3
<1>13. SumFunction(D) = b + eb + sm
  BY <1>10, <1>11 DEF SumFunction
<1> QED BY <1>0, <1>1, <1>2, <1>12, <1>13

LEMMA ExactAlways ==
  ASSUME NEW cfg \in Configs, NEW l \in Listings, NEW end \in Lasts(l)
  PROVE  IsExact(cfg, l, end)
<1>1. ASSUME NEW c \in Categories, TotalScore(l, c) > 0, Listed(l, c) # {}
      PROVE  LeftOver(cfg, l, c, end[c]) >= 0
  <2>1. end[c] \in Listed(l, c) /\ TotalScore(l, c) # 0
    BY <1>1, EndListed
  <2>2. LeftOver(cfg, l, c, end[c]) \in Nat
    BY <2>1, LeftOverNat
  <2> QED BY <2>2
<1> QED BY <1>1, TotalFits DEF IsExact

LEMMA FairAlways ==
  ASSUME NEW cfg \in Configs, NEW l \in Listings, NEW end \in Lasts(l)
  PROVE  IsFair(cfg, l, end)
<1>1. ASSUME Within(cfg), NEW x \in Miners, NEW y \in Miners, \A c \in Categories : l[c][x] >= l[c][y]
      PROVE  MinerWeight(cfg, l, end, x) + Slack(l) >= MinerWeight(cfg, l, end, y)
  <2>0. PICK a, b, n, an :
          /\ a = [c \in Categories |-> CategoryWeight(cfg, l, end, c, x)]
          /\ b = [c \in Categories |-> CategoryWeight(cfg, l, end, c, y)]
          /\ n = [c \in Categories |-> 1 + Cardinality(Listed(l, c))]
          /\ an = [c \in Categories |-> a[c] + n[c]]
    OBVIOUS
  <2>1. ASSUME NEW c \in Categories
        PROVE  a[c] \in Int /\ b[c] \in Int /\ n[c] \in Int /\ an[c] \in Int /\ an[c] = a[c] + n[c] /\ b[c] <= an[c]
    <3>1. /\ a[c] = CategoryWeight(cfg, l, end, c, x) /\ b[c] = CategoryWeight(cfg, l, end, c, y)
          /\ n[c] = 1 + Cardinality(Listed(l, c)) /\ an[c] = a[c] + n[c]
      BY <2>0
    <3>2. b[c] <= a[c] + n[c]
      BY <1>1, <3>1, CategoryFair
    <3>3. Cardinality(Listed(l, c)) \in Nat /\ a[c] \in Nat /\ b[c] \in Nat
      BY <1>1, <3>1, WeightCases, ListedFacts
    <3> QED BY <3>1, <3>2, <3>3
  <2>2. IsFiniteSet(Categories)
    BY AllocationAssumption
  <2>3. SumFunctionOnSet(b, Categories) <= SumFunctionOnSet(an, Categories)
    BY <2>1, <2>2, SumMono
  <2>4. SumFunctionOnSet(an, Categories) = SumFunctionOnSet(a, Categories) + SumFunctionOnSet(n, Categories)
    BY <2>1, <2>2, SumAdd
  <2>5. /\ SumFunctionOnSet(a, Categories) \in Int /\ SumFunctionOnSet(b, Categories) \in Int
        /\ SumFunctionOnSet(n, Categories) \in Int
    BY <2>1, <2>2, SumInt
  <2>6. /\ MinerWeight(cfg, l, end, x) = SumFunctionOnSet(a, Categories)
        /\ MinerWeight(cfg, l, end, y) = SumFunctionOnSet(b, Categories)
        /\ Slack(l) = SumFunctionOnSet(n, Categories)
    BY <2>0 DEF MinerWeight, Slack, SumFunction
  <2> QED BY <2>3, <2>4, <2>5, <2>6
<1> QED BY <1>1 DEF IsFair

LEMMA AllRoundsExact == ASSUME NEW ms, ms \subseteq Miners PROVE ms \in Exact
<1>1. AllExact(ms)
  BY ExactAlways DEF AllExact, ListingsOf
<1> QED BY <1>1 DEF Exact

LEMMA AllRoundsFair == ASSUME NEW ms, ms \subseteq Miners PROVE ms \in Fair
<1>1. AllFair(ms)
  BY FairAlways DEF AllFair, ListingsOf
<1> QED BY <1>1 DEF Fair

-----------------------------------------------------------------------------

\* For any shares that EmissionConfig::validate accepts, any scores and any order of
\* equal ones: the last miner's part is never below zero, and unless the shares are above
\* one hundred percent the weights of calculate_weight_distribution add up to u16::MAX at
\* most, and to less only by the units that rounding loses and the shares leave out.
THEOREM AllocationsAreExact == Spec => []AllocationExact
<1>1. IInv => AllocationExact
  BY AllRoundsExact DEF IInv, Typed, AllocationExact
<1> QED BY <1>1, Invariance, PTL

\* Unless the shares are above one hundred percent, a miner that scores at least as much as
\* another in every category weighs at least as much, up to the units that rounding leaves
\* to the last of a category.
THEOREM AllocationsAreFair == Spec => []FairUpToRounding
<1>1. IInv => FairUpToRounding
  BY AllRoundsFair DEF IInv, Typed, FairUpToRounding
<1> QED BY <1>1, Invariance, PTL

=============================================================================
