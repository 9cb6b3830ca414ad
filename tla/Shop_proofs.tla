----------------------------- MODULE Shop_proofs -----------------------------
(***************************************************************************)
(* Proofs about what a store works with: its fabric (FabricStock), its     *)
(* appointments (Appointments), the counter (Counter), the workshop        *)
(* tablets (Floor) and what all pages have in common (Screens).  They      *)
(* share no state and each part stands alone; everything holds for every   *)
(* number of rolls, items, requests, customers, tickets, stores, people,   *)
(* ..., and for every bound.                                               *)
(*                                                                         *)
(* Fabric: the type invariant, the row invariants, the movement history,   *)
(* the holds and the margin a cut leaves.  What they rest on is the row    *)
(* locks: a transfer's source stays as it was read, whatever other         *)
(* requests do, until the transfer ends; the destination does not, and     *)
(* that is what staleMerges records.                                       *)
(***************************************************************************)
EXTENDS FabricStock, Appointments, Counter, Floor, Screens,
        FiniteSetTheorems, SequenceTheorems, WellFoundedInduction, TLAPS

\* A roll without a row has no balance.
AbsentEmpty == \A r \in Rolls : ~Exists(r) => currentQuantity[r] = 0

\* A transfer in flight can still take its metres off the source it locked, and
\* what it will write to the destination fits.
TransferValid(t) ==
    /\ Exists(t.src)
    /\ t.src # t.dst
    /\ RowOK(currentQuantity[t.src] - t.quantity, reservedQuantity[t.src])
    /\ MergedBalance(t) <= MaxMetres

TransfersValid == \A w \in Workers : moving[w] # None => TransferValid(moving[w])

\* No two transfers hold the lock of one roll.
LocksExclusive ==
    \A w, x \in Workers :
        moving[w] # None /\ moving[x] # None /\ w # x => moving[w].src # moving[x].src

\* A cut works on a hold that exists.
CutsValid == \A w \in Workers : cutting[w] # None => reservation[cutting[w]] # None

\* The inductive invariant.
StockInv ==
    /\ TypeOK
    /\ AbsentEmpty
    /\ DepletedIffEmpty
    /\ ReservedWithinRoll
    /\ TransfersValid
    /\ LocksExclusive
    /\ CutsValid
    /\ MovementsExplainBalance

-----------------------------------------------------------------------------

LEMMA InitInv == Init => StockInv
<1> SUFFICES ASSUME Init PROVE StockInv
    OBVIOUS
<1> USE StockAssumption DEF Init
<1>1. TypeOK
    BY DEF TypeOK, Metres
<1>2. AbsentEmpty /\ DepletedIffEmpty /\ MovementsExplainBalance
    BY DEF AbsentEmpty, DepletedIffEmpty, MovementsExplainBalance, Exists
<1>3. ReservedWithinRoll
    BY DEF ReservedWithinRoll, RowOK
<1>4. TransfersValid /\ LocksExclusive /\ CutsValid
    BY DEF TransfersValid, LocksExclusive, CutsValid
<1> QED BY <1>1, <1>2, <1>3, <1>4 DEF StockInv

\* A sale takes metres off unlocked rolls that have a row.
LEMMA TakeInv ==
    ASSUME NEW take \in [Rolls -> Nat],
           StockInv, TakeFromRolls(take),
           \A r \in Rolls : take[r] > 0 => status[r] = "available" /\ ~Locked(r)
    PROVE  StockInv'
<1> USE StockAssumption
<1>1. TypeOK'
    BY DEF StockInv, TypeOK, TakeFromRolls, RowOK, StatusAfter, Metres
<1>2. AbsentEmpty'
    BY SMTT(40) DEF StockInv, TypeOK, TakeFromRolls, AbsentEmpty, Exists, StatusAfter, Metres
<1>3. DepletedIffEmpty'
    BY DEF StockInv, TypeOK, TakeFromRolls, DepletedIffEmpty, Exists, StatusAfter, Metres
<1>4. ReservedWithinRoll'
    BY DEF StockInv, TypeOK, TakeFromRolls, ReservedWithinRoll, RowOK, Metres
<1>5. TransfersValid'
  <2> SUFFICES ASSUME NEW w \in Workers, moving[w] # None
               PROVE  TransferValid(moving[w])'
      BY DEF TransfersValid, TakeFromRolls
  <2>1. moving[w] \in Transfer /\ TransferValid(moving[w])
      BY DEF StockInv, TypeOK, TransfersValid
  <2>2. Locked(moving[w].src) /\ moving[w].src \in Rolls
      BY <2>1 DEF Locked, Transfer
  <2>3. take[moving[w].src] = 0
      BY <2>2
  <2>4. /\ currentQuantity'[moving[w].src] = currentQuantity[moving[w].src]
        /\ status'[moving[w].src] = status[moving[w].src]
        /\ reservedQuantity' = reservedQuantity /\ moving' = moving
      BY <2>2, <2>3 DEF StockInv, TypeOK, TakeFromRolls, Metres
  <2> QED BY <2>1, <2>2, <2>4 DEF TransferValid, Exists, MergedBalance
<1>6. LocksExclusive' /\ CutsValid'
    BY DEF StockInv, TakeFromRolls, LocksExclusive, CutsValid
<1>7. MovementsExplainBalance'
    BY DEF StockInv, TypeOK, TakeFromRolls, MovementsExplainBalance, Metres
<1> QED BY <1>1, <1>2, <1>3, <1>4, <1>5, <1>6, <1>7 DEF StockInv

LEMMA CreateInv ==
    ASSUME NEW r \in Rolls, NEW q \in Quantities, StockInv, CreateBatch(r, q)
    PROVE  StockInv'
<1> USE StockAssumption
<1>1. TypeOK'
    BY DEF StockInv, TypeOK, CreateBatch, Metres
<1>2. AbsentEmpty' /\ DepletedIffEmpty'
    BY DEF StockInv, TypeOK, CreateBatch, AbsentEmpty, DepletedIffEmpty, Exists, Metres
<1>3. ReservedWithinRoll'
    BY DEF StockInv, TypeOK, CreateBatch, ReservedWithinRoll, RowOK, AbsentEmpty,
           Exists, Metres
<1>4. TransfersValid'
    BY DEF StockInv, TypeOK, CreateBatch, TransfersValid, TransferValid, Transfer,
           Exists, MergedBalance
<1>5. LocksExclusive' /\ CutsValid'
    BY DEF StockInv, CreateBatch, LocksExclusive, CutsValid
<1>6. MovementsExplainBalance'
    BY DEF StockInv, TypeOK, CreateBatch, MovementsExplainBalance, AbsentEmpty, Metres
<1> QED BY <1>1, <1>2, <1>3, <1>4, <1>5, <1>6 DEF StockInv

LEMMA ReserveInv ==
    ASSUME NEW i \in Items, NEW r \in Rolls, NEW m \in Quantities,
           StockInv, Reserve(i, r, m)
    PROVE  StockInv'
<1> USE StockAssumption
<1>1. /\ reservedQuantity[r] + m <= currentQuantity[r]
      /\ reservedQuantity[r] \in Metres /\ currentQuantity[r] \in Metres
    BY DEF StockInv, TypeOK, Reserve, CanCutFrom, Metres
<1>2. TypeOK'
  <2>1. reservedQuantity' \in [Rolls -> Metres]
      BY <1>1 DEF StockInv, TypeOK, Reserve, Metres
  <2>2. reservation' \in [Items -> Reservation \cup {None}]
      BY DEF StockInv, TypeOK, Reserve, Reservation
  <2> QED BY <2>1, <2>2 DEF StockInv, TypeOK, Reserve
<1>3. AbsentEmpty' /\ DepletedIffEmpty'
    BY DEF StockInv, Reserve, AbsentEmpty, DepletedIffEmpty, Exists
<1>4. ReservedWithinRoll'
    BY <1>1 DEF StockInv, TypeOK, Reserve, ReservedWithinRoll, RowOK, Metres
<1>5. TransfersValid'
    BY DEF StockInv, TypeOK, Reserve, TransfersValid, TransferValid, Transfer,
           Exists, MergedBalance, Locked
<1>6. LocksExclusive'
    BY DEF StockInv, Reserve, LocksExclusive
<1>7. CutsValid'
    BY DEF StockInv, TypeOK, Reserve, CutsValid
<1>8. MovementsExplainBalance'
    BY DEF StockInv, Reserve, MovementsExplainBalance
<1> QED BY <1>2, <1>3, <1>4, <1>5, <1>6, <1>7, <1>8 DEF StockInv

LEMMA FifoInv ==
    ASSUME NEW s, NEW q \in Quantities, StockInv, FifoConsume(s, q)
    PROVE  StockInv'
<1>1. PICK take \in [Rolls -> 0 .. q] : FifoTake(s, q, take) /\ TakeFromRolls(take)
    BY DEF FifoConsume
<1>2. take \in [Rolls -> Nat]
    OBVIOUS
<1>3. \A r \in Rolls : take[r] > 0 => status[r] = "available" /\ ~Locked(r)
    BY <1>1 DEF FifoTake, FifoShelf, FifoConsume
<1> QED BY <1>1, <1>2, <1>3, TakeInv

LEMMA ExplicitInv ==
    ASSUME NEW r \in Rolls, NEW q \in Quantities, StockInv, ConsumeExplicit(r, q)
    PROVE  StockInv'
<1> DEFINE take == [x \in Rolls |-> IF x = r THEN q ELSE 0]
<1>1. take \in [Rolls -> Nat]
    BY StockAssumption
<1>2. \A x \in Rolls : take[x] > 0 => status[x] = "available" /\ ~Locked(x)
    BY DEF ConsumeExplicit
<1>3. TakeFromRolls(take)
    BY DEF ConsumeExplicit
<1> HIDE DEF take
<1> QED BY <1>1, <1>2, <1>3, TakeInv

LEMMA AdjustInv ==
    ASSUME NEW r \in Rolls, NEW delta \in Int, StockInv, AdjustBatch(r, delta)
    PROVE  StockInv'
<1> USE StockAssumption
<1>1. TypeOK'
    BY DEF StockInv, TypeOK, AdjustBatch, StatusAfter, Metres
<1>2. AbsentEmpty' /\ DepletedIffEmpty'
    BY DEF StockInv, TypeOK, AdjustBatch, StatusAfter, AbsentEmpty,
           DepletedIffEmpty, Exists, Metres
<1>3. ReservedWithinRoll'
    BY DEF StockInv, TypeOK, AdjustBatch, ReservedWithinRoll, Metres
<1>4. TransfersValid'
  <2> SUFFICES ASSUME NEW w \in Workers, moving[w] # None
               PROVE  TransferValid(moving[w])'
      BY DEF TransfersValid, AdjustBatch
  <2>1. moving[w] \in Transfer /\ TransferValid(moving[w])
      BY DEF StockInv, TypeOK, TransfersValid
  <2>2. moving[w].src # r
      BY DEF AdjustBatch, Locked
  <2> QED BY <2>1, <2>2 DEF StockInv, TypeOK, AdjustBatch, TransferValid, Transfer,
                            Exists, MergedBalance
<1>5. LocksExclusive' /\ CutsValid'
    BY DEF StockInv, AdjustBatch, LocksExclusive, CutsValid
<1>6. MovementsExplainBalance'
    BY DEF StockInv, TypeOK, AdjustBatch, MovementsExplainBalance, Metres
<1> QED BY <1>1, <1>2, <1>3, <1>4, <1>5, <1>6 DEF StockInv

LEMMA CutReadInv ==
    ASSUME NEW w \in Workers, NEW i \in Items, StockInv, CutRead(w, i)
    PROVE  StockInv'
<1>1. TypeOK' /\ CutsValid'
    BY DEF StockInv, TypeOK, CutsValid, CutRead
<1>2. AbsentEmpty' /\ DepletedIffEmpty' /\ ReservedWithinRoll' /\ LocksExclusive'
    BY DEF StockInv, AbsentEmpty, DepletedIffEmpty, ReservedWithinRoll,
           LocksExclusive, Exists, CutRead
<1>3. TransfersValid' /\ MovementsExplainBalance'
    BY DEF StockInv, TransfersValid, TransferValid, MergedBalance, Exists,
           MovementsExplainBalance, CutRead
<1> QED BY <1>1, <1>2, <1>3 DEF StockInv

\* The cut deducts from an unlocked roll; the CHECK of the row bounds it.
LEMMA CutCommitInv ==
    ASSUME NEW w \in Workers, StockInv, CutCommit(w)
    PROVE  StockInv'
<1> USE StockAssumption
<1> DEFINE i == cutting[w]
           r == reservation[i].roll
           m == reservation[i].metres
           after == CutBalances(i)
<1>1. /\ i \in Items /\ reservation[i] \in Reservation
      /\ r \in Rolls /\ m \in Quantities /\ m \in Nat \ {0}
  <2>1. cutting[w] # None
      BY DEF CutCommit
  <2>2. i \in Items /\ reservation[i] \in Reservation
      BY <2>1 DEF StockInv, TypeOK, CutsValid
  <2>3. r \in Rolls /\ m \in Quantities
      BY <2>2 DEF Reservation
  <2>4. \A q \in Quantities : q \in Nat \ {0}
      OBVIOUS
  <2> QED BY <2>2, <2>3, <2>4
<1>2. /\ currentQuantity[r] \in Nat /\ currentQuantity[r] <= MaxMetres
      /\ reservedQuantity[r] \in Nat
    BY <1>1 DEF StockInv, TypeOK, Metres
<1>3. /\ after.current = currentQuantity[r] - m
      /\ after.reserved \in Nat
      /\ 0 <= after.current /\ after.reserved <= after.current
    BY <1>1, <1>2 DEF CutCommit, CutBalances, ReservedAfterCut, RowOK
<1>4. /\ ~Locked(r)
      /\ currentQuantity' = [currentQuantity EXCEPT ![r] = after.current]
      /\ reservedQuantity' = [reservedQuantity EXCEPT ![r] = after.reserved]
      /\ status' = [status EXCEPT ![r] = StatusAfter(@, after.current)]
      /\ movements' = [movements EXCEPT ![r] = @ - m]
      /\ reservation' = [reservation EXCEPT ![i] =
                            [roll |-> r, metres |-> m, status |-> "consumed"]]
      /\ cuts' = [cuts EXCEPT ![i] = @ + 1]
      /\ cutting' = [cutting EXCEPT ![w] = None]
      /\ UNCHANGED <<moving, transfers, staleMerges>>
    BY DEF CutCommit
<1> HIDE DEF i, after
<1>5. TypeOK'
  <2>1. /\ status' \in [Rolls -> {"absent", "available", "depleted"}]
        /\ currentQuantity' \in [Rolls -> Metres]
        /\ reservedQuantity' \in [Rolls -> Metres]
        /\ movements' \in [Rolls -> Int]
      BY <1>1, <1>2, <1>3, <1>4 DEF StockInv, TypeOK, StatusAfter, Metres
  <2>2. reservation' \in [Items -> Reservation \cup {None}]
      BY <1>1, <1>4 DEF StockInv, TypeOK, Reservation
  <2>3. cuts' \in [Items -> Nat] /\ cutting' \in [Workers -> Items \cup {None}]
      BY <1>1, <1>4 DEF StockInv, TypeOK
  <2> QED BY <1>4, <2>1, <2>2, <2>3 DEF StockInv, TypeOK, Transfer, Metres
<1>6. AbsentEmpty' /\ DepletedIffEmpty'
    BY <1>1, <1>2, <1>3, <1>4 DEF StockInv, TypeOK, AbsentEmpty, DepletedIffEmpty,
       Exists, StatusAfter, Metres
<1>7. ReservedWithinRoll'
    BY <1>1, <1>2, <1>3, <1>4 DEF StockInv, TypeOK, ReservedWithinRoll, RowOK, Metres
<1>8. TransfersValid'
  <2> SUFFICES ASSUME NEW x \in Workers, moving[x] # None
               PROVE  TransferValid(moving[x])'
      BY <1>4 DEF TransfersValid
  <2>1. moving[x] \in Transfer /\ TransferValid(moving[x]) /\ moving[x].src # r
      BY <1>4 DEF StockInv, TypeOK, TransfersValid, Locked
  <2> QED BY <1>1, <1>4, <2>1 DEF StockInv, TypeOK, TransferValid, Transfer, Exists,
                                  MergedBalance
<1>9. LocksExclusive'
    BY <1>4 DEF StockInv, LocksExclusive
<1>10. CutsValid'
  <2> SUFFICES ASSUME NEW x \in Workers, cutting'[x] # None
               PROVE  reservation'[cutting'[x]] # None
      BY DEF CutsValid
  <2>1. cutting'[x] = cutting[x] /\ cutting[x] # None
      BY <1>4 DEF StockInv, TypeOK
  <2>2. cutting[x] \in Items /\ reservation[cutting[x]] # None
      BY <2>1 DEF StockInv, TypeOK, CutsValid
  <2>3. CASE cutting[x] # i
      BY <1>1, <1>4, <2>1, <2>2, <2>3 DEF StockInv, TypeOK
  <2>4. CASE cutting[x] = i
    <3>1. reservation'[i] = [roll |-> r, metres |-> m, status |-> "consumed"]
        BY <1>1, <1>4 DEF StockInv, TypeOK
    <3>2. reservation'[i] \in Reservation
        BY <1>1, <3>1 DEF Reservation
    <3> QED BY <3>2, <2>1, <2>4, NoneAssumption
  <2> QED BY <2>3, <2>4
<1>11. MovementsExplainBalance'
    BY <1>1, <1>2, <1>3, <1>4 DEF StockInv, TypeOK, MovementsExplainBalance, Metres
<1> QED BY <1>5, <1>6, <1>7, <1>8, <1>9, <1>10, <1>11 DEF StockInv

LEMMA CutRejectedInv ==
    ASSUME NEW w \in Workers, StockInv, CutRejected(w)
    PROVE  StockInv'
<1>1. TypeOK' /\ CutsValid'
    BY DEF StockInv, TypeOK, CutsValid, CutRejected
<1>2. AbsentEmpty' /\ DepletedIffEmpty' /\ ReservedWithinRoll' /\ LocksExclusive'
    BY DEF StockInv, AbsentEmpty, DepletedIffEmpty, ReservedWithinRoll,
           LocksExclusive, Exists, CutRejected
<1>3. TransfersValid' /\ MovementsExplainBalance'
    BY DEF StockInv, TransfersValid, TransferValid, MergedBalance, Exists,
           MovementsExplainBalance, CutRejected
<1> QED BY <1>1, <1>2, <1>3 DEF StockInv

\* The transfer enters with its source unlocked, so no other one holds it.
LEMMA TransferReadInv ==
    ASSUME NEW w \in Workers, NEW src \in Rolls, NEW dst \in Rolls,
           NEW q \in Quantities, StockInv, TransferRead(w, src, dst, q)
    PROVE  StockInv'
<1> USE StockAssumption
<1> DEFINE t == [src |-> src, dst |-> dst, quantity |-> q,
                 seen |-> IF Exists(dst) THEN currentQuantity[dst] ELSE None]
<1>1. moving' = [moving EXCEPT ![w] = t]
    BY DEF TransferRead
<1>2. t \in Transfer
    BY DEF StockInv, TypeOK, Transfer
<1>3. UNCHANGED <<status, currentQuantity, reservedQuantity, reservation,
                  movements, cutting, cuts, staleMerges>>
    BY DEF TransferRead
<1>4. MergedBalance(t) <= MaxMetres
  <2>1. currentQuantity[dst] \in Metres /\ currentQuantity[dst] + q <= MaxMetres
      BY DEF StockInv, TypeOK, TransferRead
  <2>2. CASE Exists(dst)
      BY <2>1, <2>2, NoneAssumption DEF MergedBalance
  <2>3. CASE ~Exists(dst)
      BY <2>1, <2>3 DEF MergedBalance, Metres
  <2> QED BY <2>2, <2>3
<1>5. TransferValid(t)
    BY <1>4 DEF TransferRead, TransferValid
<1>6. \A x \in Workers : moving[x] # None => moving[x].src # src
    BY DEF TransferRead, Locked
<1> HIDE DEF t
<1>7. TypeOK'
  <2>1. transfers' \in 0 .. MaxTransfers
      BY DEF StockInv, TypeOK, TransferRead
  <2> QED BY <1>1, <1>2, <1>3, <2>1 DEF StockInv, TypeOK
<1>8. AbsentEmpty' /\ DepletedIffEmpty' /\ ReservedWithinRoll'
    BY <1>3 DEF StockInv, AbsentEmpty, DepletedIffEmpty, ReservedWithinRoll, Exists
<1>9. TransfersValid'
    BY <1>1, <1>3, <1>5 DEF StockInv, TypeOK, TransfersValid, TransferValid,
                           MergedBalance, Exists
<1>10. LocksExclusive'
  <2>1. t.src = src
      BY DEF t
  <2> QED BY <1>1, <1>6, <2>1 DEF StockInv, TypeOK, LocksExclusive
<1>11. CutsValid' /\ MovementsExplainBalance'
    BY <1>3 DEF StockInv, CutsValid, MovementsExplainBalance
<1> QED BY <1>7, <1>8, <1>9, <1>10, <1>11 DEF StockInv

\* A transfer that ends without a merge only frees its lock.
LEMMA TransferEndsInv ==
    ASSUME NEW w \in Workers, StockInv,
           moving' = [moving EXCEPT ![w] = None],
           UNCHANGED <<status, currentQuantity, reservedQuantity, reservation,
                       movements, cutting, transfers, cuts, staleMerges>>
    PROVE  StockInv'
<1>1. TypeOK'
    BY DEF StockInv, TypeOK
<1>2. AbsentEmpty' /\ DepletedIffEmpty' /\ ReservedWithinRoll'
    BY DEF StockInv, AbsentEmpty, DepletedIffEmpty, ReservedWithinRoll, Exists
<1>3. TransfersValid' /\ LocksExclusive'
    BY DEF StockInv, TypeOK, TransfersValid, TransferValid, LocksExclusive,
           MergedBalance, Exists
<1>4. CutsValid' /\ MovementsExplainBalance'
    BY DEF StockInv, CutsValid, MovementsExplainBalance
<1> QED BY <1>1, <1>2, <1>3, <1>4 DEF StockInv

\* The merge: the source is as it was read, the destination need not be.
LEMMA TransferMergeInv ==
    ASSUME NEW w \in Workers, StockInv, TransferMerge(w)
    PROVE  StockInv'
<1> USE StockAssumption
<1> DEFINE t == moving[w]
           src == t.src
           dst == t.dst
           q == t.quantity
           left == currentQuantity[src] - q
           merged == MergedBalance(t)
<1>1. t # None /\ ~Locked(dst) /\ MergeAllowed(t)
    BY DEF TransferMerge
<1>2. t \in Transfer /\ TransferValid(t)
    BY <1>1 DEF StockInv, TypeOK, TransfersValid
<1>3. /\ src \in Rolls /\ dst \in Rolls /\ src # dst
      /\ q \in Quantities /\ t.seen \in Metres \cup {None}
    BY <1>2 DEF Transfer, TransferValid
<1>4. q \in Nat /\ q > 0
  <2>1. \A x \in Quantities : x \in Nat /\ x > 0
      OBVIOUS
  <2> QED BY <1>3, <2>1
<1>5. /\ currentQuantity[src] \in Metres /\ currentQuantity[dst] \in Metres
      /\ reservedQuantity[src] \in Metres /\ reservedQuantity[dst] \in Metres
    BY <1>3 DEF StockInv, TypeOK
<1>6. /\ status[src] # "absent"
      /\ left \in Metres /\ RowOK(left, reservedQuantity[src])
    BY <1>2, <1>3, <1>4, <1>5 DEF TransferValid, RowOK, Exists, Metres
<1>7. merged \in Metres /\ merged >= q
    BY <1>2, <1>3, <1>4 DEF TransferValid, MergedBalance, Metres
<1>8. RowOK(merged, reservedQuantity[dst])
  <2>1. CASE t.seen = None
    <3>1. currentQuantity[dst] = 0 /\ reservedQuantity[dst] = 0
        BY <1>1, <1>3, <1>5, <2>1
           DEF MergeAllowed, StockInv, AbsentEmpty, ReservedWithinRoll, RowOK, Metres
    <3> QED BY <3>1, <1>4, <1>7 DEF RowOK, Metres
  <2>2. CASE t.seen # None
      BY <1>1, <2>2 DEF MergeAllowed
  <2> QED BY <2>1, <2>2
<1>9. /\ currentQuantity' = [currentQuantity EXCEPT ![src] = left, ![dst] = merged]
      /\ status' = [status EXCEPT ![src] = StatusAfter(@, left), ![dst] = "available"]
      /\ movements' = [movements EXCEPT ![src] = @ - q, ![dst] = @ + q]
      /\ staleMerges' = IF t.seen \in {None, currentQuantity[dst]}
                        THEN staleMerges ELSE staleMerges \cup {dst}
      /\ moving' = [moving EXCEPT ![w] = None]
      /\ UNCHANGED <<reservedQuantity, reservation, cutting, transfers, cuts>>
    BY DEF TransferMerge
<1>10. \A x \in Workers : x # w /\ moving[x] # None => moving[x].src \notin {src, dst}
  <2> SUFFICES ASSUME NEW x \in Workers, x # w, moving[x] # None
               PROVE  moving[x].src # src /\ moving[x].src # dst
      OBVIOUS
  <2>1. moving[x].src # src
      BY <1>1 DEF StockInv, LocksExclusive
  <2>2. moving[x].src # dst
      BY <1>1 DEF Locked
  <2> QED BY <2>1, <2>2
<1>11. t.seen = None => merged = q /\ currentQuantity[dst] = 0
    BY <1>1, <1>3, <1>4 DEF MergedBalance, MergeAllowed, StockInv, AbsentEmpty
<1>12. t.seen # None => merged = t.seen + q
    BY DEF MergedBalance
<1> HIDE DEF t, src, dst, q, left, merged
<1>13. TypeOK'
  <2>1. /\ currentQuantity' \in [Rolls -> Metres]
        /\ status' \in [Rolls -> {"absent", "available", "depleted"}]
      BY <1>3, <1>6, <1>7, <1>9 DEF StockInv, TypeOK, StatusAfter
  <2>2. movements' \in [Rolls -> Int]
      BY <1>3, <1>4, <1>9 DEF StockInv, TypeOK
  <2>3. staleMerges' \subseteq Rolls /\ moving' \in [Workers -> Transfer \cup {None}]
      BY <1>3, <1>9 DEF StockInv, TypeOK
  <2> QED BY <1>9, <2>1, <2>2, <2>3 DEF StockInv, TypeOK
<1>14. AbsentEmpty'
    BY <1>3, <1>6, <1>7, <1>9 DEF StockInv, TypeOK, AbsentEmpty, Exists, StatusAfter
<1>15. DepletedIffEmpty'
  <2> SUFFICES ASSUME NEW r \in Rolls, Exists(r)'
               PROVE  status'[r] = "depleted" <=> currentQuantity'[r] = 0
      BY DEF DepletedIffEmpty
  <2>1. CASE r = dst
      BY <1>3, <1>4, <1>7, <1>9, <2>1 DEF StockInv, TypeOK, Metres
  <2>2. CASE r = src
    <3>1. status[src] = "depleted" => currentQuantity[src] = 0
        BY <1>3, <1>6 DEF StockInv, DepletedIffEmpty, Exists
    <3>2. status'[src] = StatusAfter(status[src], left) /\ currentQuantity'[src] = left
        BY <1>3, <1>9 DEF StockInv, TypeOK
    <3>3. currentQuantity[src] # 0
        BY <1>4, <1>5, <1>6 DEF left, Metres
    <3> QED BY <2>2, <3>1, <3>2, <3>3 DEF StatusAfter
  <2>3. CASE r \notin {src, dst}
      BY <1>9, <2>3 DEF StockInv, TypeOK, DepletedIffEmpty, Exists
  <2> QED BY <2>1, <2>2, <2>3
<1>16. ReservedWithinRoll'
  <2> SUFFICES ASSUME NEW r \in Rolls
               PROVE  RowOK(currentQuantity'[r], reservedQuantity[r])
      BY <1>9 DEF ReservedWithinRoll, RowOK
  <2>1. RowOK(currentQuantity[r], reservedQuantity[r])
      BY DEF StockInv, ReservedWithinRoll
  <2>2. currentQuantity'[r] = CASE r = src -> left [] r = dst -> merged
                                [] OTHER -> currentQuantity[r]
      BY <1>3, <1>9 DEF StockInv, TypeOK
  <2> QED BY <1>3, <1>6, <1>8, <2>1, <2>2
<1>17. TransfersValid'
  <2> SUFFICES ASSUME NEW x \in Workers, moving'[x] # None
               PROVE  TransferValid(moving[x])'
      BY DEF TransfersValid
  <2>1. x # w /\ moving'[x] = moving[x] /\ moving[x] # None
      BY <1>9 DEF StockInv, TypeOK
  <2>2. TransferValid(moving[x]) /\ moving[x] \in Transfer
      BY <2>1 DEF StockInv, TypeOK, TransfersValid
  <2>3. moving[x].src \in Rolls \ {src, dst}
      BY <1>10, <2>1, <2>2 DEF Transfer
  <2>4. /\ currentQuantity'[moving[x].src] = currentQuantity[moving[x].src]
        /\ status'[moving[x].src] = status[moving[x].src]
      BY <1>9, <2>3 DEF StockInv, TypeOK
  <2> QED BY <1>9, <2>1, <2>2, <2>4 DEF TransferValid, Exists, MergedBalance
<1>18. LocksExclusive'
    BY <1>9 DEF StockInv, TypeOK, LocksExclusive
<1>19. CutsValid'
    BY <1>9 DEF StockInv, CutsValid
<1>20. MovementsExplainBalance'
  <2> SUFFICES ASSUME NEW r \in Rolls, r \notin staleMerges'
               PROVE  movements'[r] = currentQuantity'[r]
      BY DEF MovementsExplainBalance
  <2>1. r \notin staleMerges /\ movements[r] = currentQuantity[r]
      BY <1>9 DEF StockInv, MovementsExplainBalance
  <2>2. CASE r = dst
    <3>1. t.seen \in {None, currentQuantity[dst]}
        BY <1>9, <2>2
    <3>2. merged = currentQuantity[dst] + q
        BY <1>4, <1>11, <1>12, <3>1
    <3> QED BY <1>3, <1>9, <2>1, <2>2, <3>2 DEF StockInv, TypeOK
  <2>3. CASE r = src
      BY <1>3, <1>9, <2>1, <2>3 DEF StockInv, TypeOK, left
  <2>4. CASE r \notin {src, dst}
      BY <1>9, <2>1, <2>4 DEF StockInv, TypeOK
  <2> QED BY <2>2, <2>3, <2>4
<1> QED BY <1>13, <1>14, <1>15, <1>16, <1>17, <1>18, <1>19, <1>20 DEF StockInv

-----------------------------------------------------------------------------

LEMMA NextInv == StockInv /\ [Next]_vars => StockInv'
<1> SUFFICES ASSUME StockInv, [Next]_vars PROVE StockInv'
    OBVIOUS
<1>1. ASSUME NEW r \in Rolls, NEW q \in Quantities, CreateBatch(r, q)
      PROVE  StockInv'
    BY <1>1, CreateInv
<1>2. ASSUME NEW i \in Items, NEW r \in Rolls, NEW m \in Quantities, Reserve(i, r, m)
      PROVE  StockInv'
    BY <1>2, ReserveInv
<1>3. ASSUME NEW s \in {StoreOf[r] : r \in Rolls}, NEW q \in Quantities,
             FifoConsume(s, q)
      PROVE  StockInv'
    BY <1>3, FifoInv
<1>4. ASSUME NEW r \in Rolls, NEW q \in Quantities, ConsumeExplicit(r, q)
      PROVE  StockInv'
    BY <1>4, ExplicitInv
<1>5. ASSUME NEW r \in Rolls, NEW q \in Quantities,
             AdjustBatch(r, q) \/ AdjustBatch(r, -q)
      PROVE  StockInv'
  <2>1. q \in Int /\ -q \in Int
      BY StockAssumption
  <2> QED BY <1>5, <2>1, AdjustInv
<1>6. ASSUME NEW w \in Workers, NEW i \in Items, CutRead(w, i)
      PROVE  StockInv'
    BY <1>6, CutReadInv
<1>7. ASSUME NEW w \in Workers, CutCommit(w)
      PROVE  StockInv'
    BY <1>7, CutCommitInv
<1>8. ASSUME NEW w \in Workers, CutRejected(w)
      PROVE  StockInv'
    BY <1>8, CutRejectedInv
<1>9. ASSUME NEW w \in Workers, NEW src \in Rolls, NEW dst \in Rolls,
             NEW q \in Quantities, TransferRead(w, src, dst, q)
      PROVE  StockInv'
    BY <1>9, TransferReadInv
<1>10. ASSUME NEW w \in Workers, TransferMerge(w)
       PROVE  StockInv'
    BY <1>10, TransferMergeInv
<1>11. ASSUME NEW w \in Workers, TransferRejected(w) \/ TransferDeadlock(w)
       PROVE  StockInv'
    BY <1>11, TransferEndsInv DEF TransferRejected, TransferDeadlock
<1>12. CASE UNCHANGED vars
  <2>1. TypeOK' /\ AbsentEmpty' /\ DepletedIffEmpty' /\ ReservedWithinRoll'
      BY <1>12 DEF StockInv, vars, TypeOK, AbsentEmpty, DepletedIffEmpty,
                   ReservedWithinRoll, Exists
  <2>2. TransfersValid' /\ LocksExclusive' /\ CutsValid' /\ MovementsExplainBalance'
      BY <1>12 DEF StockInv, vars, TransfersValid, TransferValid, LocksExclusive,
                   CutsValid, MovementsExplainBalance, Exists, MergedBalance
  <2> QED BY <2>1, <2>2 DEF StockInv
<1> QED BY <1>1, <1>2, <1>3, <1>4, <1>5, <1>6, <1>7, <1>8, <1>9, <1>10, <1>11,
           <1>12 DEF Next

\* The row locks and CHECKs keep the inductive invariant, in every behaviour.
THEOREM StockInvariant == Spec => []StockInv
<1> QED BY InitInv, NextInv, PTL DEF Spec

\* Every row, hold and request in flight keeps its type.
THEOREM StockTypes == Spec => []TypeOK
<1>1. StockInv => TypeOK
    BY DEF StockInv
<1> QED BY <1>1, StockInvariant, PTL

\* However sales, cuts, adjustments and transfers interleave, a roll is marked
\* depleted exactly when nothing is left on it: the four writers agree.
THEOREM StatusMatchesBalance == Spec => []DepletedIffEmpty
<1>1. StockInv => DepletedIffEmpty
    BY DEF StockInv
<1> QED BY <1>1, StockInvariant, PTL

\* No roll promises more metres than it carries: no interleaving oversells.
THEOREM NoOversell == Spec => []ReservedWithinRoll
<1>1. StockInv => ReservedWithinRoll
    BY DEF StockInv
<1> QED BY <1>1, StockInvariant, PTL

\* The movements of a roll explain its balance unless a transfer wrote the roll
\* from an outdated read, which is the only way the two come apart.
THEOREM MovementsMatchBalance == Spec => []MovementsExplainBalance
<1>1. StockInv => MovementsExplainBalance
    BY DEF StockInv
<1> QED BY <1>1, StockInvariant, PTL

-----------------------------------------------------------------------------
(* The sum of the metres of a set of holds.  The fold of the community      *)
(* modules is a recursive function on the subsets of the set; its equation  *)
(* and what follows from it are proved here by minimal counterexample, from *)
(* the well-foundedness of the strict subsets of a finite set.              *)

\* The metres of the holds of S in "res", added up as LiveHolds does.
Holds(res, S) == MapThenSumSet(LAMBDA i : res[i].metres, S)

\* The element the fold takes next.
Pick(s) == CHOOSE x \in s : TRUE

\* g adds up every subset of S the way the fold does.
Sums(res, S, g) ==
    g = [s \in SUBSET S |->
            IF s = {} THEN 0 ELSE res[Pick(s)].metres + g[s \ {Pick(s)}]]

\* The fold is the value at S of the function its recursion describes.
LEMMA HoldsDef == ASSUME NEW res, NEW S PROVE Holds(res, S) = (CHOOSE g : Sums(res, S, g))[S]
BY DEF Holds, MapThenSumSet, MapThenFoldSet, Sums, Pick

\* Among finite sets, some member of a collection has no other member inside it.
LEMMA Minimal == ASSUME NEW S, IsFiniteSet(S), NEW B, B \subseteq SUBSET S, B # {}
  PROVE \E T \in B : \A U \in B : ~(U \subseteq T /\ U # T)
<1>1. IsWellFoundedOn(StrictSubsetOrdering(S), FiniteSubsetsOf(S))
  BY FS_StrictSubsetOrderingWellFounded
<1>2. B \subseteq FiniteSubsetsOf(S)
  BY FS_FiniteSubsetsOfFinite
<1>3. \E T \in B : \A U \in B : ~(<<U, T>> \in StrictSubsetOrdering(S))
  BY <1>1, <1>2, WFMin
<1> QED BY <1>3 DEF StrictSubsetOrdering

\* The element taken is one of the set, so what remains is smaller.
LEMMA PickIn == ASSUME NEW s, s # {} PROVE Pick(s) \in s /\ s \ {Pick(s)} \subseteq s /\ s \ {Pick(s)} # s
BY DEF Pick

\* The recursion has at most one solution ...
LEMMA SumsUnique ==
  ASSUME NEW res, NEW S, IsFiniteSet(S), NEW g, NEW h, Sums(res, S, g), Sums(res, S, h)
  PROVE g = h
<1> DEFINE B == {s \in SUBSET S : g[s] # h[s]}
<1>1. SUFFICES ASSUME B # {} PROVE FALSE
  <2>1. g = [s \in SUBSET S |-> g[s]] /\ h = [s \in SUBSET S |-> h[s]]
    BY DEF Sums
  <2> QED BY <2>1
<1>2. PICK T \in B : \A U \in B : ~(U \subseteq T /\ U # T)
  <2>1. B \subseteq SUBSET S
    OBVIOUS
  <2> HIDE DEF B
  <2> QED BY <1>1, <2>1, Minimal
<1>3. /\ g[T] = IF T = {} THEN 0 ELSE res[Pick(T)].metres + g[T \ {Pick(T)}]
      /\ h[T] = IF T = {} THEN 0 ELSE res[Pick(T)].metres + h[T \ {Pick(T)}]
  BY <1>2 DEF Sums
<1>4. T # {}
  BY <1>2, <1>3
<1>5. g[T \ {Pick(T)}] = h[T \ {Pick(T)}]
  BY <1>2, <1>4, PickIn
<1> QED BY <1>2, <1>3, <1>4, <1>5

\* ... whose restriction solves it for a part of the set ...
LEMMA SumsPart ==
  ASSUME NEW res, NEW S, NEW g, Sums(res, S, g), NEW T \in SUBSET S
  PROVE Sums(res, T, [s \in SUBSET T |-> g[s]])
<1> DEFINE h == [s \in SUBSET T |-> g[s]]
<1>1. \A s \in SUBSET T :
        g[s] = IF s = {} THEN 0 ELSE res[Pick(s)].metres + g[s \ {Pick(s)}]
  BY DEF Sums
<1>2. \A s \in SUBSET T : h[s \ {Pick(s)}] = g[s \ {Pick(s)}]
  OBVIOUS
<1>3. \A s \in SUBSET T :
        h[s] = IF s = {} THEN 0 ELSE res[Pick(s)].metres + h[s \ {Pick(s)}]
  BY <1>1, <1>2
<1>4. h = [s \in SUBSET T |-> h[s]]
  OBVIOUS
<1> HIDE DEF h
<1>5. Sums(res, T, h)
  BY <1>3, <1>4 DEF Sums
<1> QED BY <1>5 DEF h

\* ... and it has one.
LEMMA SumsExist ==
  ASSUME NEW res, NEW S, IsFiniteSet(S)
  PROVE \E g : Sums(res, S, g)
<1> DEFINE Solved(T) == \E g : Sums(res, T, g)
           A(T) == (CHOOSE g : Sums(res, T, g))[T]
           B == {T \in SUBSET S : ~Solved(T)}
<1>1. SUFFICES ASSUME B # {} PROVE FALSE
  OBVIOUS
<1>2. PICK T \in B : \A U \in B : ~(U \subseteq T /\ U # T)
  <2>1. B \subseteq SUBSET S
    OBVIOUS
  <2> HIDE DEF B
  <2> QED BY <1>1, <2>1, Minimal
<1>3. \A U \in SUBSET T : U # T => Solved(U)
  BY <1>2
<1>4. ASSUME NEW u \in SUBSET T, u # T
      PROVE  A(u) = IF u = {} THEN 0 ELSE res[Pick(u)].metres + A(u \ {Pick(u)})
  <2>1. PICK g : g = CHOOSE f : Sums(res, u, f)
    OBVIOUS
  <2>2. Sums(res, u, g)
    BY <1>3, <1>4, <2>1
  <2>3. g[u] = IF u = {} THEN 0 ELSE res[Pick(u)].metres + g[u \ {Pick(u)}]
    BY <2>2 DEF Sums
  <2>4. CASE u = {}
    BY <2>1, <2>3, <2>4
  <2>5. CASE u # {}
    <3> DEFINE v == u \ {Pick(u)}
    <3>1. v \in SUBSET u /\ v \in SUBSET T /\ v # T
      BY <1>4, <2>5
    <3>2. Sums(res, v, [s \in SUBSET v |-> g[s]])
      BY <2>2, <3>1, SumsPart
    <3>3. PICK h : h = CHOOSE f : Sums(res, v, f)
      OBVIOUS
    <3>4. Sums(res, v, h)
      BY <1>3, <3>1, <3>3
    <3>5. IsFiniteSet(v)
      BY <1>2, <3>1, FS_Subset
    <3>6. h = [s \in SUBSET v |-> g[s]]
      BY <3>2, <3>4, <3>5, SumsUnique
    <3>7. h[v] = g[v]
      BY <3>6
    <3> QED BY <2>1, <2>3, <2>5, <3>3, <3>7
  <2> QED BY <2>4, <2>5
<1> DEFINE g == [s \in SUBSET T |-> IF s = {} THEN 0 ELSE res[Pick(s)].metres + A(s \ {Pick(s)})]
<1>5. \A s \in SUBSET T : s # {} => g[s \ {Pick(s)}] = A(s \ {Pick(s)})
  <2> SUFFICES ASSUME NEW s \in SUBSET T, s # {} PROVE g[s \ {Pick(s)}] = A(s \ {Pick(s)})
    OBVIOUS
  <2>1. s \ {Pick(s)} \in SUBSET T /\ s \ {Pick(s)} # T
    BY PickIn
  <2> HIDE DEF A
  <2> QED BY <2>1, <1>4
<1>6. Sums(res, T, g)
  <2> HIDE DEF A
  <2>1. \A s \in SUBSET T : g[s] = IF s = {} THEN 0 ELSE res[Pick(s)].metres + g[s \ {Pick(s)}]
    BY <1>5
  <2>2. g = [s \in SUBSET T |-> g[s]]
    OBVIOUS
  <2> HIDE DEF g
  <2> QED BY <2>1, <2>2 DEF Sums
<1> QED BY <1>2, <1>6

\* So the fold obeys its recursion equation.
LEMMA HoldsStep ==
  ASSUME NEW res, NEW S, IsFiniteSet(S)
  PROVE Holds(res, S) = IF S = {} THEN 0
                        ELSE res[Pick(S)].metres + Holds(res, S \ {Pick(S)})
<1>1. PICK g : g = CHOOSE f : Sums(res, S, f)
  OBVIOUS
<1>2. Sums(res, S, g)
  BY <1>1, SumsExist
<1>3. g[S] = IF S = {} THEN 0 ELSE res[Pick(S)].metres + g[S \ {Pick(S)}]
  BY <1>2 DEF Sums
<1>4. Holds(res, S) = g[S]
  BY <1>1, HoldsDef
<1>5. CASE S = {}
  BY <1>3, <1>4, <1>5
<1>6. CASE S # {}
  <2> DEFINE v == S \ {Pick(S)}
  <2>1. v \in SUBSET S /\ IsFiniteSet(v)
    BY FS_Subset
  <2>2. Sums(res, v, [s \in SUBSET v |-> g[s]])
    BY <1>2, <2>1, SumsPart
  <2>3. PICK h : h = CHOOSE f : Sums(res, v, f)
    OBVIOUS
  <2>4. Sums(res, v, h)
    BY <2>1, <2>3, SumsExist
  <2>5. h[v] = g[v]
    <3>1. h = [s \in SUBSET v |-> g[s]]
      BY <2>1, <2>2, <2>4, SumsUnique
    <3> QED BY <3>1
  <2>6. Holds(res, v) = h[v]
    BY <2>3, HoldsDef
  <2> QED BY <1>3, <1>4, <1>6, <2>5, <2>6
<1> QED BY <1>5, <1>6

\* The sum does not depend on the order: any element can be taken out first.
LEMMA HoldsRemove ==
  ASSUME NEW res, NEW S, IsFiniteSet(S), \A i \in S : res[i].metres \in Nat
  PROVE  /\ Holds(res, S) \in Nat
         /\ \A i \in S : Holds(res, S) = res[i].metres + Holds(res, S \ {i})
<1> DEFINE Good(T) == /\ Holds(res, T) \in Nat
                      /\ \A i \in T : Holds(res, T) = res[i].metres + Holds(res, T \ {i})
           B == {T \in SUBSET S : ~Good(T)}
<1>1. SUFFICES ASSUME B # {} PROVE FALSE
  OBVIOUS
<1>2. PICK T \in B : \A U \in B : ~(U \subseteq T /\ U # T)
  <2>1. B \subseteq SUBSET S
    OBVIOUS
  <2> HIDE DEF B
  <2> QED BY <1>1, <2>1, Minimal
<1>3. \A U \in SUBSET T : U # T => Good(U)
  BY <1>2
<1>4. IsFiniteSet(T)
  BY <1>2, FS_Subset
<1>5. CASE T = {}
  <2>1. Holds(res, T) = 0
    BY <1>4, <1>5, HoldsStep
  <2> QED BY <1>2, <1>5, <2>1
<1>6. CASE T # {}
  <2> DEFINE y == Pick(T)
  <2>1. y \in T /\ Holds(res, T) = res[y].metres + Holds(res, T \ {y})
    BY <1>4, <1>6, HoldsStep, PickIn
  <2> HIDE DEF y
  <2>2. Good(T \ {y}) /\ res[y].metres \in Nat
    BY <1>2, <1>3, <2>1
  <2>3. ASSUME NEW i \in T PROVE Holds(res, T) = res[i].metres + Holds(res, T \ {i})
    <3>1. CASE i = y
      BY <2>1, <3>1
    <3>2. CASE i # y
      <4>1. Good(T \ {i}) /\ res[i].metres \in Nat
        BY <1>2, <1>3
      <4>2. i \in T \ {y} /\ y \in T \ {i} /\ (T \ {y}) \ {i} = (T \ {i}) \ {y}
        BY <2>1, <3>2
      <4>3. Holds(res, T \ {y}) = res[i].metres + Holds(res, (T \ {i}) \ {y})
        BY <2>2, <4>2
      <4>4. Holds(res, T \ {i}) = res[y].metres + Holds(res, (T \ {i}) \ {y})
        BY <4>1, <4>2
      <4>5. Good((T \ {i}) \ {y})
        BY <1>3, <4>2
      <4> QED BY <2>1, <2>2, <4>1, <4>3, <4>4, <4>5
    <3> QED BY <3>1, <3>2
  <2>4. Good(T)
    BY <2>1, <2>2, <2>3
  <2> QED BY <1>2, <2>4
<1> QED BY <1>5, <1>6

\* The sum depends on nothing but the holds it adds up.
LEMMA HoldsSame ==
  ASSUME NEW res, NEW new, NEW S, IsFiniteSet(S), \A i \in S : new[i] = res[i]
  PROVE  Holds(new, S) = Holds(res, S)
<1> DEFINE B == {T \in SUBSET S : Holds(new, T) # Holds(res, T)}
<1>1. SUFFICES ASSUME B # {} PROVE FALSE
  OBVIOUS
<1>2. PICK T \in B : \A U \in B : ~(U \subseteq T /\ U # T)
  <2>1. B \subseteq SUBSET S
    OBVIOUS
  <2> HIDE DEF B
  <2> QED BY <1>1, <2>1, Minimal
<1>3. IsFiniteSet(T)
  BY <1>2, FS_Subset
<1>4. CASE T = {}
  BY <1>2, <1>3, <1>4, HoldsStep
<1>5. CASE T # {}
  <2>1. Pick(T) \in T /\ T \ {Pick(T)} \notin B /\ T \ {Pick(T)} \in SUBSET S
    BY <1>2, <1>5, PickIn
  <2>2. new[Pick(T)] = res[Pick(T)]
    BY <2>1, <1>2
  <2> QED BY <1>2, <1>3, <1>5, <2>1, <2>2, HoldsStep
<1> QED BY <1>4, <1>5

-----------------------------------------------------------------------------
(* The promised metres and the holds that stand for them.                  *)

\* The live holds on a roll, and whose hold an item has.
LiveOn(r) == {i \in Items : /\ reservation[i] # None
                          /\ reservation[i].roll = r
                          /\ reservation[i].status = "reserved"}

\* The sum of the model, as the lemmas above read it.
LiveHoldsAreHolds == \A r \in Rolls : LiveHolds(r) = Holds(reservation, LiveOn(r))

LEMMA SumOfLiveHolds == LiveHoldsAreHolds
BY DEF LiveHoldsAreHolds, LiveHolds, Holds, LiveOn

LEMMA SumOfLiveHoldsNext == LiveHoldsAreHolds'
BY SumOfLiveHolds, PTL

\* In the form the proofs use: of this state and of the next one.
LEMMA LiveSums ==
    ASSUME NEW r \in Rolls
    PROVE  /\ LiveHolds(r) = Holds(reservation, LiveOn(r))
           /\ LiveHolds(r)' = Holds(reservation', LiveOn(r)')
<1>1. LiveHolds(r) = Holds(reservation, LiveOn(r))
    BY SumOfLiveHolds DEF LiveHoldsAreHolds
<1>2. LiveHolds(r)' = Holds(reservation', LiveOn(r)')
    BY SumOfLiveHoldsNext DEF LiveHoldsAreHolds
<1> QED BY <1>1, <1>2

\* An item is cut exactly when its hold is consumed: a live hold was never cut.
CutOnceConsumed ==
    \A i \in Items :
        /\ reservation[i] = None => cuts[i] = 0
        /\ reservation[i] # None =>
              (reservation[i].status = "consumed" <=> cuts[i] > 0)

\* There are finitely many holds, however many items there may be.
HoldsFinite == IsFiniteSet({i \in Items : reservation[i] # None})

\* The inductive invariant of the holds.
HoldsInv ==
    /\ StockInv
    /\ CutOnceConsumed
    /\ HoldsFinite
    /\ HoldsExactUnlessRecut
    /\ NoPhantomHold

\* There are no holds at first.
LEMMA InitHolds == Init => HoldsInv
<1> SUFFICES ASSUME Init PROVE HoldsInv
    OBVIOUS
<1>1. CutOnceConsumed
    BY DEF Init, CutOnceConsumed
<1>2. {i \in Items : reservation[i] # None} = {}
    BY DEF Init
<1>3. HoldsFinite
    BY <1>2, FS_EmptySet DEF HoldsFinite
<1>4. \A r \in Rolls : LiveOn(r) = {}
    BY <1>2 DEF LiveOn
<1>5. \A r \in Rolls : LiveHolds(r) = 0 /\ reservedQuantity[r] = 0
    BY <1>4, FS_EmptySet, LiveSums, HoldsStep DEF Init
<1>6. HoldsExactUnlessRecut /\ NoPhantomHold
    BY <1>5 DEF HoldsExactUnlessRecut, NoPhantomHold
<1> QED BY <1>1, <1>3, <1>6, InitInv DEF HoldsInv

\* What the lemmas on sums need of the live holds of a roll.
LEMMA LiveFacts ==
    ASSUME NEW r, StockInv, HoldsFinite
    PROVE  /\ IsFiniteSet(LiveOn(r))
           /\ \A i \in LiveOn(r) : reservation[i].metres \in Nat
<1>1. IsFiniteSet(LiveOn(r))
  <2>1. LiveOn(r) \in SUBSET {i \in Items : reservation[i] # None}
      BY DEF LiveOn
  <2> QED BY <2>1, FS_Subset DEF HoldsFinite
<1>2. ASSUME NEW i \in LiveOn(r) PROVE reservation[i].metres \in Nat
  <2>1. reservation[i] \in Reservation
      BY DEF StockInv, TypeOK, LiveOn
  <2>2. \A q \in Quantities : q \in Nat
      BY StockAssumption
  <2> QED BY <2>1, <2>2 DEF Reservation
<1> QED BY <1>1, <1>2

\* Most actions touch neither the holds nor the metres promised.
LEMMA HoldsKept ==
    ASSUME HoldsInv, StockInv', UNCHANGED <<reservedQuantity, reservation, cuts>>
    PROVE  HoldsInv'
<1>1. CutOnceConsumed' /\ HoldsFinite'
    BY DEF HoldsInv, CutOnceConsumed, HoldsFinite
<1>2. \A r \in Rolls : LiveHolds(r)' = LiveHolds(r)
  <2>1. \A r \in Rolls : LiveOn(r)' = LiveOn(r)
      BY DEF LiveOn
  <2> QED BY <2>1, LiveSums
<1>3. \A r \in Rolls : Recut(r)' <=> Recut(r)
    BY DEF Recut
<1>4. HoldsExactUnlessRecut' /\ NoPhantomHold'
    BY <1>2, <1>3 DEF HoldsInv, HoldsExactUnlessRecut, NoPhantomHold
<1> QED BY <1>1, <1>4 DEF HoldsInv

\* A checkout adds one hold and promises its metres.
LEMMA ReserveHolds ==
    ASSUME NEW i \in Items, NEW r \in Rolls, NEW m \in Quantities,
           HoldsInv, Reserve(i, r, m)
    PROVE  HoldsInv'
<1> DEFINE hold == [roll |-> r, metres |-> m, status |-> "reserved"]
<1>1. /\ reservation[i] = None
      /\ reservation' = [reservation EXCEPT ![i] = hold]
      /\ reservedQuantity' = [reservedQuantity EXCEPT ![r] = @ + m]
      /\ cuts' = cuts
    BY DEF Reserve
<1>2. /\ reservation \in [Items -> Reservation \cup {None}]
      /\ reservedQuantity \in [Rolls -> Nat]
      /\ m \in Nat
    BY StockAssumption DEF HoldsInv, StockInv, TypeOK, Metres
<1>3. hold # None
  <2>1. hold \in Reservation
      BY DEF Reservation
  <2> QED BY <2>1, NoneAssumption
<1>4. StockInv'
    BY ReserveInv DEF HoldsInv
<1>5. CutOnceConsumed'
    BY <1>1, <1>2, <1>3 DEF HoldsInv, CutOnceConsumed
<1>6. HoldsFinite'
  <2>1. {j \in Items : reservation'[j] # None}
            = {j \in Items : reservation[j] # None} \cup {i}
      BY <1>1, <1>2, <1>3
  <2> QED BY <2>1, FS_AddElement DEF HoldsInv, HoldsFinite
<1>7. \A s \in Rolls : Recut(s)' <=> Recut(s)
  <2>1. cuts[i] = 0
      BY <1>1 DEF HoldsInv, CutOnceConsumed
  <2> QED BY <1>1, <1>2, <2>1 DEF Recut
<1>8. /\ LiveOn(r)' = LiveOn(r) \cup {i} /\ i \notin LiveOn(r)
      /\ \A s \in Rolls : s # r => LiveOn(s)' = LiveOn(s)
    BY <1>1, <1>2, <1>3 DEF LiveOn
<1>9. \A s \in Rolls : Holds(reservation', LiveOn(s)) = Holds(reservation, LiveOn(s))
  <2> SUFFICES ASSUME NEW s \in Rolls
               PROVE  Holds(reservation', LiveOn(s)) = Holds(reservation, LiveOn(s))
      OBVIOUS
  <2>1. \A j \in LiveOn(s) : reservation'[j] = reservation[j]
      BY <1>1, <1>2 DEF LiveOn
  <2>2. IsFiniteSet(LiveOn(s))
      BY LiveFacts DEF HoldsInv
  <2> QED BY <2>1, <2>2, HoldsSame
<1>10. LiveHolds(r)' = LiveHolds(r) + m /\ LiveHolds(r) \in Nat
  <2>1. IsFiniteSet(LiveOn(r)) /\ IsFiniteSet(LiveOn(r)')
      BY <1>8, LiveFacts, FS_AddElement DEF HoldsInv
  <2>2. reservation'[i].metres = m
      BY <1>1, <1>2
  <2>3. \A j \in LiveOn(r)' : reservation'[j].metres \in Nat
      BY <1>1, <1>2, <1>8, <2>2, LiveFacts DEF HoldsInv, LiveOn
  <2>4. LiveOn(r)' \ {i} = LiveOn(r) /\ i \in LiveOn(r)'
      BY <1>8
  <2>5. Holds(reservation', LiveOn(r)') = m + Holds(reservation', LiveOn(r))
      BY <2>1, <2>2, <2>3, <2>4, HoldsRemove
  <2>6. Holds(reservation, LiveOn(r)) \in Nat
      BY <2>1, LiveFacts, HoldsRemove DEF HoldsInv
  <2> QED BY <1>2, <1>9, <2>5, <2>6, LiveSums
<1>11. \A s \in Rolls : s # r => LiveHolds(s)' = LiveHolds(s)
    BY <1>8, <1>9, LiveSums
<1>12. ASSUME NEW s \in Rolls
       PROVE  /\ ~Recut(s)' => reservedQuantity'[s] = LiveHolds(s)'
              /\ reservedQuantity'[s] <= LiveHolds(s)'
  <2>1. /\ ~Recut(s) => reservedQuantity[s] = LiveHolds(s)
        /\ reservedQuantity[s] <= LiveHolds(s)
      BY DEF HoldsInv, HoldsExactUnlessRecut, NoPhantomHold
  <2>2. CASE s = r
      BY <1>1, <1>2, <1>7, <1>10, <2>1, <2>2
  <2>3. CASE s # r
      BY <1>1, <1>2, <1>7, <1>11, <2>1, <2>3
  <2> QED BY <2>2, <2>3
<1>13. HoldsExactUnlessRecut' /\ NoPhantomHold'
    BY <1>12 DEF HoldsExactUnlessRecut, NoPhantomHold
<1> QED BY <1>4, <1>5, <1>6, <1>13 DEF HoldsInv

\* A cut of a live hold takes its metres off the promise; a cut of one that
\* another tablet has consumed leaves the holds and marks the roll as recut.
LEMMA CutHolds ==
    ASSUME NEW w \in Workers, HoldsInv, CutCommit(w)
    PROVE  HoldsInv'
<1>1. PICK i \in Items, r \in Rolls, m \in Nat \ {0} :
          /\ i = cutting[w] /\ r = reservation[i].roll /\ m = reservation[i].metres
          /\ reservation[i] \in Reservation /\ reservation[i] # None
          /\ [roll |-> r, metres |-> m, status |-> "consumed"] \in Reservation \ {None}
  <2> DEFINE i == cutting[w]
             r == reservation[i].roll
             m == reservation[i].metres
  <2>1. i \in Items /\ reservation[i] \in Reservation /\ reservation[i] # None
      BY DEF CutCommit, HoldsInv, StockInv, TypeOK, CutsValid
  <2>2. r \in Rolls /\ m \in Quantities
      BY <2>1 DEF Reservation
  <2>3. \A q \in Quantities : q \in Nat \ {0}
      BY StockAssumption
  <2>4. [roll |-> r, metres |-> m, status |-> "consumed"] \in Reservation \ {None}
      BY <2>2, NoneAssumption DEF Reservation
  <2> QED BY <2>1, <2>2, <2>3, <2>4
<1> DEFINE hold == [roll |-> r, metres |-> m, status |-> "consumed"]
<1>2. /\ reservedQuantity' =
            [reservedQuantity EXCEPT ![r] = ReservedAfterCut(reservedQuantity[r], m)]
      /\ reservation' = [reservation EXCEPT ![i] = hold]
      /\ cuts' = [cuts EXCEPT ![i] = @ + 1]
    BY <1>1 DEF CutCommit, CutBalances
<1>3. /\ reservation \in [Items -> Reservation \cup {None}]
      /\ reservedQuantity \in [Rolls -> Nat]
      /\ cuts \in [Items -> Nat]
    BY DEF HoldsInv, StockInv, TypeOK, Metres
<1>4. StockInv'
    BY CutCommitInv DEF HoldsInv
<1>5. CutOnceConsumed'
    BY <1>1, <1>2, <1>3 DEF HoldsInv, CutOnceConsumed
<1>6. HoldsFinite'
  <2>1. {j \in Items : reservation'[j] # None} = {j \in Items : reservation[j] # None}
      BY <1>1, <1>2, <1>3
  <2> QED BY <2>1 DEF HoldsInv, HoldsFinite
<1>7. \A s \in Rolls : Recut(s) => Recut(s)'
    BY <1>1, <1>2, <1>3 DEF Recut
<1>8. /\ LiveOn(r)' = LiveOn(r) \ {i}
      /\ \A s \in Rolls : s # r => LiveOn(s)' = LiveOn(s)
    BY <1>1, <1>2, <1>3 DEF LiveOn
<1>9. \A s \in Rolls : /\ IsFiniteSet(LiveOn(s)')
                       /\ Holds(reservation', LiveOn(s)') = Holds(reservation, LiveOn(s)')
  <2> SUFFICES ASSUME NEW s \in Rolls
               PROVE  /\ IsFiniteSet(LiveOn(s)')
                      /\ Holds(reservation', LiveOn(s)') = Holds(reservation, LiveOn(s)')
      OBVIOUS
  <2>1. i \notin LiveOn(s)'
      BY <1>1, <1>2, <1>3 DEF LiveOn
  <2>2. \A j \in LiveOn(s)' : reservation'[j] = reservation[j]
      BY <1>2, <1>3, <2>1 DEF LiveOn
  <2>3. IsFiniteSet(LiveOn(s)) /\ LiveOn(s)' \in SUBSET LiveOn(s)
      BY <1>8, LiveFacts DEF HoldsInv
  <2>4. IsFiniteSet(LiveOn(s)')
      BY <2>3, FS_Subset
  <2> QED BY <2>2, <2>4, HoldsSame
<1>10. \A s \in Rolls : s # r => LiveHolds(s)' = LiveHolds(s)
    BY <1>8, <1>9, LiveSums
<1>11. /\ i \in LiveOn(r) => LiveHolds(r) = m + LiveHolds(r)'
       /\ i \notin LiveOn(r) => LiveHolds(r)' = LiveHolds(r)
       /\ LiveHolds(r)' \in Nat
  <2>1. /\ IsFiniteSet(LiveOn(r)) /\ \A j \in LiveOn(r) : reservation[j].metres \in Nat
      BY LiveFacts DEF HoldsInv
  <2>2. i \in LiveOn(r) => Holds(reservation, LiveOn(r))
                             = m + Holds(reservation, LiveOn(r) \ {i})
      BY <1>1, <2>1, HoldsRemove
  <2>3. i \notin LiveOn(r) => LiveOn(r) \ {i} = LiveOn(r)
      OBVIOUS
  <2>4. Holds(reservation, LiveOn(r) \ {i}) \in Nat
    <3>1. IsFiniteSet(LiveOn(r) \ {i})
        BY <2>1, FS_Subset
    <3> QED BY <2>1, <3>1, HoldsRemove
  <2> QED BY <1>1, <1>8, <1>9, <2>2, <2>3, <2>4, LiveSums
<1>12. i \notin LiveOn(r) => Recut(r)'
  <2> SUFFICES ASSUME i \notin LiveOn(r) PROVE Recut(r)'
      OBVIOUS
  <2>1. reservation[i].status = "consumed"
      BY <1>1 DEF LiveOn, Reservation
  <2>2. cuts[i] > 0
      BY <1>1, <2>1 DEF HoldsInv, CutOnceConsumed
  <2>3. cuts'[i] > 1
      BY <1>1, <1>2, <1>3, <2>2
  <2>4. reservation'[i] = hold /\ hold.roll = r
      BY <1>1, <1>2, <1>3
  <2> QED BY <1>1, <2>3, <2>4 DEF Recut
<1>13. ASSUME NEW s \in Rolls
       PROVE  /\ ~Recut(s)' => reservedQuantity'[s] = LiveHolds(s)'
              /\ reservedQuantity'[s] <= LiveHolds(s)'
  <2>1. /\ ~Recut(s) => reservedQuantity[s] = LiveHolds(s)
        /\ reservedQuantity[s] <= LiveHolds(s)
        /\ reservedQuantity[s] \in Nat
      BY <1>3 DEF HoldsInv, HoldsExactUnlessRecut, NoPhantomHold
  <2>2. CASE s # r
      BY <1>2, <1>3, <1>7, <1>10, <2>1, <2>2
  <2>3. CASE s = r
    <3>1. reservedQuantity'[r] = IF reservedQuantity[r] > m
                                 THEN reservedQuantity[r] - m ELSE 0
        BY <1>1, <1>2, <1>3 DEF ReservedAfterCut
    <3>2. CASE i \in LiveOn(r)
        BY <1>1, <1>7, <1>11, <2>1, <2>3, <3>1, <3>2
    <3>3. CASE i \notin LiveOn(r)
        BY <1>1, <1>11, <1>12, <2>1, <2>3, <3>1, <3>3
    <3> QED BY <3>2, <3>3
  <2> QED BY <2>2, <2>3
<1>14. HoldsExactUnlessRecut' /\ NoPhantomHold'
    BY <1>13 DEF HoldsExactUnlessRecut, NoPhantomHold
<1> QED BY <1>4, <1>5, <1>6, <1>14 DEF HoldsInv

\* Only a checkout and a cut change the holds.
LEMMA OtherSteps ==
    ASSUME Next,
           ~\E i \in Items, r \in Rolls, m \in Quantities : Reserve(i, r, m),
           ~\E w \in Workers : CutCommit(w)
    PROVE  UNCHANGED <<reservedQuantity, reservation, cuts>>
BY DEF Next, CreateBatch, FifoConsume, ConsumeExplicit, TakeFromRolls, AdjustBatch,
       CutRead, CutRejected, TransferRead, TransferMerge, TransferRejected,
       TransferDeadlock

\* Every step keeps the invariant of the holds.
LEMMA NextHolds == HoldsInv /\ [Next]_vars => HoldsInv'
<1> SUFFICES ASSUME HoldsInv, [Next]_vars PROVE HoldsInv'
    OBVIOUS
<1>1. StockInv'
    BY NextInv DEF HoldsInv
<1>2. CASE \E i \in Items, r \in Rolls, m \in Quantities : Reserve(i, r, m)
    BY <1>2, ReserveHolds
<1>3. CASE \E w \in Workers : CutCommit(w)
    BY <1>3, CutHolds
<1>4. CASE UNCHANGED vars
    BY <1>1, <1>4, HoldsKept DEF vars
<1> QED BY <1>1, <1>2, <1>3, <1>4, OtherSteps, HoldsKept

\* Sales, cuts, transfers and corrections keep, in every interleaving, what the sums
\* of the holds rest on: each consumed hold was cut, and there are finitely many.
THEOREM HoldsInvariant == Spec => []HoldsInv
<1> QED BY InitHolds, NextHolds, PTL DEF Spec

\* What a roll promises is the sum of its live holds, unless racing tablets cut
\* an item of it twice: no other interleaving loses or invents a promise.
THEOREM PromisesAreHolds == Spec => []HoldsExactUnlessRecut
<1>1. HoldsInv => HoldsExactUnlessRecut
    BY DEF HoldsInv
<1> QED BY <1>1, HoldsInvariant, PTL

\* Not even a double cut leaves metres promised that no hold stands for.
THEOREM NoMetresKeptForNobody == Spec => []NoPhantomHold
<1>1. HoldsInv => NoPhantomHold
    BY DEF HoldsInv
<1> QED BY <1>1, HoldsInvariant, PTL

\* The step of production that the margin theorem is about: a checkout leaves the
\* minimum, and a cut of a live hold takes from roll and promise alike.
LEMMA MarginStep ==
    ASSUME HoldsInv, [Next]_vars, reservation' # reservation,
           NEW x \in Rolls, Margin(x) >= MinUsable, ~Recut(x)
    PROVE  Margin(x)' >= MinUsable
<1> USE StockAssumption
<1>1. /\ currentQuantity \in [Rolls -> Nat]
      /\ reservedQuantity \in [Rolls -> Nat]
      /\ reservation \in [Items -> Reservation \cup {None}]
    BY DEF HoldsInv, StockInv, TypeOK, Metres
<1>2. ASSUME NEW i \in Items, NEW r \in Rolls, NEW m \in Quantities, Reserve(i, r, m)
      PROVE  Margin(x)' >= MinUsable
    BY <1>1, <1>2 DEF Reserve, CanCutFrom, Margin
<1>3. ASSUME NEW w \in Workers, CutCommit(w)
      PROVE  Margin(x)' >= MinUsable
  <2> DEFINE i == cutting[w]
             r == reservation[i].roll
             m == reservation[i].metres
  <2>1. /\ i \in Items /\ reservation[i] \in Reservation /\ reservation[i] # None
      BY <1>3 DEF CutCommit, HoldsInv, StockInv, TypeOK, CutsValid
  <2>2. r \in Rolls /\ m \in Nat
    <3>1. r \in Rolls /\ m \in Quantities
        BY <2>1 DEF Reservation
    <3>2. \A q \in Quantities : q \in Nat
        OBVIOUS
    <3> QED BY <3>1, <3>2
  <2>3. /\ currentQuantity' = [currentQuantity EXCEPT ![r] = @ - m]
        /\ reservedQuantity' =
              [reservedQuantity EXCEPT ![r] = ReservedAfterCut(reservedQuantity[r], m)]
        /\ reservation' = [reservation EXCEPT ![i] =
              [roll |-> r, metres |-> m, status |-> "consumed"]]
      BY <1>3 DEF CutCommit, CutBalances
  <2>4. reservation[i].status = "reserved"
    <3>1. SUFFICES ASSUME reservation[i].status = "consumed" PROVE FALSE
        BY <2>1 DEF Reservation
    <3>2. reservation[i] = [roll |-> r, metres |-> m, status |-> "consumed"]
        BY <2>1, <3>1 DEF Reservation
    <3> QED BY <1>1, <2>1, <2>3, <3>2
  <2>5. CASE x = r
    <3>1. i \in LiveOn(r)
        BY <2>1, <2>4 DEF LiveOn
    <3>2. reservedQuantity[r] = Holds(reservation, LiveOn(r))
        BY <2>2, <2>5, LiveSums DEF HoldsInv, HoldsExactUnlessRecut
    <3>3. /\ IsFiniteSet(LiveOn(r)) /\ \A j \in LiveOn(r) : reservation[j].metres \in Nat
        BY LiveFacts DEF HoldsInv
    <3>4. Holds(reservation, LiveOn(r)) = m + Holds(reservation, LiveOn(r) \ {i})
        BY <3>1, <3>3, HoldsRemove
    <3>5. Holds(reservation, LiveOn(r) \ {i}) \in Nat
      <4>1. IsFiniteSet(LiveOn(r) \ {i})
          BY <3>3, FS_Subset
      <4> QED BY <3>3, <4>1, HoldsRemove
    <3>6. reservedQuantity[r] >= m
        BY <2>2, <3>2, <3>4, <3>5
    <3> HIDE DEF r, m, i
    <3>7. currentQuantity'[r] = currentQuantity[r] - m
        BY <1>1, <2>2, <2>3
    <3>8. reservedQuantity'[r] = reservedQuantity[r] - m
        BY <1>1, <2>2, <2>3, <3>6 DEF ReservedAfterCut
    <3> QED BY <1>1, <2>2, <2>5, <3>7, <3>8 DEF Margin
  <2>6. CASE x # r
      BY <1>1, <2>2, <2>3, <2>6 DEF Margin
  <2> QED BY <2>5, <2>6
<1> QED BY <1>2, <1>3, OtherSteps DEF vars

\* Making a hold or cutting one never takes a roll below its usable minimum: only
\* walk-in sales, corrections and transfers do.
THEOREM ProductionLeavesMinimum == Spec => ProductionKeepsMargin
<1>1. HoldsInv /\ [Next]_vars =>
        [reservation' # reservation =>
            \A r \in Rolls : Margin(r) >= MinUsable /\ ~Recut(r)
                                => Margin(r)' >= MinUsable]_vars
    BY MarginStep
<1> QED BY <1>1, HoldsInvariant, PTL DEF Spec, ProductionKeepsMargin

-----------------------------------------------------------------------------
\* The appointments.

Booking == {k \in Calls : call[k].op = "book"}

\* Every booking that is checked has room to be written.
RoomToWrite == IsFiniteSet(Booking) /\ Cardinality(Booking) + Len(appointments) <= MaxBookings

\* What a request has checked held when it did, or two appointments overlapped then.
ChecksHeld ==
  \A k \in Calls :
    /\ call[k].op \in {"book", "move"} => call[k].clear \/ call[k].tangled
    /\ call[k].op \in {"move", "cancel"} => call[k].id \in Ids

\* The slot that is chosen is one of the day on show, or known not to be.
SlotOfTheDay ==
  \A c \in Clients :
    page[c].slot # NoSlot => Day(page[c].slot) = page[c].date \/ page[c].mispicked

ApptInv ==
  /\ ApptTypeOK
  /\ RoomToWrite
  /\ ChecksHeld
  /\ NoDoubleBooking
  /\ SlotOfTheDay
  /\ BooksTheDayShown

-----------------------------------------------------------------------------
LEMMA AppointmentTyped ==
  ASSUME ApptTypeOK
  PROVE  /\ Ids = 1 .. Len(appointments) /\ Len(appointments) \in Nat
         /\ \A i \in Ids :
              /\ appointments[i] \in Appointment
              /\ appointments[i].at \in Nat /\ appointments[i].len \in Nat \ {0}
              /\ appointments[i].status \in Statuses
<1>1. /\ Ids = 1 .. Len(appointments) /\ Len(appointments) \in Nat
      /\ \A i \in Ids : appointments[i] \in Appointment
  BY DEF ApptTypeOK, Ids
<1>2. Times \subseteq Nat /\ Durations \subseteq Nat \ {0}
  BY AppointmentsAssumption DEF Times
<1> QED BY <1>1, <1>2 DEF Appointment

LEMMA CallTyped ==
  ASSUME ApptTypeOK, NEW k \in Calls
  PROVE  /\ call[k].op = "book" => call[k] \in BookCall
         /\ call[k].op = "move" => call[k] \in MoveCall
         /\ call[k].op = "cancel" => call[k] \in CancelCall
         /\ call[k] = NoCall => call[k].op = "none"
  BY DEF ApptTypeOK, BookCall, MoveCall, CancelCall, NoCall

\* A time lies in one of the days.
LEMMA DayTyped == \A t \in Times : Day(t) \in 0 .. Days - 1
<1> SUFFICES ASSUME NEW t \in Times PROVE Day(t) \in 0 .. Days - 1
  OBVIOUS
<1>1. t \in Nat /\ Days \in Nat \ {0} /\ DayLength \in Nat \ {0}
  BY AppointmentsAssumption DEF Times
<1>2. t < Days * DayLength
  BY <1>1 DEF Times
<1>3. t \div DayLength \in Nat
  BY <1>1
<1>4. (t \div DayLength) * DayLength <= t
  BY <1>1
<1>5. t \div DayLength < Days
  BY <1>1, <1>2, <1>3, <1>4
<1> QED BY <1>1, <1>3, <1>5 DEF Day

LEMMA OfferedTyped == ASSUME NEW d \in 0 .. Days - 1 PROVE Offered(d) \subseteq Times
<1>1. Days \in Nat \ {0} /\ DayLength \in Nat \ {0} /\ Opens \in Nat /\ Closes \in Nat
      /\ Closes <= DayLength
  BY AppointmentsAssumption
<1>2. d * DayLength \in Nat /\ d * DayLength + DayLength <= Days * DayLength
      /\ Days * DayLength \in Nat
  BY <1>1
<1> QED BY <1>1, <1>2 DEF Offered, Times

\* The check looks at the last appointment to start only: that is enough as long as no
\* two appointments overlap.
LEMMA CheckSound ==
  ASSUME ApptTypeOK, NEW t \in Nat, NEW len \in Nat, NEW except,
         SlotFree(t, len, except), ~Tangled
  PROVE  Clashes(t, len, except) = {}
<1> DEFINE earlier == {i \in LiveIds \ except : StartsBefore(appointments[i], t, len)}
<1>1. SUFFICES ASSUME NEW j \in Clashes(t, len, except) PROVE FALSE
  OBVIOUS
<1>2. j \in earlier /\ t < End(appointments[j])
  BY <1>1 DEF Clashes, Meets, StartsBefore
<1>3. PICK i \in earlier : /\ \A n \in earlier : appointments[n].at <= appointments[i].at
                           /\ End(appointments[i]) <= t
  BY <1>2 DEF SlotFree
<1>4. i \in LiveIds /\ j \in LiveIds /\ i \in Ids /\ j \in Ids
  BY <1>2, <1>3 DEF LiveIds
<1>5. /\ appointments[i].at \in Nat /\ appointments[i].len \in Nat \ {0}
      /\ appointments[j].at \in Nat /\ appointments[j].len \in Nat \ {0}
  BY <1>4, AppointmentTyped
<1>6. appointments[j].at <= appointments[i].at
  BY <1>2, <1>3
<1>7. i # j /\ Overlap(j, i)
  BY <1>2, <1>3, <1>5, <1>6 DEF Overlap, Meets, End
<1> QED BY <1>4, <1>7 DEF Tangled

LEMMA InitAppt == ApptInit => ApptInv
<1> SUFFICES ASSUME ApptInit PROVE ApptInv
  OBVIOUS
<1> USE AppointmentsAssumption DEF ApptInit
<1>1. appointments \in Seq(Appointment) /\ Ids = {} /\ Len(appointments) = 0
  BY DEF Ids
<1>2. ApptTypeOK
  BY <1>1 DEF ApptTypeOK, Page, NoSlot, Ids
<1>3. RoomToWrite
  <2>1. Booking = {}
    BY DEF Booking, NoCall
  <2> QED BY <1>1, <2>1, FS_EmptySet DEF RoomToWrite
<1>4. ChecksHeld /\ BooksTheDayShown
  BY DEF ChecksHeld, BooksTheDayShown, NoCall
<1>5. NoDoubleBooking
  BY <1>1 DEF NoDoubleBooking, LiveIds
<1>6. SlotOfTheDay
  BY DEF SlotOfTheDay
<1> QED BY <1>2, <1>3, <1>4, <1>5, <1>6 DEF ApptInv

-----------------------------------------------------------------------------
\* The page of one customer changes.
LEMMA PageKeeps ==
  ASSUME ApptInv, NEW c \in Clients,
         \/ \E d \in 0 .. Days - 1 : ChooseDate(c, d)
         \/ \E d \in page[c].asked : ShowSlots(c, d)
         \/ \E t \in page[c].slots : PickSlot(c, t)
  PROVE  ApptInv'
<1>1. UNCHANGED <<appointments, call, now, edits, excused>>
  BY DEF ChooseDate, ShowSlots, PickSlot
<1>2. page[c] \in Page
  BY DEF ApptInv, ApptTypeOK
<1>3. page' \in [Clients -> Page] /\ SlotOfTheDay'
  <2>1. ASSUME NEW d \in 0 .. Days - 1, ChooseDate(c, d)
        PROVE  page' \in [Clients -> Page] /\ SlotOfTheDay'
    <3>1. page' = [page EXCEPT ![c] = [page[c] EXCEPT !.turns = @ + 1, !.date = d,
                                           !.asked = @ \cup {d}, !.slot = NoSlot]]
      BY <1>2, <2>1 DEF ChooseDate, SlotAfterDate, ApptInv, ApptTypeOK
    <3>2. page[c].turns + 1 \in 0 .. MaxTurns
      <4>1. page[c].turns \in 0 .. MaxTurns
        BY <1>2 DEF Page
      <4>2. page[c].turns < MaxTurns /\ MaxTurns \in Nat
        BY <2>1, AppointmentsAssumption DEF ChooseDate
      <4> QED BY <4>1, <4>2
    <3>3. [page[c] EXCEPT !.turns = @ + 1, !.date = d, !.asked = @ \cup {d}, !.slot = NoSlot]
             \in Page
      BY <1>2, <3>2 DEF Page
    <3>4. \A e \in Clients : e # c => page'[e] = page[e]
      BY <3>1 DEF ApptInv, ApptTypeOK
    <3>5. page'[c].slot = NoSlot
      BY <1>2, <3>1 DEF ApptInv, ApptTypeOK, Page
    <3> QED BY <3>1, <3>3, <3>4, <3>5 DEF ApptInv, ApptTypeOK, SlotOfTheDay
  <2>2. ASSUME NEW d \in page[c].asked, ShowSlots(c, d)
        PROVE  page' \in [Clients -> Page] /\ SlotOfTheDay'
    <3>1. Offered(d) \subseteq Times
      BY <1>2, OfferedTyped DEF Page
    <3>2. page' = [page EXCEPT ![c] = [page[c] EXCEPT !.asked = @ \ {d}, !.slots = Offered(d)]]
      BY <1>2, <2>2 DEF ShowSlots, ApptInv, ApptTypeOK
    <3>3. [page[c] EXCEPT !.asked = @ \ {d}, !.slots = Offered(d)] \in Page
      BY <1>2, <3>1 DEF Page
    <3>4. \A e \in Clients : /\ page'[e].slot = page[e].slot /\ page'[e].date = page[e].date
                             /\ page'[e].mispicked = page[e].mispicked
      BY <1>2, <3>2 DEF ApptInv, ApptTypeOK, Page
    <3> QED BY <3>2, <3>3, <3>4 DEF ApptInv, ApptTypeOK, SlotOfTheDay
  <2>3. ASSUME NEW t \in page[c].slots, PickSlot(c, t)
        PROVE  page' \in [Clients -> Page] /\ SlotOfTheDay'
    <3>1. page' = [page EXCEPT ![c] = [page[c] EXCEPT !.slot = t,
                                           !.mispicked = Day(t) # page[c].date]]
      BY <1>2, <2>3 DEF PickSlot, ApptInv, ApptTypeOK
    <3>2. [page[c] EXCEPT !.slot = t, !.mispicked = Day(t) # page[c].date] \in Page
      BY <1>2 DEF Page
    <3>3. \A e \in Clients : e # c => page'[e] = page[e]
      BY <3>1 DEF ApptInv, ApptTypeOK
    <3>4. /\ page'[c].slot = t /\ page'[c].date = page[c].date
          /\ page'[c].mispicked = (Day(t) # page[c].date)
      BY <1>2, <3>1 DEF ApptInv, ApptTypeOK, Page
    <3> QED BY <3>1, <3>2, <3>3, <3>4 DEF ApptInv, ApptTypeOK, SlotOfTheDay
  <2> QED BY <2>1, <2>2, <2>3
<1>4. ApptTypeOK'
  BY <1>1, <1>3 DEF ApptInv, ApptTypeOK
<1>5. RoomToWrite' /\ ChecksHeld' /\ BooksTheDayShown' /\ NoDoubleBooking'
  BY <1>1 DEF ApptInv, RoomToWrite, Booking, ChecksHeld, Ids, BooksTheDayShown,
              NoDoubleBooking, LiveIds, Overlap, Meets, End
<1> QED BY <1>3, <1>4, <1>5 DEF ApptInv

-----------------------------------------------------------------------------
\* A request is checked: its check held, or it was made on a tangled store.
LEMMA ApptRequest ==
  ASSUME ApptInv, NEW k \in Calls, NEW what, Request(k, what), what # NoCall
  PROVE  /\ call[k] = NoCall
         /\ \A q \in Calls : call'[q] = IF q = k THEN what ELSE call[q]
         /\ call'[k] = what
  BY DEF Request, ApptInv, ApptTypeOK

LEMMA BookKeeps ==
  ASSUME ApptInv, NEW k \in Calls, NEW c \in Clients, NEW t \in Times, NEW len \in Durations,
         NEW onDay \in 0 .. Days - 1, NEW mispicked \in BOOLEAN,
         Day(t) = onDay \/ mispicked,
         Book(k, c, t, len, onDay, mispicked),
         UNCHANGED <<appointments, page, now, edits, excused>>
  PROVE  ApptInv'
<1> DEFINE new == [customer |-> c, at |-> t, len |-> len, status |-> "scheduled"]
           what == [op |-> "book", new |-> new,
                    clear |-> Clashes(t, len, {}) = {}, tangled |-> Tangled,
                    shown |-> onDay, mispicked |-> mispicked]
<1>1. new \in Appointment /\ new.at = t
  BY DEF Appointment, Statuses
<1> HIDE DEF new
<1>2. /\ what \in BookCall /\ what.op = "book" /\ what.new = new /\ what.shown = onDay
      /\ what.mispicked = mispicked
      /\ what.clear = (Clashes(t, len, {}) = {}) /\ what.tangled = Tangled
  BY <1>1 DEF BookCall, Tangled
<1>3. Request(k, what) /\ SlotFree(t, len, {}) /\ Free
  BY DEF Book, new
<1> HIDE DEF what
<1>4. /\ call[k] = NoCall
      /\ \A q \in Calls : call'[q] = IF q = k THEN what ELSE call[q]
      /\ call' = [call EXCEPT ![k] = what]
  BY <1>2, <1>3 DEF Request, ApptInv, ApptTypeOK
<1>5. ApptTypeOK'
  BY <1>2, <1>4 DEF ApptInv, ApptTypeOK
<1>6. RoomToWrite'
  <2>1. Booking' = Booking \cup {k}
    BY <1>2, <1>4 DEF Booking
  <2>2. IsFiniteSet(Booking) /\ Cardinality(Booking) \in Nat
    BY FS_CardinalityType DEF ApptInv, RoomToWrite
  <2>3. /\ IsFiniteSet(Booking \cup {k})
        /\ Cardinality(Booking \cup {k}) <= Cardinality(Booking) + 1
    <3>1. /\ IsFiniteSet(Booking \cup {k})
          /\ Cardinality(Booking \cup {k}) = IF k \in Booking THEN Cardinality(Booking)
                                             ELSE Cardinality(Booking) + 1
      BY <2>2, FS_AddElement
    <3> QED BY <2>2, <3>1
  <2>4. Cardinality(Booking \cup {k}) \in Nat
    BY <2>3, FS_CardinalityType
  <2>5. Cardinality(Booking) + Len(appointments) < MaxBookings /\ Len(appointments) \in Nat
    BY <1>3, AppointmentTyped DEF Free, Booking, ApptInv
  <2>6. MaxBookings \in Nat
    BY AppointmentsAssumption
  <2>7. Cardinality(Booking \cup {k}) + Len(appointments) <= MaxBookings
    BY <2>2, <2>3, <2>4, <2>5, <2>6
  <2> QED BY <2>1, <2>3, <2>7 DEF RoomToWrite
<1>7. what.clear \/ what.tangled
  <2>1. t \in Nat /\ len \in Nat
    BY AppointmentsAssumption DEF Times
  <2> QED BY <1>2, <1>3, <2>1, CheckSound DEF ApptInv
<1>8. ChecksHeld' /\ BooksTheDayShown'
  BY <1>1, <1>2, <1>4, <1>7 DEF ApptInv, ChecksHeld, BooksTheDayShown, Ids
<1>9. NoDoubleBooking' /\ SlotOfTheDay'
  BY DEF ApptInv, NoDoubleBooking, LiveIds, Ids, Overlap, Meets, End, SlotOfTheDay
<1> QED BY <1>5, <1>6, <1>8, <1>9 DEF ApptInv

LEMMA BookingsKeep ==
  ASSUME ApptInv, NEW k \in Calls, NEW c \in Clients,
         Confirm(k, c) \/ \E t \in Times, len \in Durations : BookAnyTime(k, c, t, len)
  PROVE  ApptInv'
<1>1. CASE Confirm(k, c)
  <2>1. page[c] \in Page /\ page[c].slot # NoSlot
    BY <1>1 DEF Confirm, ApptInv, ApptTypeOK
  <2>2. /\ page[c].slot \in Times /\ page[c].date \in 0 .. Days - 1
        /\ page[c].mispicked \in BOOLEAN
    BY <2>1 DEF Page
  <2>3. Day(page[c].slot) = page[c].date \/ page[c].mispicked
    BY <2>1 DEF ApptInv, SlotOfTheDay
  <2>4. 1 \in Durations
    BY AppointmentsAssumption
  <2> QED BY <1>1, <2>2, <2>3, <2>4, BookKeeps DEF Confirm
<1>2. ASSUME NEW t \in Times, NEW len \in Durations, BookAnyTime(k, c, t, len)
      PROVE  ApptInv'
  BY <1>2, DayTyped, BookKeeps DEF BookAnyTime
<1> QED BY <1>1, <1>2

\* The customer asks to cancel or to move.
LEMMA AskKeeps ==
  ASSUME ApptInv, NEW k \in Calls, NEW i \in Ids,
         AskCancel(k, i) \/ \E t \in Times : AskMove(k, i, t)
  PROVE  ApptInv'
<1>1. /\ Edit /\ UNCHANGED <<appointments, page, now, excused>>
      /\ \E what \in MoveCall \cup CancelCall :
           /\ Request(k, what) /\ what.id \in Ids
           /\ what.op = "move" => what.clear \/ what.tangled
  <2>1. i \in 1 .. MaxBookings
    <3>1. Cardinality(Booking) \in Nat /\ Cardinality(Booking) + Len(appointments) <= MaxBookings
      BY FS_CardinalityType DEF ApptInv, RoomToWrite
    <3> QED BY <3>1, AppointmentTyped, AppointmentsAssumption DEF ApptInv
  <2>2. CASE AskCancel(k, i)
    <3>1. [op |-> "cancel", id |-> i] \in CancelCall
      BY <2>1 DEF CancelCall
    <3> QED BY <2>2, <3>1 DEF AskCancel
  <2>3. ASSUME NEW t \in Times, AskMove(k, i, t)
        PROVE  /\ Edit /\ UNCHANGED <<appointments, page, now, excused>>
               /\ \E what \in MoveCall \cup CancelCall :
                    /\ Request(k, what) /\ what.id \in Ids
                    /\ what.op = "move" => what.clear \/ what.tangled
    <3> DEFINE what == [op |-> "move", id |-> i, at |-> t,
                        clear |-> Clashes(t, appointments[i].len, {i}) = {},
                        tangled |-> Tangled]
    <3>1. what \in MoveCall /\ what.id = i
          /\ what.clear = (Clashes(t, appointments[i].len, {i}) = {})
          /\ what.tangled = Tangled
      BY <2>1 DEF MoveCall, Tangled
    <3>2. t \in Nat /\ appointments[i].len \in Nat
      BY AppointmentsAssumption, AppointmentTyped DEF Times, ApptInv
    <3>3. SlotFree(t, appointments[i].len, {i}) /\ Request(k, what)
      BY <2>3 DEF AskMove
    <3>4. what.clear \/ what.tangled
      BY <3>1, <3>2, <3>3, CheckSound DEF ApptInv
    <3> HIDE DEF what
    <3> QED BY <2>3, <3>1, <3>3, <3>4 DEF AskMove
  <2> QED BY <2>2, <2>3
<1>2. PICK what \in MoveCall \cup CancelCall :
        /\ Request(k, what) /\ what.id \in Ids
        /\ what.op = "move" => what.clear \/ what.tangled
  BY <1>1
<1>3. what.op \in {"move", "cancel"}
  BY DEF MoveCall, CancelCall
<1>4. /\ call[k].op = "none"
      /\ \A q \in Calls : call'[q] = IF q = k THEN what ELSE call[q]
      /\ call' = [call EXCEPT ![k] = what]
  BY <1>2 DEF Request, ApptInv, ApptTypeOK, NoCall
<1>5. ApptTypeOK'
  <2>1. edits' \in 0 .. MaxEdits
    BY <1>1, AppointmentsAssumption DEF Edit, ApptInv, ApptTypeOK
  <2> QED BY <1>1, <1>4, <2>1 DEF ApptInv, ApptTypeOK
<1>6. RoomToWrite'
  <2>1. Booking' = Booking
    BY <1>3, <1>4 DEF Booking
  <2> QED BY <1>1, <2>1 DEF ApptInv, RoomToWrite
<1>7. ChecksHeld' /\ BooksTheDayShown'
  BY <1>1, <1>2, <1>3, <1>4 DEF ApptInv, ChecksHeld, BooksTheDayShown, Ids
<1>8. NoDoubleBooking' /\ SlotOfTheDay'
  BY <1>1 DEF ApptInv, NoDoubleBooking, LiveIds, Ids, Overlap, Meets, End, SlotOfTheDay
<1> QED BY <1>5, <1>6, <1>7, <1>8 DEF ApptInv

-----------------------------------------------------------------------------
\* One appointment is written; of the others nothing changes.  It overlaps none of them,
\* or it is excused.
LEMMA OneWritten ==
  ASSUME ApptInv, ApptTypeOK', NEW n,
         \A i \in Ids \ {n} : i \in Ids' /\ appointments'[i] = appointments[i],
         Ids' \subseteq Ids \cup {n},
         excused \ {n} \subseteq excused',
         n \in LiveIds' /\ n \notin excused' =>
           \A j \in LiveIds \ {n} : ~Meets(appointments[j], appointments'[n].at, appointments'[n].len)
  PROVE  NoDoubleBooking'
<1>1. \A i \in LiveIds' : i # n => i \in LiveIds /\ appointments'[i] = appointments[i]
  BY DEF LiveIds
<1>2. SUFFICES ASSUME NEW i \in LiveIds', NEW j \in LiveIds', i # j, Overlap(i, j)',
                      i \notin excused', j \notin excused'
               PROVE  FALSE
  BY DEF NoDoubleBooking
<1>3. Overlap(j, i)'
  BY <1>2 DEF Overlap, Meets, End
<1>4. CASE i = n
  <2>1. j \in LiveIds \ {n} /\ appointments'[j] = appointments[j]
    BY <1>1, <1>2, <1>4
  <2>2. Meets(appointments[j], appointments'[n].at, appointments'[n].len)
    BY <1>3, <1>4, <2>1 DEF Overlap, Meets, End
  <2> QED BY <1>2, <1>4, <2>1, <2>2
<1>5. CASE j = n
  <2>1. i \in LiveIds \ {n} /\ appointments'[i] = appointments[i]
    BY <1>1, <1>2, <1>5
  <2>2. Meets(appointments[i], appointments'[n].at, appointments'[n].len)
    BY <1>2, <1>5, <2>1 DEF Overlap, Meets, End
  <2> QED BY <1>2, <1>5, <2>1, <2>2
<1>6. CASE i # n /\ j # n
  <2>1. /\ i \in LiveIds /\ j \in LiveIds
        /\ appointments'[i] = appointments[i] /\ appointments'[j] = appointments[j]
    BY <1>1, <1>2, <1>6
  <2>2. Overlap(i, j) /\ i \notin excused /\ j \notin excused
    BY <1>2, <1>6, <2>1 DEF Overlap, Meets, End
  <2> QED BY <1>2, <2>1, <2>2 DEF ApptInv, NoDoubleBooking
<1> QED BY <1>4, <1>5, <1>6

\* The requests that wait stay as they were; this one is done.
LEMMA RequestDone ==
  ASSUME ApptInv, NEW k \in Calls, call' = [call EXCEPT ![k] = NoCall],
         Ids \subseteq Ids'
  PROVE  /\ call' \in [Calls -> BookCall \cup MoveCall \cup CancelCall \cup {NoCall}]
         /\ ChecksHeld' /\ BooksTheDayShown'
         /\ Booking' = Booking \ {k}
<1>1. \A q \in Calls : call'[q] = IF q = k THEN NoCall ELSE call[q]
  BY DEF ApptInv, ApptTypeOK
<1>2. call' \in [Calls -> BookCall \cup MoveCall \cup CancelCall \cup {NoCall}]
  BY DEF ApptInv, ApptTypeOK
<1>3. Booking' = Booking \ {k}
  BY <1>1 DEF Booking, NoCall
<1> QED BY <1>1, <1>2, <1>3 DEF ApptInv, ChecksHeld, BooksTheDayShown, NoCall

LEMMA WriteBookingKeeps ==
  ASSUME ApptInv, NEW k \in Calls, WriteBooking(k)
  PROVE  ApptInv'
<1> DEFINE new == call[k].new
           n == Len(appointments) + 1
<1>1. /\ call[k].op = "book" /\ call' = [call EXCEPT ![k] = NoCall]
      /\ appointments' = Append(appointments, new)
      /\ excused' = Excuses(n, k)
      /\ UNCHANGED <<page, now, edits>>
  BY DEF WriteBooking
<1>2. new \in Appointment
  BY <1>1, CallTyped DEF BookCall, ApptInv
<1> HIDE DEF new
<1>3. Ids = 1 .. Len(appointments) /\ Len(appointments) \in Nat
  BY AppointmentTyped DEF ApptInv
<1>4. /\ appointments' \in Seq(Appointment) /\ Ids' = Ids \cup {n} /\ n \notin Ids
      /\ Len(appointments') = n
      /\ \A i \in Ids : appointments'[i] = appointments[i]
      /\ appointments'[n] = new
  BY <1>1, <1>2, <1>3 DEF ApptInv, ApptTypeOK, Ids
<1>5. /\ call' \in [Calls -> BookCall \cup MoveCall \cup CancelCall \cup {NoCall}]
      /\ ChecksHeld' /\ BooksTheDayShown'
      /\ Booking' = Booking \ {k}
  BY <1>1, <1>4, RequestDone
<1>6. excused \subseteq excused' /\ excused' \subseteq excused \cup {n}
  BY <1>1 DEF Excuses
<1>7. ApptTypeOK'
  BY <1>1, <1>4, <1>5, <1>6 DEF ApptInv, ApptTypeOK, Ids
<1>8. RoomToWrite'
  <2>1. k \in Booking
    BY <1>1 DEF Booking
  <2>2. IsFiniteSet(Booking) /\ Cardinality(Booking) \in Nat
    BY FS_CardinalityType DEF ApptInv, RoomToWrite
  <2>3. IsFiniteSet(Booking \ {k}) /\ Cardinality(Booking \ {k}) = Cardinality(Booking) - 1
    BY <2>1, <2>2, FS_RemoveElement
  <2> QED BY <1>3, <1>4, <1>5, <2>2, <2>3, AppointmentsAssumption DEF ApptInv, RoomToWrite
<1>9. n \notin excused' =>
        \A j \in LiveIds \ {n} : ~Meets(appointments[j], appointments'[n].at, appointments'[n].len)
  BY <1>1 DEF Excuses, Clashes, ApptInv, ChecksHeld
<1>10. NoDoubleBooking'
  <2> HIDE DEF n
  <2> QED BY <1>4, <1>6, <1>7, <1>9, OneWritten
<1>11. SlotOfTheDay'
  BY <1>1 DEF ApptInv, SlotOfTheDay
<1> QED BY <1>5, <1>7, <1>8, <1>10, <1>11 DEF ApptInv

\* A cancellation, a move, a status the staff sets: one appointment is written again.
LEMMA Rewritten ==
  ASSUME ApptInv, NEW n \in Ids, NEW a \in Appointment,
         appointments' = [appointments EXCEPT ![n] = a]
  PROVE  /\ appointments' \in Seq(Appointment) /\ Ids' = Ids
         /\ Len(appointments') = Len(appointments)
         /\ appointments'[n] = a
         /\ \A i \in Ids \ {n} : appointments'[i] = appointments[i]
<1>1. Ids = 1 .. Len(appointments) /\ Len(appointments) \in Nat
  BY AppointmentTyped DEF ApptInv
<1> QED BY <1>1 DEF ApptInv, ApptTypeOK, Ids

LEMMA WriteChangeKeeps ==
  ASSUME ApptInv, NEW k \in Calls, WriteCancel(k) \/ WriteMove(k)
  PROVE  ApptInv'
<1> DEFINE n == call[k].id
<1>1. /\ call[k].op \in {"move", "cancel"} /\ call' = [call EXCEPT ![k] = NoCall]
      /\ UNCHANGED <<page, now, edits>>
  BY DEF WriteCancel, WriteMove
<1>2. n \in Ids
  BY <1>1 DEF ApptInv, ChecksHeld
<1>3. appointments[n] \in Appointment
  BY <1>2, AppointmentTyped DEF ApptInv
<1>4. PICK a \in Appointment :
        /\ appointments' = [appointments EXCEPT ![n] = a]
        /\ WriteCancel(k) => a.status = "cancelled"
  <2>1. CASE WriteCancel(k)
    <3>1. [appointments[n] EXCEPT !.status = "cancelled"] \in Appointment
          /\ [appointments[n] EXCEPT !.status = "cancelled"].status = "cancelled"
      BY <1>3 DEF Appointment, Statuses
    <3>2. appointments' = [appointments EXCEPT ![n] =
                              [appointments[n] EXCEPT !.status = "cancelled"]]
      BY <1>2, <2>1 DEF WriteCancel, ApptInv, ApptTypeOK, Ids
    <3> QED BY <3>1, <3>2
  <2>2. CASE WriteMove(k)
    <3>1. call[k].at \in Times
      BY <2>2, CallTyped DEF WriteMove, MoveCall, ApptInv
    <3>2. [appointments[n] EXCEPT !.at = call[k].at, !.status = "scheduled"] \in Appointment
      BY <1>3, <3>1 DEF Appointment, Statuses
    <3>3. appointments' = [appointments EXCEPT ![n] =
                [appointments[n] EXCEPT !.at = call[k].at, !.status = "scheduled"]]
      BY <1>2, <2>2 DEF WriteMove, ApptInv, ApptTypeOK, Ids
    <3>4. ~WriteCancel(k)
      BY <2>2 DEF WriteMove, WriteCancel
    <3> QED BY <3>2, <3>3, <3>4
  <2> QED BY <2>1, <2>2
<1>5. /\ appointments' \in Seq(Appointment) /\ Ids' = Ids
      /\ Len(appointments') = Len(appointments)
      /\ appointments'[n] = a
      /\ \A i \in Ids \ {n} : appointments'[i] = appointments[i]
  <2> HIDE DEF n
  <2> QED BY <1>2, <1>4, Rewritten
<1>6. /\ call' \in [Calls -> BookCall \cup MoveCall \cup CancelCall \cup {NoCall}]
      /\ ChecksHeld' /\ BooksTheDayShown'
      /\ Booking' = Booking \ {k}
  BY <1>1, <1>5, RequestDone
<1>7. excused \ {n} \subseteq excused' /\ excused' \subseteq excused \cup {n}
  BY DEF WriteCancel, WriteMove, Excuses
<1>8. ApptTypeOK'
  BY <1>1, <1>2, <1>5, <1>6, <1>7 DEF ApptInv, ApptTypeOK, Ids
<1>9. RoomToWrite'
  <2>1. k \notin Booking
    BY <1>1 DEF Booking
  <2>2. Booking' = Booking
    BY <1>6, <2>1
  <2> QED BY <1>5, <2>2 DEF ApptInv, RoomToWrite
<1>10. n \in LiveIds' /\ n \notin excused' =>
         \A j \in LiveIds \ {n} : ~Meets(appointments[j], appointments'[n].at, appointments'[n].len)
  <2>1. CASE WriteCancel(k)
    BY <1>4, <1>5, <2>1 DEF LiveIds, Live
  <2>2. CASE WriteMove(k)
    BY <2>2 DEF WriteMove, Excuses, Clashes, ApptInv, ChecksHeld
  <2> QED BY <2>1, <2>2
<1>11. NoDoubleBooking'
  <2> HIDE DEF n
  <2> QED BY <1>2, <1>5, <1>7, <1>8, <1>10, OneWritten
<1>12. SlotOfTheDay'
  BY <1>1 DEF ApptInv, SlotOfTheDay
<1> QED BY <1>6, <1>8, <1>9, <1>11, <1>12 DEF ApptInv

LEMMA StaffKeeps ==
  ASSUME ApptInv, NEW n \in Ids, NEW wanted \in Statuses, UpdateForStaff(n, wanted)
  PROVE  ApptInv'
<1> DEFINE a == [appointments[n] EXCEPT !.status = wanted]
<1>1. /\ appointments' = [appointments EXCEPT ![n] = a]
      /\ edits < MaxEdits /\ edits' = edits + 1
      /\ UNCHANGED <<call, page, now>>
  BY AppointmentTyped DEF UpdateForStaff, Edit, ApptInv, ApptTypeOK, Ids
<1>2. /\ a \in Appointment /\ a.status = wanted
      /\ a.at = appointments[n].at /\ a.len = appointments[n].len
  <2>1. appointments[n] \in Appointment
    BY AppointmentTyped DEF ApptInv
  <2> QED BY <2>1 DEF Appointment
<1> HIDE DEF a
<1>3. /\ appointments' \in Seq(Appointment) /\ Ids' = Ids
      /\ Len(appointments') = Len(appointments)
      /\ appointments'[n] = a
      /\ \A i \in Ids \ {n} : appointments'[i] = appointments[i]
  BY <1>1, <1>2, Rewritten
<1>4. /\ excused \ {n} \subseteq excused' /\ excused' \subseteq excused \cup {n}
      /\ wanted \in Live /\ n \notin excused' => n \in LiveIds /\ n \notin excused
  <2>1. CASE wanted \notin Live
    BY <2>1 DEF UpdateForStaff
  <2>2. CASE wanted \in Live /\ n \notin LiveIds
    BY <2>2 DEF UpdateForStaff
  <2>3. CASE wanted \in Live /\ n \in LiveIds
    BY <2>3 DEF UpdateForStaff
  <2> QED BY <2>1, <2>2, <2>3
<1>5. ApptTypeOK'
  <2>1. edits' \in 0 .. MaxEdits
    BY <1>1, AppointmentsAssumption DEF ApptInv, ApptTypeOK
  <2> QED BY <1>1, <1>3, <1>4, <2>1 DEF ApptInv, ApptTypeOK, Ids
<1>6. RoomToWrite' /\ ChecksHeld' /\ BooksTheDayShown'
  BY <1>1, <1>3 DEF ApptInv, RoomToWrite, Booking, ChecksHeld, BooksTheDayShown
<1>7. SlotOfTheDay'
  BY <1>1 DEF ApptInv, SlotOfTheDay
<1>8. NoDoubleBooking'
  <2>1. CASE wanted \in Live /\ n \notin excused'
    <3>1. n \in LiveIds /\ n \notin excused /\ excused \subseteq excused'
      BY <1>4, <2>1
    <3>2. \A i \in LiveIds' : /\ i \in LiveIds /\ appointments'[i].at = appointments[i].at
                              /\ appointments'[i].len = appointments[i].len
      BY <1>2, <1>3, <3>1 DEF LiveIds
    <3> QED BY <3>1, <3>2 DEF ApptInv, NoDoubleBooking, Overlap, Meets, End
  <2>2. CASE wanted \notin Live \/ n \in excused'
    <3>1. n \in LiveIds' => n \in excused'
      BY <1>2, <1>3, <2>2 DEF LiveIds
    <3> QED BY <1>3, <1>4, <1>5, <3>1, OneWritten
  <2> QED BY <2>1, <2>2
<1> QED BY <1>5, <1>6, <1>7, <1>8 DEF ApptInv

LEMMA ApptStep == ApptInv /\ [ApptNext]_apptVars => ApptInv'
<1> SUFFICES ASSUME ApptInv, [ApptNext]_apptVars PROVE ApptInv'
  OBVIOUS
<1>1. CASE Tick
  <2>1. ApptTypeOK'
    BY <1>1, AppointmentsAssumption DEF Tick, ApptInv, ApptTypeOK, Ids
  <2> QED BY <1>1, <2>1
          DEF Tick, ApptInv, RoomToWrite, Booking, ChecksHeld, Ids, BooksTheDayShown,
              NoDoubleBooking, LiveIds, Overlap, Meets, End, SlotOfTheDay
<1>2. CASE UNCHANGED apptVars
  <2>1. ApptTypeOK'
    BY <1>2 DEF apptVars, ApptInv, ApptTypeOK, Ids
  <2> QED BY <1>2, <2>1
          DEF apptVars, ApptInv, RoomToWrite, Booking, ChecksHeld, Ids, BooksTheDayShown,
              NoDoubleBooking, LiveIds, Overlap, Meets, End, SlotOfTheDay
<1>3. ASSUME NEW c \in Clients,
             \/ \E d \in 0 .. Days - 1 : ChooseDate(c, d)
             \/ \E d \in page[c].asked : ShowSlots(c, d)
             \/ \E t \in page[c].slots : PickSlot(c, t)
             \/ \E k \in Calls :
                  \/ Confirm(k, c)
                  \/ \E t \in Times, len \in Durations : BookAnyTime(k, c, t, len)
      PROVE  ApptInv'
  BY <1>3, PageKeeps, BookingsKeep
<1>4. ASSUME NEW k \in Calls,
             \/ WriteBooking(k) \/ WriteCancel(k) \/ WriteMove(k)
             \/ \E i \in Ids : \/ AskCancel(k, i)
                               \/ \E t \in Times : AskMove(k, i, t)
      PROVE  ApptInv'
  BY <1>4, WriteBookingKeeps, WriteChangeKeeps, AskKeeps
<1>5. ASSUME NEW i \in Ids, NEW wanted \in Statuses, UpdateForStaff(i, wanted)
      PROVE  ApptInv'
  BY <1>5, StaffKeeps
<1> QED BY <1>1, <1>2, <1>3, <1>4, <1>5 DEF ApptNext

\* However bookings, moves, cancellations and the staff's changes interleave, what a
\* request has read before it writes stays as good as the inductive invariant says.
THEOREM ApptInvariant == ApptSpec => []ApptInv
  BY InitAppt, ApptStep, PTL DEF ApptSpec

\* Every appointment, page and booking request keeps its type, and no visit runs
\* past the end of its day.
THEOREM ApptTypesHold == ApptSpec => []ApptTypeOK
<1>1. ApptInv => ApptTypeOK
  BY DEF ApptInv
<1> QED BY <1>1, ApptInvariant, PTL

\* assertSlotFree looks at the latest-starting neighbour only, and before the write;
\* even so two live appointments overlap only where one was checked before the other
\* was written, came back to life by the staff, or slipped in behind such a pair.
THEOREM DoubleBookingsExcused == ApptSpec => []NoDoubleBooking
<1>1. ApptInv => NoDoubleBooking
  BY DEF ApptInv
<1> QED BY <1>1, ApptInvariant, PTL

\* The booking page sends a slot of the day it shows, in whatever order the answers
\* of the days asked for come in, unless the slot was picked from another day's list.
THEOREM BookingsAreOfTheDay == ApptSpec => []BooksTheDayShown
<1>1. ApptInv => BooksTheDayShown
  BY DEF ApptInv
<1> QED BY <1>1, ApptInvariant, PTL

-----------------------------------------------------------------------------
\* The counter.

CounterTypes ==
  /\ registered \subseteq Customers
  /\ profile \in [Customers -> [Garments -> [version : Nat, of : Customers \cup {NoOne}]]]
  /\ shown \in Customers \cup {NoOne}
  /\ form \in Customers \cup {NoOne}
  /\ opening \in Customers \cup {NoOne}
  /\ seen \subseteq Garments
  /\ yields \subseteq Garments
  /\ cart \in Cart
  /\ cart.by # {} => cart.no <= MaxCarts
  /\ tab \in DOMAIN cart.lines
  /\ refreshes \subseteq SUBSET Garments
  /\ saving \in Save \cup {NotSaving}
  /\ presses \in [Presses -> Press \cup {NotPressed}]
  /\ orders \in Seq(Order)
  /\ unanswered \subseteq 1 .. MaxCarts + 1
  /\ seen # {} => shown # NoOne

\* Entered while one customer was on show, or known to be of two.
OneHand(x, c) == x.by \subseteq {c} \/ x.swapped

ScreenOwn ==
  /\ form \in {NoOne, shown}
  /\ OneHand(cart, shown)
  /\ saving # NotSaving => saving.of = saving.customer
  /\ FiguresAreTheirs
  /\ \A p \in Presses :
       presses[p] # NotPressed => OneHand(presses[p].order, presses[p].order.customer)
  /\ CartIsTheirs

Pressed(p) == presses[p] # NotPressed

\* A number is the cart's until something entered under it is put away.
OwnNumber(no) == no < cart.no \/ (no = cart.no /\ cart.by # {})

CartNumbers ==
  /\ \A p, q \in Presses : Pressed(p) /\ Pressed(q) => p = q
  /\ (\E i \in DOMAIN cart.lines : cart.lines[i].cloth) => cart.by # {}
  /\ \A p \in Presses : Pressed(p) => OwnNumber(presses[p].order.no)
  /\ \A o \in DOMAIN orders : OwnNumber(orders[o].no)
  \* An order of the cart at hand has been answered for, or will be, or never.
  /\ \A o \in DOMAIN orders : orders[o].no = cart.no =>
       \/ orders[o].no \in unanswered
       \/ \E p \in Presses : presses[p].step = "committed" /\ presses[p].order.no = orders[o].no
  /\ \A p \in Presses, o \in DOMAIN orders :
       presses[p].step = "sent" /\ orders[o].no = presses[p].order.no =>
         orders[o].no \in unanswered
  /\ OneOrderPerCart

CounterInv == CounterTypes /\ ScreenOwn /\ CartNumbers

-----------------------------------------------------------------------------
LEMMA PressStep ==
  ASSUME CounterTypes, NEW p \in Presses
  PROVE  /\ Pressed(p) <=> presses[p] \in Press
         /\ presses[p].step \in {"sent", "committed"} => Pressed(p)
         /\ Pressed(p) => /\ presses[p].step \in {"sent", "committed"}
                          /\ presses[p].order \in Order
                          /\ presses[p].types \subseteq Garments
  BY DEF CounterTypes, Pressed, Press, NotPressed

LEMMA OrderTyped ==
  ASSUME CounterTypes
  PROVE  DOMAIN orders = 1 .. Len(orders) /\ \A o \in DOMAIN orders : orders[o] \in Order
  BY DEF CounterTypes

LEMMA LinesTyped ==
  ASSUME CounterTypes
  PROVE  /\ cart.lines \in Seq(Line) /\ Len(cart.lines) \in Nat
         /\ DOMAIN cart.lines = 1 .. Len(cart.lines)
         /\ \A i \in DOMAIN cart.lines : cart.lines[i] \in Line /\ cart.lines[i].type \in Garments
<1>1. cart.lines \in Seq(Line)
  BY DEF CounterTypes, Cart
<1>2. \A i \in DOMAIN cart.lines : cart.lines[i] \in Line
  BY <1>1
<1> QED BY <1>1, <1>2 DEF Line

LEMMA NewLineType == NewLine \in Line /\ ~NewLine.cloth
  BY CounterAssumption DEF NewLine, Line

\* What an empty cart is.
LEMMA EmptyCartType ==
  ASSUME CounterTypes
  PROVE  /\ EmptyCart \in Cart /\ EmptyCart.by = {} /\ ~EmptyCart.swapped
         /\ EmptyCart.lines = <<NewLine>> /\ DOMAIN EmptyCart.lines = {1}
         /\ EmptyCart.method = cart.method
         /\ EmptyCart.no = IF cart.by = {} THEN cart.no ELSE cart.no + 1
<1> USE CounterAssumption
<1>1. <<NewLine>> \in Seq(Line) /\ DOMAIN <<NewLine>> = {1}
  BY NewLineType
<1>2. cart.no \in 1 .. MaxCarts + 1
  BY DEF CounterTypes, Cart
<1>3. EmptyCart.no \in 1 .. MaxCarts + 1
  BY <1>2 DEF EmptyCart, CounterTypes
<1>4. {} \in SUBSET Customers /\ FALSE \in BOOLEAN
  OBVIOUS
<1>5. cart.method \in Customers \cup {NoOne}
  BY DEF CounterTypes, Cart
<1> QED BY <1>1, <1>3, <1>4, <1>5 DEF EmptyCart, Cart

LEMMA InitCounter == CounterInit => CounterInv
<1> SUFFICES ASSUME CounterInit PROVE CounterInv
  OBVIOUS
<1> USE CounterAssumption DEF CounterInit
<1>1. <<NewLine>> \in Seq(Line) /\ DOMAIN <<NewLine>> = {1} /\ <<NewLine>>[1] = NewLine
  BY NewLineType
<1>2. cart \in Cart /\ 1 \in DOMAIN cart.lines
  BY <1>1 DEF Cart
<1>3. orders \in Seq(Order) /\ DOMAIN orders = {}
  OBVIOUS
<1>4. CounterTypes
  BY <1>2, <1>3 DEF CounterTypes
<1>5. ScreenOwn
  BY <1>3 DEF ScreenOwn, OneHand, FiguresAreTheirs, CartIsTheirs
<1>6. CartNumbers
  BY <1>1, <1>3, NewLineType DEF CartNumbers, Pressed, OneOrderPerCart, NotPressed
<1> QED BY <1>4, <1>5, <1>6 DEF CounterInv

\* The cart is put away, or goes on under its number.
LEMMA NumbersKept ==
  ASSUME CounterInv, UNCHANGED <<presses, orders, unanswered>>,
         \/ cart' = EmptyCart
         \/ /\ cart'.no = cart.no
            /\ cart.by # {} => cart'.by # {}
            /\ (\E i \in DOMAIN cart'.lines : cart'.lines[i].cloth) => cart'.by # {}
  PROVE  CartNumbers'
<1>1. \A no \in 1 .. MaxCarts + 1 :
         OwnNumber(no) => /\ no < cart'.no \/ (no = cart'.no /\ cart'.by # {})
                          /\ no = cart'.no => no = cart.no
  <2>1. cart.no \in Int
    BY DEF CounterInv, CounterTypes, Cart
  <2> QED BY <2>1, EmptyCartType DEF OwnNumber, CounterInv
<1>2. \A p \in Presses : Pressed(p) => presses[p].order.no \in 1 .. MaxCarts + 1
  BY PressStep DEF CounterInv, Order
<1>3. \A o \in DOMAIN orders : orders[o].no \in 1 .. MaxCarts + 1
  BY OrderTyped DEF CounterInv, Order
<1>4. (\E i \in DOMAIN cart'.lines : cart'.lines[i].cloth) => cart'.by # {}
  <2>1. ASSUME cart' = EmptyCart, NEW i \in DOMAIN cart'.lines PROVE ~cart'.lines[i].cloth
    BY <2>1, EmptyCartType, NewLineType DEF CounterInv
  <2> QED BY <2>1
<1>5. \A p \in Presses : Pressed(p)' <=> Pressed(p)
  BY DEF Pressed
<1>6. OneOrderPerCart'
  BY DEF CounterInv, CartNumbers, OneOrderPerCart
<1>7. (\A p \in Presses : Pressed(p) => OwnNumber(presses[p].order.no))'
  BY <1>1, <1>2, <1>5 DEF CounterInv, CartNumbers, OwnNumber
<1>8. (\A o \in DOMAIN orders : OwnNumber(orders[o].no))'
  BY <1>1, <1>3 DEF CounterInv, CartNumbers, OwnNumber
<1>9. \A o \in DOMAIN orders' : orders'[o].no = cart'.no =>
        \/ orders'[o].no \in unanswered'
        \/ \E p \in Presses :
             presses'[p].step = "committed" /\ presses'[p].order.no = orders'[o].no
  BY <1>1, <1>3 DEF CounterInv, CartNumbers
<1> QED BY <1>4, <1>5, <1>6, <1>7, <1>8, <1>9 DEF CounterInv, CartNumbers

\* What the screen shows after a customer is shown, and after the lines have changed.
LEMMA ShowTypes ==
  ASSUME CounterTypes, NEW c \in Customers, NEW lines, NEW at, Show(c, lines, at)
  PROVE  /\ shown' = c /\ seen' \subseteq Garments /\ form' \in {c, NoOne}
         /\ refreshes' \subseteq SUBSET Garments
<1>1. OnFile(c) \subseteq Garments
  BY DEF OnFile
<1> QED BY <1>1 DEF Show, FormFor, CounterTypes

LEMMA FollowTypes ==
  ASSUME CounterTypes, form \in {NoOne, shown}, NEW lines, NEW at, Follow(lines, at)
  PROVE  form' \in {NoOne, shown} /\ refreshes' \subseteq SUBSET Garments
  BY DEF Follow, FormFor, CounterTypes

\* A cart that is put away is nobody's.
LEMMA EmptyOwn == ASSUME CounterTypes, NEW c PROVE OneHand(EmptyCart, c)
  BY EmptyCartType DEF OneHand

-----------------------------------------------------------------------------
\* Neither the cart nor a checkout is touched.
LEMMA QuietOwn ==
  ASSUME CounterInv, UNCHANGED <<shown, cart, presses, orders>>,
         form' \in {NoOne, shown}, saving' # NotSaving => saving'.of = saving'.customer,
         FiguresAreTheirs'
  PROVE  ScreenOwn'
  BY DEF CounterInv, ScreenOwn, OneHand, CartIsTheirs

LEMMA QuietNumbers ==
  ASSUME CounterInv, UNCHANGED <<cart, presses, orders, unanswered>>
  PROVE  CartNumbers'
  BY NumbersKept DEF CounterInv, CartNumbers

LEMMA CustomerKeeps ==
  ASSUME CounterInv, NEW c \in Customers,
         \/ Register(c) \/ OpenCustomer(c)
         \/ \E t \in Garments : MeasureElsewhere(c, t)
  PROVE  CounterInv'
<1>1. CASE Register(c) \/ OpenCustomer(c)
  <2>1. CounterTypes'
    BY <1>1 DEF Register, OpenCustomer, CounterInv, CounterTypes, server
  <2>2. /\ UNCHANGED <<profile, shown, form, saving, cart, presses, orders, unanswered>>
    BY <1>1 DEF Register, OpenCustomer, server
  <2>3. ScreenOwn'
    BY <2>2, QuietOwn DEF CounterInv, ScreenOwn, FiguresAreTheirs
  <2> QED BY <2>1, <2>2, <2>3, QuietNumbers DEF CounterInv
<1>2. ASSUME NEW t \in Garments, MeasureElsewhere(c, t) PROVE CounterInv'
  <2>1. /\ UNCHANGED <<registered, shown, form, saving, cart, presses, orders, unanswered>>
        /\ UNCHANGED <<opening, seen, yields, tab, refreshes>>
        /\ profile' = [profile EXCEPT ![c][t] = [version |-> @.version + 1, of |-> c]]
    BY <1>2 DEF MeasureElsewhere, underWay
  <2>2. profile' \in [Customers -> [Garments -> [version : Nat, of : Customers \cup {NoOne}]]]
    BY <2>1 DEF CounterInv, CounterTypes
  <2>3. CounterTypes'
    BY <2>1, <2>2 DEF CounterInv, CounterTypes
  <2>4. FiguresAreTheirs'
    BY <2>1 DEF CounterInv, CounterTypes, ScreenOwn, FiguresAreTheirs
  <2>5. ScreenOwn'
    BY <2>1, <2>4, QuietOwn DEF CounterInv, ScreenOwn
  <2> QED BY <2>1, <2>3, <2>5, QuietNumbers DEF CounterInv
<1> QED BY <1>1, <1>2

LEMMA ScreenKeeps ==
  ASSUME CounterInv,
         \/ OpenFails \/ TypeFigures \/ SaveFails
         \/ \E types \in refreshes : RefreshStock(types)
         \/ \E i \in DOMAIN cart.lines : SwitchTab(i)
  PROVE  CounterInv'
<1>1. UNCHANGED <<registered, profile, shown, seen, cart, presses, orders, unanswered>>
  BY DEF OpenFails, TypeFigures, SaveFails, RefreshStock, SwitchTab, server, underWay
<1>2. FiguresAreTheirs'
  BY <1>1 DEF CounterInv, ScreenOwn, FiguresAreTheirs
<1>3. /\ form' \in {NoOne, shown}
      /\ saving' # NotSaving => saving'.of = saving'.customer
      /\ CounterTypes'
  <2> USE CounterAssumption DEF CounterInv, ScreenOwn
  <2>1. CASE OpenFails
    BY <1>1, <2>1 DEF OpenFails, CounterTypes
  <2>2. CASE TypeFigures
    BY <1>1, <2>2 DEF TypeFigures, CounterTypes, underWay
  <2>3. CASE SaveFails
    BY <1>1, <2>3 DEF SaveFails, CounterTypes
  <2>4. ASSUME NEW types \in refreshes, RefreshStock(types)
        PROVE  form' \in {NoOne, shown} /\ UNCHANGED saving /\ CounterTypes'
    BY <1>1, <2>4 DEF RefreshStock, CounterTypes, underWay
  <2>5. ASSUME NEW i \in DOMAIN cart.lines, SwitchTab(i)
        PROVE  form' \in {NoOne, shown} /\ UNCHANGED saving /\ CounterTypes'
    <3>1. form' \in {NoOne, shown} /\ refreshes' \subseteq SUBSET Garments
      BY <2>5, FollowTypes DEF SwitchTab
    <3> QED BY <1>1, <2>5, <3>1 DEF SwitchTab, CounterTypes, underWay
  <2> QED BY <2>1, <2>2, <2>3, <2>4, <2>5
<1>4. ScreenOwn'
  BY <1>1, <1>2, <1>3, QuietOwn
<1> QED BY <1>1, <1>3, <1>4, QuietNumbers DEF CounterInv

\* The figures that are saved are those of the form, and the form is its customer's.
LEMMA SaveKeeps ==
  ASSUME CounterInv, SaveMeasurements \/ WriteMeasurement
  PROVE  CounterInv'
<1>1. UNCHANGED <<registered, shown, seen, form, cart, tab, yields, refreshes, opening,
                  presses, orders, unanswered>>
  BY DEF SaveMeasurements, WriteMeasurement, server
<1>2. CASE SaveMeasurements
  <2> DEFINE type == cart.lines[tab].type
  <2>1. type \in Garments
    BY LinesTyped DEF CounterInv, CounterTypes
  <2>2. shown \in Customers /\ form = shown /\ UNCHANGED profile
    BY <1>2 DEF SaveMeasurements, server, CounterInv, CounterTypes, ScreenOwn
  <2>3. profile[shown][type].version \in Nat
    BY <2>1, <2>2 DEF CounterInv, CounterTypes
  <2>4. saving' = [step |-> "write", customer |-> shown, type |-> type, of |-> form,
                   version |-> profile[shown][type].version]
    BY <1>2 DEF SaveMeasurements
  <2> HIDE DEF type
  <2>5. saving' \in Save /\ saving'.of = saving'.customer
    BY <2>1, <2>2, <2>3, <2>4 DEF Save
  <2>6. CounterTypes'
    BY <1>1, <2>2, <2>5 DEF CounterInv, CounterTypes
  <2>7. ScreenOwn'
    BY <1>1, <2>2, <2>5, QuietOwn DEF CounterInv, ScreenOwn, FiguresAreTheirs
  <2> QED BY <1>1, <2>6, <2>7, QuietNumbers DEF CounterInv
<1>3. CASE WriteMeasurement
  <2>1. saving \in Save /\ saving.of = saving.customer
    BY <1>3 DEF WriteMeasurement, CounterInv, CounterTypes, ScreenOwn, NotSaving
  <2>2. saving.customer \in Customers /\ saving.type \in Garments
    BY <2>1 DEF Save
  <2>3. saving' \in Save \cup {NotSaving} /\ (saving' # NotSaving => saving'.of = saving'.customer)
    BY <1>3, <2>1 DEF WriteMeasurement, Save
  <2>4. CASE UNCHANGED profile
    <3>1. CounterTypes'
      BY <1>1, <2>3, <2>4 DEF CounterInv, CounterTypes
    <3>2. ScreenOwn'
      BY <1>1, <2>3, <2>4, QuietOwn DEF CounterInv, ScreenOwn, FiguresAreTheirs
    <3> QED BY <1>1, <3>1, <3>2, QuietNumbers DEF CounterInv
  <2>5. CASE profile' = [profile EXCEPT ![saving.customer][saving.type] =
                            [version |-> @.version + 1, of |-> saving.of]]
    <3>1. profile' \in [Customers -> [Garments -> [version : Nat, of : Customers \cup {NoOne}]]]
      BY <2>1, <2>2, <2>5 DEF CounterInv, CounterTypes
    <3>2. CounterTypes'
      BY <1>1, <2>3, <3>1 DEF CounterInv, CounterTypes
    <3>3. FiguresAreTheirs'
      BY <2>1, <2>2, <2>5 DEF CounterInv, CounterTypes, ScreenOwn, FiguresAreTheirs
    <3>4. ScreenOwn'
      BY <1>1, <2>3, <3>3, QuietOwn DEF CounterInv, ScreenOwn
    <3> QED BY <1>1, <3>2, <3>4, QuietNumbers DEF CounterInv
  <2> QED BY <1>3, <2>4, <2>5 DEF WriteMeasurement
<1> QED BY <1>2, <1>3

-----------------------------------------------------------------------------
\* A customer is opened, or left: the cart is put away.
LEMMA ChangeKeeps ==
  ASSUME CounterInv, Opened \/ ChangeCustomer
  PROVE  CounterInv'
<1>1. /\ UNCHANGED <<registered, profile, orders, unanswered, yields, saving, presses>>
      /\ cart' = EmptyCart /\ tab' = 1
  BY DEF Opened, ChangeCustomer, CartOnOpen, server, underWay
<1>2. /\ shown' \in Customers \cup {NoOne} /\ form' \in {NoOne, shown'}
      /\ seen' \subseteq Garments /\ (seen' # {} => shown' # NoOne)
      /\ refreshes' \subseteq SUBSET Garments /\ opening' \in Customers \cup {NoOne}
  <2>1. CASE Opened
    <3>1. opening \in Customers
      BY <2>1 DEF Opened, CounterInv, CounterTypes
    <3>2. Show(opening, cart'.lines, 1)
      BY <2>1 DEF Opened
    <3>3. /\ shown' = opening /\ seen' \subseteq Garments /\ form' \in {opening, NoOne}
          /\ refreshes' \subseteq SUBSET Garments
      BY <3>1, <3>2, ShowTypes DEF CounterInv
    <3> QED BY <2>1, <3>1, <3>3, CounterAssumption DEF Opened
  <2>2. CASE ChangeCustomer
    BY <2>2 DEF ChangeCustomer, CounterInv, CounterTypes, underWay
  <2> QED BY <2>1, <2>2
<1>3. CounterTypes'
  BY <1>1, <1>2, EmptyCartType DEF CounterInv, CounterTypes
<1>4. ScreenOwn'
  <2>1. OneHand(cart, shown)'
    BY <1>1, EmptyCartType DEF OneHand, CounterInv
  <2> QED BY <1>1, <1>2, <2>1
          DEF CounterInv, ScreenOwn, FiguresAreTheirs, CartIsTheirs, OneHand
<1>5. CartNumbers'
  BY <1>1, NumbersKept
<1> QED BY <1>3, <1>4, <1>5 DEF CounterInv

\* The profile that comes late keeps the cart, and marks it.
LEMMA LoadKeeps ==
  ASSUME CounterInv, LoadProfile
  PROVE  CounterInv'
<1> DEFINE c == saving.customer
<1>1. saving \in Save
  BY DEF LoadProfile, CounterInv, CounterTypes, NotSaving
<1>2. c \in Customers
  BY <1>1 DEF Save
<1>3. /\ UNCHANGED <<registered, profile, orders, unanswered, tab, yields, opening, presses>>
      /\ saving' = NotSaving
      /\ cart' = [cart EXCEPT !.swapped = @ \/ ~(cart.by \subseteq {c})]
      /\ Show(c, cart.lines, tab)
  BY DEF LoadProfile, server
<1> HIDE DEF c
<1>4. /\ shown' = c /\ seen' \subseteq Garments /\ form' \in {c, NoOne}
      /\ refreshes' \subseteq SUBSET Garments
  BY <1>2, <1>3, ShowTypes DEF CounterInv
<1>5. /\ cart' \in Cart /\ cart'.no = cart.no /\ cart'.lines = cart.lines /\ cart'.by = cart.by
      /\ cart'.swapped <=> cart.swapped \/ ~(cart.by \subseteq {c})
  BY <1>3 DEF CounterInv, CounterTypes, Cart
<1>6. CounterTypes'
  BY <1>2, <1>3, <1>4, <1>5, CounterAssumption DEF CounterInv, CounterTypes
<1>7. ScreenOwn'
  <2>1. OneHand(cart, shown)'
    BY <1>4, <1>5 DEF OneHand
  <2> QED BY <1>3, <1>4, <2>1
          DEF CounterInv, ScreenOwn, FiguresAreTheirs, CartIsTheirs, OneHand
<1>8. CartNumbers'
  BY <1>3, <1>5, NumbersKept DEF CounterInv, CartNumbers
<1> QED BY <1>6, <1>7, <1>8 DEF CounterInv

\* Something is entered: it is of the customer on show.
LEMMA EnterKeeps ==
  ASSUME CounterInv, NEW lines \in Seq(Line), NEW at \in DOMAIN lines, Enter(lines, at)
  PROVE  CounterInv'
<1>1. /\ UNCHANGED <<registered, profile, orders, unanswered, shown, seen, yields, opening,
                     saving, presses>>
      /\ cart' = [cart EXCEPT !.lines = lines, !.by = @ \cup {shown}] /\ tab' = at
      /\ cart.no <= MaxCarts /\ seen # {} /\ Follow(lines, at)
  BY DEF Enter, server, underWay
<1>2. shown \in Customers
  BY <1>1 DEF CounterInv, CounterTypes
<1>3. form' \in {NoOne, shown} /\ refreshes' \subseteq SUBSET Garments
  BY <1>1, FollowTypes DEF CounterInv, ScreenOwn
<1>4. /\ cart' \in Cart /\ cart'.no = cart.no /\ cart'.lines = lines
      /\ cart'.by = cart.by \cup {shown} /\ cart'.swapped = cart.swapped
  BY <1>1, <1>2 DEF CounterInv, CounterTypes, Cart
<1>5. CounterTypes'
  BY <1>1, <1>2, <1>3, <1>4, CounterAssumption DEF CounterInv, CounterTypes
<1>6. ScreenOwn'
  <2>1. OneHand(cart, shown)'
    BY <1>1, <1>4 DEF OneHand, CounterInv, ScreenOwn
  <2> QED BY <1>1, <1>3, <2>1
          DEF CounterInv, ScreenOwn, FiguresAreTheirs, CartIsTheirs, OneHand
<1>7. CartNumbers'
  BY <1>1, <1>4, NumbersKept
<1> QED BY <1>5, <1>6, <1>7 DEF CounterInv

LEMMA EntriesKeep ==
  ASSUME CounterInv,
         \/ AddGarment
         \/ \E i \in DOMAIN cart.lines :
              \/ RemoveGarment(i) \/ ChooseCloth(i)
              \/ \E t \in Garments : ChangeType(i, t)
  PROVE  CounterInv'
<1> DEFINE lines == cart.lines
<1>1. lines \in Seq(Line) /\ DOMAIN lines = 1 .. Len(lines) /\ Len(lines) \in Nat
  BY LinesTyped DEF CounterInv
<1>2. CASE AddGarment
  <2>1. /\ Append(lines, NewLine) \in Seq(Line)
        /\ Len(lines) + 1 \in DOMAIN Append(lines, NewLine)
    <3> HIDE DEF lines
    <3> QED BY <1>1, NewLineType
  <2> QED BY <1>2, <2>1, EnterKeeps DEF AddGarment
<1>3. ASSUME NEW i \in DOMAIN lines, RemoveGarment(i) PROVE CounterInv'
  <2> DEFINE less == [j \in 1 .. Len(lines) - 1 |-> lines[IF j < i THEN j ELSE j + 1]]
  <2>1. Len(lines) > 1
    BY <1>3 DEF RemoveGarment
  <2>2. \A j \in 1 .. Len(lines) - 1 : lines[IF j < i THEN j ELSE j + 1] \in Line
    <3> HIDE DEF lines
    <3> QED BY <1>1, <1>3
  <2>3. less \in Seq(Line)
    <3>1. Len(lines) - 1 \in Nat /\ less \in [1 .. Len(lines) - 1 -> Line]
      BY <1>1, <2>1, <2>2
    <3> HIDE DEF less, lines
    <3> QED BY <3>1
  <2>4. 1 \in DOMAIN less
    BY <1>1, <2>1
  <2>5. Enter(less, 1)
    BY <1>3 DEF RemoveGarment
  <2> HIDE DEF less
  <2> QED BY <2>3, <2>4, <2>5, EnterKeeps
<1>4. ASSUME NEW i \in DOMAIN lines, NEW t \in Garments, ChangeType(i, t) PROVE CounterInv'
  <2> DEFINE other == [lines EXCEPT ![i].type = t]
  <2>1. [lines[i] EXCEPT !.type = t] \in Line
    BY <1>4, LinesTyped DEF Line, CounterInv
  <2>2. other \in Seq(Line) /\ i \in DOMAIN other
    <3> HIDE DEF lines
    <3> QED BY <1>1, <1>4, <2>1
  <2>3. Enter(other, i)
    BY <1>4 DEF ChangeType
  <2> HIDE DEF other
  <2> QED BY <2>2, <2>3, EnterKeeps
<1>5. ASSUME NEW i \in DOMAIN lines, ChooseCloth(i) PROVE CounterInv'
  <2> DEFINE other == [lines EXCEPT ![i].cloth = TRUE]
  <2>1. [lines[i] EXCEPT !.cloth = TRUE] \in Line
    BY <1>5, LinesTyped DEF Line, CounterInv
  <2>2. other \in Seq(Line) /\ i \in DOMAIN other
    <3> HIDE DEF lines
    <3> QED BY <1>1, <1>5, <2>1
  <2>3. Enter(other, i)
    BY <1>5 DEF ChooseCloth
  <2> HIDE DEF other
  <2> QED BY <2>2, <2>3, EnterKeeps
<1> QED BY <1>2, <1>3, <1>4, <1>5

\* The method of the deposit is no part of what CartIsTheirs speaks about.
LEMMA MethodKeeps ==
  ASSUME CounterInv, ChooseMethod
  PROVE  CounterInv'
<1>1. /\ UNCHANGED <<registered, profile, orders, unanswered, shown, seen, form, tab, yields,
                     refreshes, opening, saving, presses>>
      /\ cart' = [cart EXCEPT !.method = shown] /\ seen # {}
  BY DEF ChooseMethod, server, underWay
<1>2. shown \in Customers
  BY <1>1 DEF CounterInv, CounterTypes
<1>3. /\ cart' \in Cart /\ cart'.no = cart.no /\ cart'.lines = cart.lines /\ cart'.by = cart.by
      /\ cart'.swapped = cart.swapped
  BY <1>1, <1>2 DEF CounterInv, CounterTypes, Cart
<1>4. CounterTypes'
  BY <1>1, <1>3 DEF CounterInv, CounterTypes
<1>5. ScreenOwn'
  BY <1>1, <1>3 DEF CounterInv, ScreenOwn, FiguresAreTheirs, CartIsTheirs, OneHand
<1>6. CartNumbers'
  BY <1>1, <1>3, NumbersKept DEF CounterInv, CartNumbers
<1> QED BY <1>4, <1>5, <1>6 DEF CounterInv

-----------------------------------------------------------------------------
\* "Checkout" sends the cart at hand; nothing else is under way.
LEMMA CheckoutKeeps ==
  ASSUME CounterInv, NEW p \in Presses, Checkout(p)
  PROVE  CounterInv'
<1> DEFINE order == [customer |-> shown, no |-> cart.no, by |-> cart.by,
                     swapped |-> cart.swapped,
                     method |-> IF cart.method = NoOne THEN shown ELSE cart.method]
           pressed == [step |-> "sent", types |-> TypesOf(cart.lines), order |-> order]
<1>1. /\ UNCHANGED <<registered, profile, orders, unanswered, shown, seen, form, cart, tab,
                     yields, refreshes, opening, saving>>
      /\ presses' = [presses EXCEPT ![p] = pressed]
      /\ shown # NoOne
      /\ \A i \in DOMAIN cart.lines : cart.lines[i].cloth
      /\ \A q \in Presses : ~Pressed(q)
  BY DEF Checkout, ReadyToCheckout, Submitting, Pressed, server
<1>2. order \in Order /\ order.customer = shown /\ order.no = cart.no /\ order.by = cart.by
      /\ order.swapped = cart.swapped
  BY <1>1 DEF CounterInv, CounterTypes, Cart, Order
<1>3. TypesOf(cart.lines) \subseteq Garments
  BY LinesTyped DEF TypesOf, CounterInv
<1> HIDE DEF order
<1>4. pressed \in Press /\ pressed.step = "sent" /\ pressed.order = order
  BY <1>2, <1>3 DEF Press
<1> HIDE DEF pressed
<1>5. /\ presses' \in [Presses -> Press \cup {NotPressed}]
      /\ \A q \in Presses : presses'[q] = IF q = p THEN pressed ELSE presses[q]
  BY <1>1, <1>4 DEF CounterInv, CounterTypes
<1>6. \A q \in Presses : Pressed(q)' => q = p
  BY <1>1, <1>5 DEF Pressed
<1>7. cart.by # {}
  BY <1>1 DEF CounterInv, CounterTypes, CartNumbers
<1>8. CounterTypes'
  BY <1>1, <1>5 DEF CounterInv, CounterTypes
<1>9. ScreenOwn'
  BY <1>1, <1>2, <1>4, <1>5
     DEF CounterInv, ScreenOwn, FiguresAreTheirs, CartIsTheirs, OneHand
<1>10. \A o \in DOMAIN orders : orders[o].no = cart.no => orders[o].no \in unanswered
  BY <1>1, PressStep DEF CounterInv, CartNumbers
<1>11. \A q \in Presses : q # p => presses'[q].step \notin {"sent", "committed"}
  BY <1>1, <1>5, PressStep DEF CounterInv
<1>12. CartNumbers'
  <2>1. (\A q, r \in Presses : Pressed(q) /\ Pressed(r) => q = r)'
    BY <1>6
  <2>2. ((\E i \in DOMAIN cart.lines : cart.lines[i].cloth) => cart.by # {})'
    BY <1>1, <1>7
  <2>3. (\A q \in Presses : Pressed(q) => OwnNumber(presses[q].order.no))'
    BY <1>1, <1>2, <1>4, <1>5, <1>6, <1>7 DEF OwnNumber
  <2>4. (\A o \in DOMAIN orders : OwnNumber(orders[o].no))'
    BY <1>1 DEF CounterInv, CartNumbers, OwnNumber
  <2>5. \A o \in DOMAIN orders' : orders'[o].no = cart'.no => orders'[o].no \in unanswered'
    BY <1>1, <1>10
  <2>6. \A q \in Presses, o \in DOMAIN orders' :
          presses'[q].step = "sent" /\ orders'[o].no = presses'[q].order.no =>
            orders'[o].no \in unanswered'
    BY <1>1, <1>2, <1>4, <1>5, <1>10, <1>11
  <2>7. OneOrderPerCart'
    BY <1>1 DEF CounterInv, CartNumbers, OneOrderPerCart
  <2> QED BY <2>1, <2>2, <2>3, <2>4, <2>5, <2>6, <2>7 DEF CartNumbers
<1> QED BY <1>8, <1>9, <1>12 DEF CounterInv

\* The order is made; every order its cart had made before is one the till was not
\* told of.
LEMMA CommitKeeps ==
  ASSUME CounterInv, NEW p \in Presses, Commit(p)
  PROVE  CounterInv'
<1> DEFINE order == presses[p].order
           pressed == [presses[p] EXCEPT !.step = "committed"]
<1>1. /\ UNCHANGED <<registered, profile, unanswered, shown, seen, form, cart, tab,
                     yields, refreshes, opening, saving>>
      /\ presses' = [presses EXCEPT ![p] = pressed]
      /\ orders' = Append(orders, order)
      /\ presses[p].step = "sent"
  BY DEF Commit
<1>2. Pressed(p) /\ presses[p] \in Press /\ order \in Order
  BY <1>1, PressStep DEF CounterInv
<1>3. pressed \in Press /\ pressed.step = "committed" /\ pressed.order = order /\ pressed # NotPressed
  BY <1>2 DEF Press, NotPressed
<1>4. \A q \in Presses : Pressed(q) => q = p
  BY <1>2 DEF CounterInv, CartNumbers
<1>5. /\ OneHand(order, order.customer)
      /\ OwnNumber(order.no)
      /\ \A o \in DOMAIN orders : orders[o].no = order.no => order.no \in unanswered
  <2>1. OneHand(order, order.customer)
    BY <1>2 DEF CounterInv, ScreenOwn, Pressed
  <2>2. OwnNumber(order.no)
    BY <1>2 DEF CounterInv, CartNumbers
  <2>3. \A o \in DOMAIN orders : orders[o].no = order.no => order.no \in unanswered
    BY <1>1 DEF CounterInv, CartNumbers
  <2> QED BY <2>1, <2>2, <2>3
<1> HIDE DEF order, pressed
<1>6. /\ presses' \in [Presses -> Press \cup {NotPressed}]
      /\ \A q \in Presses : presses'[q] = IF q = p THEN pressed ELSE presses[q]
  BY <1>1, <1>3 DEF CounterInv, CounterTypes
<1>7. /\ orders' \in Seq(Order) /\ Len(orders) \in Nat
      /\ DOMAIN orders = 1 .. Len(orders) /\ DOMAIN orders' = 1 .. Len(orders) + 1
      /\ \A o \in DOMAIN orders : orders'[o] = orders[o]
      /\ orders'[Len(orders) + 1] = order
  BY <1>1, <1>2 DEF CounterInv, CounterTypes
<1>8. \A o \in DOMAIN orders' : (o \in DOMAIN orders /\ orders'[o] = orders[o])
                                \/ (o = Len(orders) + 1 /\ orders'[o] = order)
  BY <1>7
<1>9. CounterTypes'
  BY <1>1, <1>6, <1>7 DEF CounterInv, CounterTypes
<1>10. ScreenOwn'
  <2>1. (\A q \in Presses :
           presses[q] # NotPressed => OneHand(presses[q].order, presses[q].order.customer))'
    BY <1>3, <1>5, <1>6 DEF CounterInv, ScreenOwn, OneHand
  <2>2. CartIsTheirs'
    BY <1>5, <1>8 DEF CounterInv, ScreenOwn, CartIsTheirs, OneHand
  <2> QED BY <1>1, <2>1, <2>2 DEF CounterInv, ScreenOwn, FiguresAreTheirs, OneHand
<1>11. CartNumbers'
  <2>1. (\A q, r \in Presses : Pressed(q) /\ Pressed(r) => q = r)'
    BY <1>4, <1>6 DEF Pressed
  <2>2. ((\E i \in DOMAIN cart.lines : cart.lines[i].cloth) => cart.by # {})'
    BY <1>1 DEF CounterInv, CartNumbers
  <2>3. (\A q \in Presses : Pressed(q) => OwnNumber(presses[q].order.no))'
    BY <1>1, <1>3, <1>4, <1>5, <1>6 DEF OwnNumber, Pressed
  <2>4. (\A o \in DOMAIN orders : OwnNumber(orders[o].no))'
    BY <1>1, <1>5, <1>8 DEF CounterInv, CartNumbers, OwnNumber
  <2>5. \A o \in DOMAIN orders' : orders'[o].no = cart'.no =>
          \/ orders'[o].no \in unanswered'
          \/ \E q \in Presses :
               presses'[q].step = "committed" /\ presses'[q].order.no = orders'[o].no
    <3>1. ASSUME NEW o \in DOMAIN orders, orders[o].no = cart.no
          PROVE  orders[o].no \in unanswered
      <4>1. \A q \in Presses : presses[q].step # "committed"
        BY <1>1, <1>4, PressStep DEF CounterInv
      <4> QED BY <3>1, <4>1 DEF CounterInv, CartNumbers
    <3>2. presses'[p].step = "committed" /\ presses'[p].order = order
      BY <1>3, <1>6
    <3> QED BY <1>1, <1>8, <3>1, <3>2
  <2>6. \A q \in Presses, o \in DOMAIN orders' :
          presses'[q].step = "sent" /\ orders'[o].no = presses'[q].order.no =>
            orders'[o].no \in unanswered'
    <3>1. \A q \in Presses : presses'[q].step # "sent"
      BY <1>3, <1>4, <1>6, PressStep DEF CounterInv
    <3> QED BY <3>1
  <2>7. OneOrderPerCart'
    <3>1. ASSUME NEW o \in DOMAIN orders', NEW n \in DOMAIN orders', o < n,
                 orders'[o].no = orders'[n].no
          PROVE  orders'[o].no \in unanswered
      <4>1. o \in DOMAIN orders /\ orders'[o] = orders[o]
        BY <1>7, <3>1
      <4>2. CASE n \in DOMAIN orders
        BY <1>7, <3>1, <4>1, <4>2 DEF CounterInv, CartNumbers, OneOrderPerCart
      <4>3. CASE n = Len(orders) + 1
        BY <1>5, <1>7, <3>1, <4>1, <4>3
      <4> QED BY <1>8, <4>2, <4>3
    <3> QED BY <1>1, <3>1 DEF OneOrderPerCart
  <2> QED BY <2>1, <2>2, <2>3, <2>4, <2>5, <2>6, <2>7 DEF CartNumbers
<1> QED BY <1>9, <1>10, <1>11 DEF CounterInv

\* A checkout that ends: refused, answered, or with its answer lost.
LEMMA EndKeeps ==
  ASSUME CounterInv, NEW p \in Presses, Refuse(p) \/ Answered(p) \/ AnswerLost(p)
  PROVE  CounterInv'
<1>1. /\ UNCHANGED <<registered, profile, orders>>
      /\ presses' = [presses EXCEPT ![p] = NotPressed]
      /\ Pressed(p) /\ presses[p].order \in Order
  <2>1. presses[p].step \in {"sent", "committed"}
    BY DEF Refuse, Answered, AnswerLost
  <2> QED BY <2>1, PressStep DEF Refuse, Answered, AnswerLost, server, CounterInv
<1>2. /\ presses' \in [Presses -> Press \cup {NotPressed}]
      /\ \A q \in Presses : presses'[q] = IF q = p THEN NotPressed ELSE presses[q]
  BY <1>1 DEF CounterInv, CounterTypes
<1>3. \A q \in Presses : presses'[q] = NotPressed
  BY <1>1, <1>2 DEF CounterInv, CartNumbers, Pressed
<1>4. /\ unanswered' \subseteq 1 .. MaxCarts + 1
      /\ unanswered \subseteq unanswered'
  BY <1>1 DEF Refuse, Answered, AnswerLost, server, CounterInv, CounterTypes, Order
<1>5. CASE Answered(p)
  <2>0. cart' = [EmptyCart EXCEPT !.method = NoOne]
    BY <1>5 DEF Answered
  <2>1. /\ shown' = NoOne /\ seen' = {} /\ form' = NoOne /\ tab' = 1
        /\ cart' \in Cart /\ cart'.no = EmptyCart.no /\ cart'.by = {} /\ ~cart'.swapped
        /\ cart'.lines = <<NewLine>> /\ DOMAIN cart'.lines = {1}
        /\ yields' = {} /\ refreshes' = {} /\ opening' = NoOne /\ saving' = NotSaving
        /\ unanswered' = unanswered
    BY <1>5, <2>0, EmptyCartType DEF Answered, server, CounterInv, Cart
  <2>2. CounterTypes'
    BY <1>1, <1>2, <2>1, EmptyCartType DEF CounterInv, CounterTypes
  <2>3. ScreenOwn'
    BY <1>1, <1>3, <2>1, EmptyCartType
       DEF CounterInv, ScreenOwn, FiguresAreTheirs, CartIsTheirs, OneHand
  <2>4. cart'.by = {} /\ (cart.by # {} => cart'.no = cart.no + 1)
        /\ (cart.by = {} => cart'.no = cart.no) /\ cart.no \in Nat
        /\ ~ \E i \in DOMAIN cart'.lines : cart'.lines[i].cloth
    BY <2>1, EmptyCartType, NewLineType DEF CounterInv, CounterTypes, Cart
  <2>5. \A o \in DOMAIN orders : orders[o].no \in Nat /\ OwnNumber(orders[o].no)
    BY OrderTyped DEF CounterInv, CartNumbers, Order
  <2>6. \A o \in DOMAIN orders : orders[o].no < cart'.no
    BY <2>4, <2>5 DEF OwnNumber
  <2>7. CartNumbers'
    <3>1. (\A o \in DOMAIN orders : OwnNumber(orders[o].no))'
      BY <1>1, <2>6 DEF OwnNumber
    <3>2. \A o \in DOMAIN orders' : orders'[o].no # cart'.no
      <4>1. \A o \in DOMAIN orders : orders[o].no \in Nat /\ cart'.no \in Nat
        BY <2>4, <2>5
      <4> QED BY <1>1, <2>6, <4>1
    <3>3. OneOrderPerCart'
      BY <1>1, <2>1 DEF CounterInv, CartNumbers, OneOrderPerCart
    <3>4. \A q \in Presses : ~Pressed(q)' /\ presses'[q].step # "sent"
      BY <1>3 DEF Pressed, NotPressed
    <3> QED BY <2>4, <3>1, <3>2, <3>3, <3>4 DEF CartNumbers
  <2> QED BY <2>2, <2>3, <2>7 DEF CounterInv
<1>6. CASE Refuse(p) \/ AnswerLost(p)
  <2>1. UNCHANGED <<shown, seen, form, cart, tab, yields, refreshes, opening, saving>>
    BY <1>6 DEF Refuse, AnswerLost
  <2>2. CounterTypes'
    BY <1>1, <1>2, <1>4, <2>1 DEF CounterInv, CounterTypes
  <2>3. ScreenOwn'
    BY <1>1, <1>3, <2>1
       DEF CounterInv, ScreenOwn, FiguresAreTheirs, CartIsTheirs, OneHand
  <2>4. ASSUME NEW o \in DOMAIN orders, orders[o].no = cart.no
        PROVE  orders[o].no \in unanswered'
    <3>1. CASE Refuse(p)
      <4>1. \A q \in Presses : presses[q].step # "committed"
        <5>1. presses[p].step = "sent"
          BY <3>1 DEF Refuse
        <5> QED BY <1>1, <5>1, PressStep DEF CounterInv, CartNumbers
      <4> QED BY <1>4, <2>4, <4>1 DEF CounterInv, CartNumbers
    <3>2. CASE AnswerLost(p)
      <4>1. unanswered' = unanswered \cup {presses[p].order.no}
        BY <3>2 DEF AnswerLost
      <4>2. \A q \in Presses : presses[q].step = "committed" => q = p
        BY <1>1, PressStep DEF CounterInv, CartNumbers
      <4> QED BY <2>4, <4>1, <4>2 DEF CounterInv, CartNumbers
    <3> QED BY <1>6, <3>1, <3>2
  <2>5. CartNumbers'
    <3>1. (\A o \in DOMAIN orders : OwnNumber(orders[o].no))'
      BY <1>1, <2>1 DEF CounterInv, CartNumbers, OwnNumber
    <3>2. OneOrderPerCart'
      BY <1>1, <1>4 DEF CounterInv, CartNumbers, OneOrderPerCart
    <3>3. \A q \in Presses : ~Pressed(q)' /\ presses'[q].step # "sent"
      BY <1>3 DEF Pressed, NotPressed
    <3>4. ((\E i \in DOMAIN cart.lines : cart.lines[i].cloth) => cart.by # {})'
      BY <2>1 DEF CounterInv, CartNumbers
    <3> QED BY <1>1, <2>1, <2>4, <3>1, <3>2, <3>3, <3>4 DEF CartNumbers
  <2> QED BY <2>2, <2>3, <2>5 DEF CounterInv
<1> QED BY <1>5, <1>6

LEMMA CounterStep == CounterInv /\ [CounterNext]_counterVars => CounterInv'
<1> SUFFICES ASSUME CounterInv, [CounterNext]_counterVars PROVE CounterInv'
  OBVIOUS
<1>1. CASE UNCHANGED counterVars
  <2>1. ScreenOwn'
    BY <1>1 DEF counterVars, CounterInv, ScreenOwn, FiguresAreTheirs, CartIsTheirs, OneHand
  <2>2. CounterTypes'
    BY <1>1 DEF counterVars, CounterInv, CounterTypes
  <2> QED BY <1>1, <2>1, <2>2, QuietNumbers DEF counterVars, CounterInv
<1>2. CASE CounterNext
  BY <1>2, CustomerKeeps, ScreenKeeps, SaveKeeps, ChangeKeeps, LoadKeeps, EntriesKeep,
     MethodKeeps, CheckoutKeeps, CommitKeeps, EndKeeps DEF CounterNext
<1> QED BY <1>1, <1>2

\* Whatever order profiles, previews, checkouts and their answers arrive in, what is
\* on the counter's screen and under way stays as the inductive invariant says.
THEOREM CounterInvariant == CounterSpec => []CounterInv
  BY InitCounter, CounterStep, PTL DEF CounterSpec

\* The cart, the profiles, the orders and the requests of the till keep their types.
THEOREM CounterTypesHold == CounterSpec => []CounterTypeOK
<1>1. CounterInv => CounterTypeOK
  BY DEF CounterInv, CounterTypes, CounterTypeOK
<1> QED BY <1>1, CounterInvariant, PTL

\* An order never carries garments, figures or notes entered for another customer, unless
\* a late profile took the screen over: changing the customer empties the cart, all but
\* the method of the deposit.
THEOREM CartsAreTheirs == CounterSpec => []CartIsTheirs
<1>1. CounterInv => CartIsTheirs
  BY DEF CounterInv, ScreenOwn
<1> QED BY <1>1, CounterInvariant, PTL

\* What saving, checkout and late answers leave on a customer's file was typed for
\* that customer or read from their own file.
THEOREM FiguresOnFile == CounterSpec => []FiguresAreTheirs
<1>1. CounterInv => FiguresAreTheirs
  BY DEF CounterInv, ScreenOwn
<1> QED BY <1>1, CounterInvariant, PTL

\* Two orders of one cart are only possible where the answer to the first was lost:
\* an answered checkout starts a new cart, and the button waits for the answer.
THEOREM CartsOrderOnce == CounterSpec => []OneOrderPerCart
<1>1. CounterInv => OneOrderPerCart
  BY DEF CounterInv, CartNumbers
<1> QED BY <1>1, CounterInvariant, PTL

-----------------------------------------------------------------------------
\* The tablets.

FloorAnswer == [ticket : Tickets \cup {NoTicket}, station : STATION_ORDER, version : Nat,
                newer : BOOLEAN]
FloorRequest == [kind : {"board", "scan", "move", "figures"},
                 ticket : Tickets \cup {NoTicket}, to : STATION_ORDER, says : FloorAnswer,
                 board : [Tickets -> STATION_ORDER], served : BOOLEAN]

FloorTypes ==
  /\ station \in [Tickets -> STATION_ORDER]
  /\ active \in 1 .. MaxVersion
  /\ columns \in [Tablets -> [Tickets -> STATION_ORDER]]
  /\ scanned \in [Tablets -> FloorAnswer]
  /\ measure \in [Tablets -> FloorAnswer]
  /\ requests \in [Tablets -> SUBSET FloorRequest]
  /\ taps \in [Tablets -> 0 .. MaxTaps]
  /\ raced \in [Tablets -> BOOLEAN]

FewRequests ==
  \A w \in Tablets : IsFiniteSet(requests[w]) /\ Cardinality(requests[w]) <= MaxCalls

\* Figures of a ticket: those its line was ordered with.
FiguresOf(a, t) == a.ticket = t /\ a.version = OrderedAt[t]

\* Whoever asks for the figures of a ticket gets them.
AnswersFit ==
  \A w \in Tablets : \A r \in requests[w] :
    r.kind \in {"scan", "figures"} =>
      r.ticket \in Tickets /\ (r.served => FiguresOf(r.says, r.ticket))

\* What is asked for, and what has come, is about the ticket on show.
OneTicketAsked ==
  \A w \in Tablets :
    scanned[w].ticket # NoTicket /\ ~raced[w] =>
      /\ \A r \in requests[w] : r.kind = "figures" => r.ticket = scanned[w].ticket
      /\ measure[w].ticket # NoTicket => FiguresOf(measure[w], scanned[w].ticket)

FloorInv == FloorTypes /\ FewRequests /\ AnswersFit /\ OneTicketAsked

LEMMA UnansweredType == Unanswered \in FloorAnswer /\ Unanswered.ticket = NoTicket
  BY DEF Unanswered, FloorAnswer, STATION_ORDER, Queued, Ready

LEMMA AskType ==
  ASSUME NEW k \in {"board", "scan", "move", "figures"},
         NEW t \in Tickets \cup {NoTicket}, NEW s \in STATION_ORDER
  PROVE  /\ Ask(k, t, s) \in FloorRequest
         /\ Ask(k, t, s).kind = k /\ Ask(k, t, s).ticket = t /\ ~Ask(k, t, s).served
  BY UnansweredType DEF Ask, FloorRequest, STATION_ORDER, Queued, Ready

LEMMA InitFloor == FloorInit => FloorInv
<1> SUFFICES ASSUME FloorInit PROVE FloorInv
  OBVIOUS
<1> USE FloorAssumption, UnansweredType DEF FloorInit
<1>1. FloorTypes
  BY DEF FloorTypes, STATION_ORDER, Queued, Ready
<1>2. FewRequests
  BY FS_EmptySet DEF FewRequests
<1>3. AnswersFit
  BY DEF AnswersFit
<1>4. OneTicketAsked
  BY DEF OneTicketAsked
<1> QED BY <1>1, <1>2, <1>3, <1>4 DEF FloorInv

\* Counting: one more request where there was room, one less, one for another.
LEMMA CountAdd ==
  ASSUME NEW S, IsFiniteSet(S), NEW n \in Nat, Cardinality(S) < n, NEW x
  PROVE  IsFiniteSet(S \cup {x}) /\ Cardinality(S \cup {x}) <= n
<1>1. Cardinality(S) \in Nat
  BY FS_CardinalityType
<1>2. /\ IsFiniteSet(S \cup {x})
      /\ Cardinality(S \cup {x}) = IF x \in S THEN Cardinality(S) ELSE Cardinality(S) + 1
  BY FS_AddElement
<1> QED BY <1>1, <1>2

LEMMA CountRemove ==
  ASSUME NEW S, IsFiniteSet(S), NEW n \in Nat, Cardinality(S) <= n, NEW x \in S
  PROVE  /\ IsFiniteSet(S \ {x}) /\ Cardinality(S \ {x}) <= n
         /\ Cardinality(S \ {x}) < n
<1>1. Cardinality(S) \in Nat
  BY FS_CardinalityType
<1>2. /\ IsFiniteSet(S \ {x})
      /\ Cardinality(S \ {x}) = IF x \in S THEN Cardinality(S) - 1 ELSE Cardinality(S)
  BY FS_RemoveElement
<1> QED BY <1>1, <1>2

LEMMA CountReplace ==
  ASSUME NEW S, IsFiniteSet(S), NEW n \in Nat, Cardinality(S) <= n, NEW x \in S, NEW y
  PROVE  IsFiniteSet((S \ {x}) \cup {y}) /\ Cardinality((S \ {x}) \cup {y}) <= n
<1>1. IsFiniteSet(S \ {x}) /\ Cardinality(S \ {x}) < n
  BY CountRemove
<1> QED BY <1>1, CountAdd

\* A step of the tablets or of the server changes one tablet's requests: S is what they
\* become, the others stay.
LEMMA RequestsChange ==
  ASSUME FloorInv, NEW w \in Tablets, NEW S \in SUBSET FloorRequest,
         requests' = [requests EXCEPT ![w] = S],
         IsFiniteSet(S), Cardinality(S) <= MaxCalls
  PROVE  /\ requests' \in [Tablets -> SUBSET FloorRequest]
         /\ FewRequests'
         /\ \A v \in Tablets : requests'[v] = IF v = w THEN S ELSE requests[v]
<1>1. requests' \in [Tablets -> SUBSET FloorRequest]
  BY DEF FloorInv, FloorTypes
<1>2. \A v \in Tablets : requests'[v] = IF v = w THEN S ELSE requests[v]
  BY DEF FloorInv, FloorTypes
<1>3. FewRequests'
  BY <1>2 DEF FloorInv, FewRequests
<1> QED BY <1>1, <1>2, <1>3

\* A new question leaves the answers that were right, right: it is no question for
\* figures, or it is one about the ticket on show, and it has no answer yet.
LEMMA RequestsAsk ==
  ASSUME FloorInv, NEW w \in Tablets, Cardinality(requests[w]) < MaxCalls,
         NEW k \in {"board", "scan", "move"},
         NEW t \in Tickets \cup {NoTicket}, k = "scan" => t \in Tickets,
         NEW s \in STATION_ORDER, Send(w, Ask(k, t, s)),
         UNCHANGED <<station, active, columns, scanned, measure, raced>>,
         taps' \in [Tablets -> 0 .. MaxTaps]
  PROVE  FloorInv'
<1> DEFINE S == requests[w] \cup {Ask(k, t, s)}
<1>1. /\ Ask(k, t, s) \in FloorRequest
      /\ Ask(k, t, s).kind = k /\ Ask(k, t, s).ticket = t /\ ~Ask(k, t, s).served
  BY AskType
<1>2. S \in SUBSET FloorRequest
  BY <1>1 DEF FloorInv, FloorTypes
<1>3. IsFiniteSet(S) /\ Cardinality(S) <= MaxCalls
  BY CountAdd, FloorAssumption DEF FloorInv, FewRequests
<1>4. requests' = [requests EXCEPT ![w] = S]
  BY DEF Send
<1> HIDE DEF S
<1>5. /\ requests' \in [Tablets -> SUBSET FloorRequest]
      /\ FewRequests'
      /\ \A v \in Tablets : requests'[v] = IF v = w THEN S ELSE requests[v]
  BY <1>2, <1>3, <1>4, RequestsChange
<1>6. FloorTypes'
  BY <1>5 DEF FloorInv, FloorTypes
<1>7. \A v \in Tablets : \A r \in requests'[v] :
         r \in requests[v] \/ (r.kind = k /\ r.ticket = t /\ ~r.served)
  BY <1>1, <1>5 DEF S
<1>8. AnswersFit'
  BY <1>7 DEF FloorInv, AnswersFit, FiguresOf
<1>9. OneTicketAsked'
  BY <1>7 DEF FloorInv, OneTicketAsked, FiguresOf
<1> QED BY <1>5, <1>6, <1>8, <1>9 DEF FloorInv

\* Load, Scan and Move ask; Cancel closes.
LEMMA TabletKeeps ==
  ASSUME FloorInv, NEW w \in Tablets,
         \/ Load(w) \/ Cancel(w)
         \/ \E t \in Tickets : Scan(w, t) \/ Move(w, t)
  PROVE  FloorInv'
<1> USE FloorAssumption
<1>1. CASE Load(w)
  <2>1. Queued \in STATION_ORDER
    BY DEF STATION_ORDER, Queued, Ready
  <2>2. taps' \in [Tablets -> 0 .. MaxTaps]
    BY <1>1 DEF Load, FloorInv, FloorTypes
  <2> QED BY <1>1, <2>1, <2>2, RequestsAsk DEF Load
<1>2. ASSUME NEW t \in Tickets, Scan(w, t) PROVE FloorInv'
  <2>1. Queued \in STATION_ORDER
    BY DEF STATION_ORDER, Queued, Ready
  <2>2. taps' \in [Tablets -> 0 .. MaxTaps]
    BY <1>2 DEF Scan, FloorInv, FloorTypes
  <2> QED BY <1>2, <2>1, <2>2, RequestsAsk DEF Scan
<1>3. ASSUME NEW t \in Tickets, Move(w, t) PROVE FloorInv'
  <2>1. PICK s \in Shows(w, t) : Send(w, Ask("move", t, s + 1))
    BY <1>3 DEF Move
  <2>2. s + 1 \in STATION_ORDER
    BY DEF Shows, STATION_ORDER, Queued, Ready
  <2>3. taps' \in [Tablets -> 0 .. MaxTaps]
    BY <1>3 DEF Move, FloorInv, FloorTypes
  <2> QED BY <1>3, <2>1, <2>2, <2>3, RequestsAsk DEF Move
<1>4. CASE Cancel(w)
  <2>1. FloorTypes'
    BY <1>4, UnansweredType DEF Cancel, FloorInv, FloorTypes
  <2>2. FewRequests' /\ AnswersFit'
    BY <1>4 DEF Cancel, FloorInv, FewRequests, AnswersFit, FiguresOf
  <2>3. OneTicketAsked'
    BY <1>4, UnansweredType DEF Cancel, FloorInv, FloorTypes, OneTicketAsked, FiguresOf
  <2> QED BY <2>1, <2>2, <2>3 DEF FloorInv
<1> QED BY <1>1, <1>2, <1>3, <1>4

\* The server answers with what the ticket was ordered with.
LEMMA ServeKeeps ==
  ASSUME FloorInv, NEW w \in Tablets, NEW c \in requests[w], Serve(w, c)
  PROVE  FloorInv'
<1> USE FloorAssumption
<1> DEFINE says == IF c.ticket = NoTicket THEN c.says
                   ELSE IF c.kind = "move" /\ c.to > station[c.ticket] + 1
                   THEN Unanswered ELSE forTicket(c.ticket)
           a == [c EXCEPT !.served = TRUE, !.board = station, !.says = says]
           S == (requests[w] \ {c}) \cup {a}
<1>1. c \in FloorRequest
  BY DEF FloorInv, FloorTypes
<1>2. c.ticket # NoTicket => c.ticket \in Tickets
  BY <1>1 DEF FloorRequest
<1>3. c.ticket \in Tickets => /\ forTicket(c.ticket) \in FloorAnswer
                              /\ FiguresOf(forTicket(c.ticket), c.ticket)
  BY DEF forTicket, FloorAnswer, FloorInv, FloorTypes, FiguresOf
<1>4. says \in FloorAnswer
  BY <1>1, <1>2, <1>3, UnansweredType DEF FloorRequest
<1>5. a \in FloorRequest /\ a.kind = c.kind /\ a.ticket = c.ticket /\ a.says = says
  <2> HIDE DEF says
  <2> QED BY <1>1, <1>4 DEF FloorRequest, FloorInv, FloorTypes
<1>6. S \in SUBSET FloorRequest
  BY <1>5 DEF FloorInv, FloorTypes
<1>7. IsFiniteSet(S) /\ Cardinality(S) <= MaxCalls
  BY CountReplace DEF FloorInv, FewRequests
<1>8. requests' = [requests EXCEPT ![w] = S]
  BY DEF Serve
<1>9. /\ requests' \in [Tablets -> SUBSET FloorRequest]
      /\ FewRequests'
      /\ \A v \in Tablets : requests'[v] = IF v = w THEN S ELSE requests[v]
  <2> HIDE DEF S
  <2> QED BY <1>6, <1>7, <1>8, RequestsChange
<1>10. station' \in [Tickets -> STATION_ORDER]
  <2>1. c.to \in STATION_ORDER
    BY <1>1 DEF FloorRequest
  <2> QED BY <2>1 DEF Serve, moveTicket, FloorInv, FloorTypes
<1>11. FloorTypes'
  BY <1>9, <1>10 DEF Serve, FloorInv, FloorTypes
<1>12. c.kind \in {"scan", "figures"} => c.ticket \in Tickets /\ FiguresOf(says, c.ticket)
  BY <1>3 DEF FloorInv, AnswersFit
<1>13. \A v \in Tablets : \A r \in requests'[v] : r \in requests[v] \/ (v = w /\ r = a)
  BY <1>9
<1> HIDE DEF a, S, says
<1>14. AnswersFit'
  BY <1>5, <1>12, <1>13 DEF FloorInv, AnswersFit, FiguresOf
<1>15. OneTicketAsked'
  BY <1>5, <1>13 DEF FloorInv, OneTicketAsked, FiguresOf, Serve
<1> QED BY <1>9, <1>11, <1>14, <1>15 DEF FloorInv

\* An answer that is taken off the list.
LEMMA OneLess ==
  ASSUME FloorInv, NEW w \in Tablets, NEW c \in requests[w],
         requests' = [requests EXCEPT ![w] = @ \ {c}]
  PROVE  /\ requests' \in [Tablets -> SUBSET FloorRequest]
         /\ FewRequests'
         /\ \A v \in Tablets : requests'[v] \subseteq requests[v]
<1> DEFINE S == requests[w] \ {c}
<1>1. S \in SUBSET FloorRequest
  BY DEF FloorInv, FloorTypes
<1>2. IsFiniteSet(S) /\ Cardinality(S) <= MaxCalls
  BY FloorAssumption, CountRemove DEF FloorInv, FewRequests
<1>3. \A v \in Tablets : S \subseteq requests[w]
  OBVIOUS
<1> HIDE DEF S
<1>4. requests' = [requests EXCEPT ![w] = S]
  BY DEF S
<1>5. /\ requests' \in [Tablets -> SUBSET FloorRequest]
      /\ FewRequests'
      /\ \A v \in Tablets : requests'[v] = IF v = w THEN S ELSE requests[v]
  BY <1>1, <1>2, <1>4, RequestsChange
<1> QED BY <1>3, <1>5

\* Opening a ticket asks for its figures; who asked for another's has raced.
LEMMA OpenKeeps ==
  ASSUME FloorInv, NEW w \in Tablets, NEW c \in requests[w], TicketOpened(w, c)
  PROVE  FloorInv'
<1> USE FloorAssumption
<1> DEFINE f == Ask("figures", c.ticket, Queued)
           S == (requests[w] \ {c}) \cup {f}
<1>1. c \in FloorRequest /\ c.ticket \in Tickets /\ FiguresOf(c.says, c.ticket)
  BY DEF FloorInv, FloorTypes, AnswersFit, TicketOpened, Arrives
<1>2. /\ f \in FloorRequest
      /\ f.kind = "figures" /\ f.ticket = c.ticket /\ ~f.served
  <2>1. Queued \in STATION_ORDER
    BY DEF STATION_ORDER, Queued, Ready
  <2> QED BY <1>1, <2>1, AskType
<1>3. S \in SUBSET FloorRequest
  BY <1>2 DEF FloorInv, FloorTypes
<1>4. IsFiniteSet(S) /\ Cardinality(S) <= MaxCalls
  BY CountReplace DEF FloorInv, FewRequests
<1>5. requests' = [requests EXCEPT ![w] = S]
  BY DEF TicketOpened
<1>6. /\ requests' \in [Tablets -> SUBSET FloorRequest]
      /\ FewRequests'
      /\ \A v \in Tablets : requests'[v] = IF v = w THEN S ELSE requests[v]
  <2> HIDE DEF S
  <2> QED BY <1>3, <1>4, <1>5, RequestsChange
<1>7. \A v \in Tablets : \A r \in requests'[v] : r \in requests[v] \/ (v = w /\ r = f)
  BY <1>6
<1> HIDE DEF f, S
<1>8. FloorTypes'
  BY <1>1, <1>6, UnansweredType
     DEF TicketOpened, FiguresOnOpen, FloorInv, FloorTypes, FloorRequest
<1>9. AnswersFit'
  BY <1>1, <1>2, <1>7 DEF FloorInv, AnswersFit, FiguresOf
<1>10. /\ scanned'[w].ticket = c.ticket
       /\ measure'[w].ticket = NoTicket
       /\ raced'[w] = \E d \in requests[w] : d.kind = "figures" /\ d.ticket # c.ticket
  BY <1>1, UnansweredType
     DEF TicketOpened, FiguresOnOpen, FloorInv, FloorTypes, FiguresOf
<1>11. \A v \in Tablets \ {w} : /\ scanned'[v] = scanned[v]
                                /\ measure'[v] = measure[v]
                                /\ raced'[v] = raced[v]
                                /\ \A r \in requests'[v] : r \in requests[v]
  BY <1>7 DEF TicketOpened, FloorInv, FloorTypes
<1>12. ASSUME NEW v \in Tablets, scanned'[v].ticket # NoTicket, ~raced'[v]
       PROVE  /\ \A r \in requests'[v] : r.kind = "figures" => r.ticket = scanned'[v].ticket
              /\ measure'[v].ticket # NoTicket => FiguresOf(measure'[v], scanned'[v].ticket)
  <2>1. CASE v = w
    BY <1>2, <1>7, <1>10, <1>12, <2>1
  <2>2. CASE v # w
    BY <1>11, <1>12, <2>2 DEF FloorInv, OneTicketAsked
  <2> QED BY <2>1, <2>2
<1>13. OneTicketAsked'
  BY <1>12 DEF OneTicketAsked, FiguresOf
<1> QED BY <1>6, <1>8, <1>9, <1>13 DEF FloorInv

LEMMA ArrivalKeeps ==
  ASSUME FloorInv, NEW w \in Tablets, NEW c \in requests[w],
         \/ BoardLoaded(w, c) \/ FiguresLoaded(w, c) \/ FiguresFailed(w, c)
  PROVE  FloorInv'
<1>1. requests' = [requests EXCEPT ![w] = @ \ {c}]
  BY DEF BoardLoaded, FiguresLoaded, FiguresFailed
<1>2. /\ requests' \in [Tablets -> SUBSET FloorRequest]
      /\ FewRequests'
      /\ \A v \in Tablets : requests'[v] \subseteq requests[v]
  BY <1>1, OneLess
<1>3. AnswersFit'
  BY <1>2 DEF FloorInv, AnswersFit, FiguresOf
<1>4. c \in FloorRequest
  BY DEF FloorInv, FloorTypes
<1>5. FloorTypes'
  BY <1>2, <1>4, UnansweredType
     DEF BoardLoaded, FiguresLoaded, FiguresFailed, FloorInv, FloorTypes, FloorRequest
<1>6. OneTicketAsked'
  <2>1. CASE BoardLoaded(w, c)
    BY <1>2, <2>1 DEF BoardLoaded, FloorInv, OneTicketAsked, FiguresOf
  <2>2. CASE FiguresLoaded(w, c)
    <3>1. c.ticket \in Tickets /\ FiguresOf(c.says, c.ticket) /\ c.kind = "figures"
      BY <2>2 DEF FiguresLoaded, Arrives, FloorInv, AnswersFit
    <3>2. \A v \in Tablets : measure'[v] = IF v = w THEN c.says ELSE measure[v]
      BY <2>2 DEF FiguresLoaded, FloorInv, FloorTypes
    <3>3. UNCHANGED <<scanned, raced>>
      BY <2>2 DEF FiguresLoaded
    <3> QED BY <1>2, <3>1, <3>2, <3>3 DEF FloorInv, OneTicketAsked, FiguresOf
  <2>3. CASE FiguresFailed(w, c)
    <3>1. \A v \in Tablets : measure'[v] = IF v = w THEN Unanswered ELSE measure[v]
      BY <2>3 DEF FiguresFailed, FloorInv, FloorTypes
    <3>2. UNCHANGED <<scanned, raced>>
      BY <2>3 DEF FiguresFailed
    <3> QED BY <1>2, <3>1, <3>2, UnansweredType DEF FloorInv, OneTicketAsked, FiguresOf
  <2> QED BY <2>1, <2>2, <2>3
<1> QED BY <1>2, <1>3, <1>5, <1>6 DEF FloorInv

\* A move that went through closes the modal and asks for the board.
LEMMA MovedKeeps ==
  ASSUME FloorInv, NEW w \in Tablets, NEW c \in requests[w], Moved(w, c)
  PROVE  FloorInv'
<1> USE FloorAssumption
<1>1. CASE c.says = Unanswered
  <2>1. requests' = [requests EXCEPT ![w] = @ \ {c}] /\ UNCHANGED scanned
    BY <1>1 DEF Moved
  <2>2. /\ requests' \in [Tablets -> SUBSET FloorRequest]
        /\ FewRequests'
        /\ \A v \in Tablets : requests'[v] \subseteq requests[v]
    BY <2>1, OneLess
  <2>3. FloorTypes'
    BY <2>1, <2>2 DEF Moved, FloorInv, FloorTypes
  <2>4. AnswersFit' /\ OneTicketAsked'
    BY <2>1, <2>2 DEF Moved, FloorInv, AnswersFit, OneTicketAsked, FiguresOf
  <2> QED BY <2>2, <2>3, <2>4 DEF FloorInv
<1>2. CASE c.says # Unanswered
  <2> DEFINE b == Ask("board", NoTicket, Queued)
             S == (requests[w] \ {c}) \cup {b}
  <2>1. b \in FloorRequest /\ b.kind = "board"
    <3>1. Queued \in STATION_ORDER
      BY DEF STATION_ORDER, Queued, Ready
    <3> QED BY <3>1, AskType
  <2>2. S \in SUBSET FloorRequest
    BY <2>1 DEF FloorInv, FloorTypes
  <2>3. IsFiniteSet(S) /\ Cardinality(S) <= MaxCalls
    BY CountReplace DEF FloorInv, FewRequests
  <2>4. /\ requests' = [requests EXCEPT ![w] = S]
        /\ scanned' = [scanned EXCEPT ![w] = Unanswered]
        /\ UNCHANGED <<station, active, columns, measure, taps, raced>>
    BY <1>2 DEF Moved
  <2> HIDE DEF b
  <2>5. /\ requests' \in [Tablets -> SUBSET FloorRequest]
        /\ FewRequests'
        /\ \A v \in Tablets : requests'[v] = IF v = w THEN S ELSE requests[v]
    <3> HIDE DEF S
    <3> QED BY <2>2, <2>3, <2>4, RequestsChange
  <2>6. \A v \in Tablets : \A r \in requests'[v] : r \in requests[v] \/ r.kind = "board"
    BY <2>1, <2>5
  <2>7. FloorTypes'
    BY <2>4, <2>5, UnansweredType DEF FloorInv, FloorTypes
  <2>8. AnswersFit'
    BY <2>6 DEF FloorInv, AnswersFit, FiguresOf
  <2>9. \A v \in Tablets : scanned'[v] = IF v = w THEN Unanswered ELSE scanned[v]
    BY <2>4 DEF FloorInv, FloorTypes
  <2>10. OneTicketAsked'
    BY <2>4, <2>6, <2>9, UnansweredType DEF FloorInv, OneTicketAsked, FiguresOf
  <2> QED BY <2>5, <2>7, <2>8, <2>10 DEF FloorInv
<1> QED BY <1>1, <1>2

LEMMA FloorStep == FloorInv /\ [FloorNext]_floorVars => FloorInv'
<1> SUFFICES ASSUME FloorInv, [FloorNext]_floorVars PROVE FloorInv'
  OBVIOUS
<1>1. CASE Remeasure
  <2>1. FloorTypes'
    BY <1>1, FloorAssumption DEF Remeasure, FloorInv, FloorTypes
  <2> QED BY <1>1, <2>1
          DEF Remeasure, FloorInv, FewRequests, AnswersFit, OneTicketAsked, FiguresOf
<1>2. ASSUME NEW w \in Tablets,
             \/ Load(w) \/ Cancel(w)
             \/ \E t \in Tickets : Scan(w, t) \/ Move(w, t)
      PROVE  FloorInv'
  BY <1>2, TabletKeeps
<1>3. ASSUME NEW w \in Tablets, NEW c \in requests[w],
             \/ Serve(w, c) \/ BoardLoaded(w, c) \/ TicketOpened(w, c)
             \/ FiguresLoaded(w, c) \/ FiguresFailed(w, c) \/ Moved(w, c)
      PROVE  FloorInv'
  BY <1>3, ServeKeeps, ArrivalKeeps, OpenKeeps, MovedKeeps
<1>4. CASE UNCHANGED floorVars
  BY <1>4 DEF floorVars, FloorInv, FloorTypes, FewRequests, AnswersFit, OneTicketAsked,
              FiguresOf
<1> QED BY <1>1, <1>2, <1>3, <1>4 DEF FloorNext

\* Whatever a tablet has asked for and the server has answered, in any order, fits
\* the ticket it was asked about.
THEOREM FloorInvariant == FloorSpec => []FloorInv
  BY InitFloor, FloorStep, PTL DEF FloorSpec

\* The figures shown under an open ticket are those it was ordered with, unless the
\* worker opened two tickets faster than their figures came.
THEOREM FiguresFit == FloorSpec => []FiguresFitTheTicket
<1>1. FloorInv => FiguresFitTheTicket
  BY DEF FloorInv, FloorTypes, OneTicketAsked, FiguresFitTheTicket, FiguresOf, FloorAnswer
<1> QED BY <1>1, FloorInvariant, PTL

\* The board, the open ticket and the requests of every tablet keep their types.
THEOREM FloorTypesHold == FloorSpec => []FloorTypeOK
<1>1. FloorInv => FloorTypeOK
  BY DEF FloorInv, FloorTypes, FewRequests, FloorTypeOK, FloorAnswer
<1> QED BY <1>1, FloorInvariant, PTL

-----------------------------------------------------------------------------
(* The pages of the front ends (Screens, Routes): first the tables of the  *)
(* routes, then what they say of each page, then the machine.              *)

\* An entry of one of the tables, when no other table has it.
LEMMA EntryOf ==
  ASSUME NEW tables, NEW t \in tables, NEW x \in DOMAIN t,
         \A u \in tables : x \in DOMAIN u => u = t
  PROVE  x \in DOMAIN Together(tables) /\ Together(tables)[x] = t[x]
BY DEF Together

Controllers ==
  {InventoryRoutes, OrderRoutes, InvoiceRoutes, PosRoutes, WorkshopRoutes,
   CustomerRoutes, AppointmentRoutes, DashboardRoutes, LedgerRoutes, StoreRoutes,
   ButtonRoutes, TeamRoutes, OrganizationRoutes, ZatcaRoutes, BillingRoutes,
   PlatformRoutes, PwaRoutes}

\* The routes of each controller.
LEMMA RouteNames ==
  /\ DOMAIN InventoryRoutes =
       {"batches_create", "sellable", "batches_list", "batch", "movements",
        "adjust", "transfer", "alerts", "alert_set", "reorder_list", "reorder_set"}
  /\ DOMAIN OrderRoutes =
       {"orders_create", "orders_list", "order", "order_status", "payments"}
  /\ DOMAIN InvoiceRoutes =
       {"invoices_list", "invoice_create", "invoice_download"}
  /\ DOMAIN PosRoutes =
       {"pos_customers", "pos_profile", "pos_yield", "pos_orders", "settle"}
  /\ DOMAIN WorkshopRoutes =
       {"ticket_measurements", "board", "by_code", "station"}
  /\ DOMAIN CustomerRoutes =
       {"customers_list", "customer", "customers_create", "measurements_active",
        "measurements_history", "measurements_add"}
  /\ DOMAIN AppointmentRoutes =
       {"appointments_list", "appointment_set"}
  /\ DOMAIN DashboardRoutes =
       {"dashboard_hq", "dashboard_store"}
  /\ DOMAIN LedgerRoutes =
       {"bootstrap", "trial_balance", "statement"}
  /\ DOMAIN StoreRoutes =
       {"stores_list", "stores_create", "store_set"}
  /\ DOMAIN ButtonRoutes =
       {"buttons_list", "buttons_create", "button_set"}
  /\ DOMAIN TeamRoutes =
       {"users_list", "invite", "user_status"}
  /\ DOMAIN OrganizationRoutes =
       {"organization", "organization_set"}
  /\ DOMAIN ZatcaRoutes =
       {"onboarding", "compliance_csid", "compliance_checks", "production_csid",
        "renew", "revoke"}
  /\ DOMAIN BillingRoutes =
       {"plans_offered", "subscription", "checkout", "portal", "stripe_invoices",
        "admin_checkout", "admin_portal", "admin_invoices"}
  /\ DOMAIN PlatformRoutes =
       {"metrics", "tenants", "tenant", "tenants_create", "tenant_set",
        "plan_change", "plans", "plans_upsert", "impersonate", "admins",
        "admins_create", "admin_set", "audit"}
  /\ DOMAIN PwaRoutes =
       {"my_orders", "my_order", "my_measurements", "my_points", "push_key",
        "devices"}
BY DEF InventoryRoutes, OrderRoutes, InvoiceRoutes, PosRoutes, WorkshopRoutes,
       CustomerRoutes, AppointmentRoutes, DashboardRoutes, LedgerRoutes,
       StoreRoutes, ButtonRoutes, TeamRoutes, OrganizationRoutes, ZatcaRoutes,
       BillingRoutes, PlatformRoutes, PwaRoutes

\* No two controllers have a route of the same name.
LEMMA RoutesAre ==
  /\ \A r \in DOMAIN InventoryRoutes : Routes[r] = InventoryRoutes[r]
  /\ \A r \in DOMAIN OrderRoutes : Routes[r] = OrderRoutes[r]
  /\ \A r \in DOMAIN InvoiceRoutes : Routes[r] = InvoiceRoutes[r]
  /\ \A r \in DOMAIN PosRoutes : Routes[r] = PosRoutes[r]
  /\ \A r \in DOMAIN WorkshopRoutes : Routes[r] = WorkshopRoutes[r]
  /\ \A r \in DOMAIN CustomerRoutes : Routes[r] = CustomerRoutes[r]
  /\ \A r \in DOMAIN AppointmentRoutes : Routes[r] = AppointmentRoutes[r]
  /\ \A r \in DOMAIN DashboardRoutes : Routes[r] = DashboardRoutes[r]
  /\ \A r \in DOMAIN LedgerRoutes : Routes[r] = LedgerRoutes[r]
  /\ \A r \in DOMAIN StoreRoutes : Routes[r] = StoreRoutes[r]
  /\ \A r \in DOMAIN ButtonRoutes : Routes[r] = ButtonRoutes[r]
  /\ \A r \in DOMAIN TeamRoutes : Routes[r] = TeamRoutes[r]
  /\ \A r \in DOMAIN OrganizationRoutes : Routes[r] = OrganizationRoutes[r]
  /\ \A r \in DOMAIN ZatcaRoutes : Routes[r] = ZatcaRoutes[r]
  /\ \A r \in DOMAIN BillingRoutes : Routes[r] = BillingRoutes[r]
  /\ \A r \in DOMAIN PlatformRoutes : Routes[r] = PlatformRoutes[r]
  /\ \A r \in DOMAIN PwaRoutes : Routes[r] = PwaRoutes[r]
<1>1. ASSUME NEW t \in Controllers, NEW r \in DOMAIN t,
             \A u \in Controllers : r \in DOMAIN u => u = t
      PROVE  Routes[r] = t[r]
  <2>1. Routes = Together(Controllers)
    BY DEF Routes, Controllers
  <2> QED BY <1>1, <2>1, EntryOf
<1>2. ASSUME NEW r \in DOMAIN InventoryRoutes, NEW u \in Controllers, r \in DOMAIN u
      PROVE  u = InventoryRoutes
  BY <1>2, RouteNames DEF Controllers
<1>3. ASSUME NEW r \in DOMAIN OrderRoutes, NEW u \in Controllers, r \in DOMAIN u
      PROVE  u = OrderRoutes
  BY <1>3, RouteNames DEF Controllers
<1>4. ASSUME NEW r \in DOMAIN InvoiceRoutes, NEW u \in Controllers, r \in DOMAIN u
      PROVE  u = InvoiceRoutes
  BY <1>4, RouteNames DEF Controllers
<1>5. ASSUME NEW r \in DOMAIN PosRoutes, NEW u \in Controllers, r \in DOMAIN u
      PROVE  u = PosRoutes
  BY <1>5, RouteNames DEF Controllers
<1>6. ASSUME NEW r \in DOMAIN WorkshopRoutes, NEW u \in Controllers, r \in DOMAIN u
      PROVE  u = WorkshopRoutes
  BY <1>6, RouteNames DEF Controllers
<1>7. ASSUME NEW r \in DOMAIN CustomerRoutes, NEW u \in Controllers, r \in DOMAIN u
      PROVE  u = CustomerRoutes
  BY <1>7, RouteNames DEF Controllers
<1>8. ASSUME NEW r \in DOMAIN AppointmentRoutes, NEW u \in Controllers, r \in DOMAIN u
      PROVE  u = AppointmentRoutes
  BY <1>8, RouteNames DEF Controllers
<1>9. ASSUME NEW r \in DOMAIN DashboardRoutes, NEW u \in Controllers, r \in DOMAIN u
      PROVE  u = DashboardRoutes
  BY <1>9, RouteNames DEF Controllers
<1>10. ASSUME NEW r \in DOMAIN LedgerRoutes, NEW u \in Controllers, r \in DOMAIN u
      PROVE  u = LedgerRoutes
  BY <1>10, RouteNames DEF Controllers
<1>11. ASSUME NEW r \in DOMAIN StoreRoutes, NEW u \in Controllers, r \in DOMAIN u
      PROVE  u = StoreRoutes
  BY <1>11, RouteNames DEF Controllers
<1>12. ASSUME NEW r \in DOMAIN ButtonRoutes, NEW u \in Controllers, r \in DOMAIN u
      PROVE  u = ButtonRoutes
  BY <1>12, RouteNames DEF Controllers
<1>13. ASSUME NEW r \in DOMAIN TeamRoutes, NEW u \in Controllers, r \in DOMAIN u
      PROVE  u = TeamRoutes
  BY <1>13, RouteNames DEF Controllers
<1>14. ASSUME NEW r \in DOMAIN OrganizationRoutes, NEW u \in Controllers, r \in DOMAIN u
      PROVE  u = OrganizationRoutes
  BY <1>14, RouteNames DEF Controllers
<1>15. ASSUME NEW r \in DOMAIN ZatcaRoutes, NEW u \in Controllers, r \in DOMAIN u
      PROVE  u = ZatcaRoutes
  BY <1>15, RouteNames DEF Controllers
<1>16. ASSUME NEW r \in DOMAIN BillingRoutes, NEW u \in Controllers, r \in DOMAIN u
      PROVE  u = BillingRoutes
  BY <1>16, RouteNames DEF Controllers
<1>17. ASSUME NEW r \in DOMAIN PlatformRoutes, NEW u \in Controllers, r \in DOMAIN u
      PROVE  u = PlatformRoutes
  BY <1>17, RouteNames DEF Controllers
<1>18. ASSUME NEW r \in DOMAIN PwaRoutes, NEW u \in Controllers, r \in DOMAIN u
      PROVE  u = PwaRoutes
  BY <1>18, RouteNames DEF Controllers
<1>19. /\ InventoryRoutes \in Controllers
      /\ OrderRoutes \in Controllers
      /\ InvoiceRoutes \in Controllers
      /\ PosRoutes \in Controllers
      /\ WorkshopRoutes \in Controllers
      /\ CustomerRoutes \in Controllers
      /\ AppointmentRoutes \in Controllers
      /\ DashboardRoutes \in Controllers
      /\ LedgerRoutes \in Controllers
      /\ StoreRoutes \in Controllers
      /\ ButtonRoutes \in Controllers
      /\ TeamRoutes \in Controllers
      /\ OrganizationRoutes \in Controllers
      /\ ZatcaRoutes \in Controllers
      /\ BillingRoutes \in Controllers
      /\ PlatformRoutes \in Controllers
      /\ PwaRoutes \in Controllers
  BY DEF Controllers
<1> QED BY <1>1, <1>2, <1>3, <1>4, <1>5, <1>6, <1>7, <1>8, <1>9, <1>10, <1>11, <1>12, <1>13,
      <1>14, <1>15, <1>16, <1>17, <1>18, <1>19

-----------------------------------------------------------------------------
(* What the tables say of each page, and of each of its buttons.           *)

\* Rights that leave a page of the tablet with what its tab does not look at.
Covers(n, R) == Unasked[n] \subseteq R

\* Somebody with these tokens is shown the page or the button.
Displays(to, tokens) == to = {} \/ to \cap tokens # {}

\* A page about one row loads nothing that does not look its row up in the store.
LoadsItsRow(n, r) == n \in DOMAIN From => Routes[r].scope = "store"

\* Nor does a button on a row call anything else, invoices and transfers aside.
ActsOnItsRow(act, r) ==
  "row" \in act.ways =>
    Routes[r].scope = "store" \/ r \in DOMAIN InvoiceRoutes \cup {"transfer"}

\* A button that may be pressed twice has no effect twice, but for those named.
PressSound(n, b, act) ==
  \/ "busy" \in act.ways
  \/ <<n, b>> \in TwiceTaken
  \/ \A r \in act.calls : Routes[r].twice \notin {"again", "races"}

\* In the back office a route of a store waits for the store.
AdminLoad(n, p, r) ==
  /\ Routes[r].guard = "staff" /\ LoadsItsRow(n, r)
  /\ Routes[r].scope = "store" =>
       \/ "needs store" \in p.ways
       \/ n \in {"Dashboard", "NewOrder", "OrderDetail", "BatchDetail"}

AdminCall(n, p, act, r) ==
  /\ Routes[r].guard = "staff" /\ ActsOnItsRow(act, r)
  /\ Routes[r].scope = "store" =>
       \/ "needs store" \in p.ways \/ "store" \in act.ways
       \/ n \in {"OrderDetail", "BatchDetail"}

\* On the tablet whoever is shown a tab may load it, and do what is on it.
PosLoad(n, p, r) ==
  /\ Routes[r].guard = "staff" /\ LoadsItsRow(n, r)
  /\ \A R : Covers(n, R) /\ Displays(p.to, R) => Routes[r].needs \subseteq R

PosCall(n, p, act, r) ==
  /\ Routes[r].guard = "staff" /\ ActsOnItsRow(act, r)
  /\ \A R : Covers(n, R) /\ Displays(p.to, R) /\ Displays(act.to, R) =>
              Routes[r].needs \subseteq R \/ <<n, r>> \in Overoffers

\* So it is on the console, page by page and level by level.
PlatformLoad(n, p, r) ==
  /\ Routes[r].guard = "platform" /\ Routes[r].scope = "none"
  /\ \A l \in Levels :
       Displays(p.to, {l}) => l \in Routes[r].needs \/ <<n, r>> \in Overoffers

PlatformCall(n, p, act, r) ==
  /\ Routes[r].guard = "platform" /\ Routes[r].scope = "none"
  /\ \A l \in Levels : Displays(p.to, {l}) /\ Displays(act.to, {l}) =>
                         l \in Routes[r].needs \/ <<n, r>> \in Overoffers

PwaLoad(n, p, r) == Routes[r].guard = "customer" /\ Routes[r].scope = "none"

PwaCall(n, p, act, r) == PwaLoad(n, p, r)

AdminSound(n, p) ==
  /\ p.app = "admin"
  /\ \A r \in p.loads : AdminLoad(n, p, r)
  /\ \A b \in DOMAIN p.does :
       /\ \A r \in p.does[b].calls : AdminCall(n, p, p.does[b], r)
       /\ PressSound(n, b, p.does[b])

PosSound(n, p) ==
  /\ p.app = "pos"
  /\ n = "Counter" => p.to = {"use_pos"}
  /\ n = "Workshop" => p.to = {"view_workshop"}
  /\ \A r \in p.loads : PosLoad(n, p, r)
  /\ \A b \in DOMAIN p.does :
       /\ \A r \in p.does[b].calls : PosCall(n, p, p.does[b], r)
       /\ PressSound(n, b, p.does[b])

PlatformSound(n, p) ==
  /\ p.app = "platform"
  /\ \A r \in p.loads : PlatformLoad(n, p, r)
  /\ \A b \in DOMAIN p.does :
       /\ \A r \in p.does[b].calls : PlatformCall(n, p, p.does[b], r)
       /\ PressSound(n, b, p.does[b])

PwaSound(n, p) ==
  /\ p.app = "pwa"
  /\ \A r \in p.loads : PwaLoad(n, p, r)
  /\ \A b \in DOMAIN p.does :
       /\ \A r \in p.does[b].calls : PwaCall(n, p, p.does[b], r)
       /\ PressSound(n, b, p.does[b])

\* An entry of several tables is that of one of them.
LEMMA EntryFrom ==
  ASSUME NEW tables, NEW x \in DOMAIN Together(tables)
  PROVE  \E t \in tables : x \in DOMAIN t /\ Together(tables)[x] = t[x]
BY DEF Together

LEMMA AdminPagesSound ==
  \A n \in DOMAIN AdminPages : AdminSound(n, AdminPages[n])
<1>1. DOMAIN AdminPages =
       {"Dashboard", "HqDashboard", "Orders", "OrderDetail", "NewOrder",
        "CustomersPage", "Drawer", "Inventory", "BatchDetail", "Alerts",
        "Appointments", "Invoices", "Team", "Stores", "Billing", "Ledger",
        "Buttons", "Settings"}
  BY DEF AdminPages
<1>2. /\ AdminPages.Dashboard = AdminDashboard
      /\ AdminPages.HqDashboard = HqDashboard
      /\ AdminPages.Orders = AdminOrders
      /\ AdminPages.OrderDetail = AdminOrderDetail
      /\ AdminPages.NewOrder = NewOrder
      /\ AdminPages.CustomersPage = CustomersPage
      /\ AdminPages.Drawer = CustomerDetailDrawer
      /\ AdminPages.Inventory = Inventory
      /\ AdminPages.BatchDetail = BatchDetail
      /\ AdminPages.Alerts = Alerts
      /\ AdminPages.Appointments = AdminAppointments
      /\ AdminPages.Invoices = InvoicesList
      /\ AdminPages.Team = Team
      /\ AdminPages.Stores = AdminStores
      /\ AdminPages.Billing = AdminBilling
      /\ AdminPages.Ledger = Ledger
      /\ AdminPages.Buttons = AdminButtons
      /\ AdminPages.Settings = Settings
  BY DEF AdminPages
<1>3. AdminSound("Dashboard", AdminDashboard)
  BY RoutesAre
     DEF AdminDashboard, Nothing, Screen, Act, DashboardRoutes, Staff, AdminSound,
         AdminLoad, AdminCall, PressSound, LoadsItsRow, ActsOnItsRow, TwiceTaken,
         From
<1>4. AdminSound("HqDashboard", HqDashboard)
  BY RoutesAre
     DEF HqDashboard, Nothing, Screen, Act, DashboardRoutes, Staff, AdminSound,
         AdminLoad, AdminCall, PressSound, LoadsItsRow, ActsOnItsRow, TwiceTaken,
         From
<1>5. AdminSound("Orders", AdminOrders)
  BY RoutesAre
     DEF AdminOrders, Listing, Nothing, Screen, Act, OrderRoutes, Staff,
         AdminSound, AdminLoad, AdminCall, PressSound, LoadsItsRow, ActsOnItsRow,
         TwiceTaken, From
<1>6. AdminSound("OrderDetail", AdminOrderDetail)
  BY RoutesAre
     DEF AdminOrderDetail, Screen, Act, InvoiceRoutes, OrderRoutes, Staff,
         AdminSound, AdminLoad, AdminCall, PressSound, LoadsItsRow, ActsOnItsRow,
         TwiceTaken, From
<1>7. AdminSound("NewOrder", NewOrder)
  BY RoutesAre
     DEF NewOrder, Screen, Act, CustomerRoutes, InventoryRoutes, OrderRoutes,
         Staff, AdminSound, AdminLoad, AdminCall, PressSound, LoadsItsRow,
         ActsOnItsRow, TwiceTaken, From
<1>8. AdminSound("CustomersPage", CustomersPage)
  BY RoutesAre
     DEF CustomersPage, Screen, Act, CustomerRoutes, Staff, AdminSound, AdminLoad,
         AdminCall, PressSound, LoadsItsRow, ActsOnItsRow, TwiceTaken, From
<1>9. AdminSound("Drawer", CustomerDetailDrawer)
  BY RoutesAre
     DEF CustomerDetailDrawer, Nothing, Screen, Act, CustomerRoutes, Staff,
         AdminSound, AdminLoad, AdminCall, PressSound, LoadsItsRow, ActsOnItsRow,
         TwiceTaken, From
<1>10. AdminSound("Inventory", Inventory)
  BY RoutesAre
     DEF Inventory, Listing, Screen, Act, InventoryRoutes, Staff, AdminSound,
         AdminLoad, AdminCall, PressSound, LoadsItsRow, ActsOnItsRow, TwiceTaken,
         From
<1>11. AdminSound("BatchDetail", BatchDetail)
  BY RoutesAre
     DEF BatchDetail, Screen, Act, InventoryRoutes, Staff, AdminSound, AdminLoad,
         AdminCall, PressSound, LoadsItsRow, ActsOnItsRow, TwiceTaken, From
<1>12. AdminSound("Alerts", Alerts)
  BY RoutesAre
     DEF Alerts, Listing, Screen, Act, InventoryRoutes, Staff, AdminSound,
         AdminLoad, AdminCall, PressSound, LoadsItsRow, ActsOnItsRow, TwiceTaken,
         From
<1>13. AdminSound("Appointments", AdminAppointments)
  BY RoutesAre
     DEF AdminAppointments, Listing, Screen, Act, AppointmentRoutes, Staff,
         AdminSound, AdminLoad, AdminCall, PressSound, LoadsItsRow, ActsOnItsRow,
         TwiceTaken, From
<1>14. AdminSound("Invoices", InvoicesList)
  BY RoutesAre
     DEF InvoicesList, Listing, Screen, Act, InvoiceRoutes, Staff, AdminSound,
         AdminLoad, AdminCall, PressSound, LoadsItsRow, ActsOnItsRow, TwiceTaken,
         From
<1>15. AdminSound("Team", Team)
  <2>1. /\ Team.app = "admin" /\ Team.loads = {"users_list"}
        /\ Team.does = Together({InviteForm, [toggle |-> Act({"user_status"}, {}, {})]})
    BY DEF Team, Screen
  <2>2. ASSUME NEW b \in DOMAIN Team.does
        PROVE  /\ Team.does[b].ways = {}
               /\ \/ b = "invite" /\ Team.does[b].calls = {"invite"}
                  \/ b = "toggle" /\ Team.does[b].calls = {"user_status"}
    BY <2>1, EntryFrom DEF InviteForm, Act
  <2>3. /\ \A r \in {"users_list", "invite", "user_status"} :
             Routes[r].guard = "staff" /\ Routes[r].scope = "org"
        /\ Routes["user_status"].twice = "same"
    BY RoutesAre DEF TeamRoutes, Staff
  <2>4. "Team" \notin DOMAIN From
    BY DEF From
  <2>5. AdminLoad("Team", Team, "users_list")
    BY <2>3, <2>4 DEF AdminLoad, LoadsItsRow
  <2>6. ASSUME NEW b \in DOMAIN Team.does
        PROVE  /\ \A r \in Team.does[b].calls : AdminCall("Team", Team, Team.does[b], r)
               /\ PressSound("Team", b, Team.does[b])
    <3>1. \A r \in Team.does[b].calls : AdminCall("Team", Team, Team.does[b], r)
      BY <2>2, <2>3 DEF AdminCall, ActsOnItsRow
    <3>2. PressSound("Team", b, Team.does[b])
      BY <2>2, <2>3 DEF PressSound, TwiceTaken
    <3> QED BY <3>1, <3>2
  <2> QED BY <2>1, <2>5, <2>6 DEF AdminSound
<1>16. AdminSound("Stores", AdminStores)
  BY RoutesAre
     DEF AdminStores, Screen, Act, StoreRoutes, Staff, AdminSound, AdminLoad,
         AdminCall, PressSound, LoadsItsRow, ActsOnItsRow, TwiceTaken, From
<1>17. AdminSound("Billing", AdminBilling)
  BY RoutesAre
     DEF AdminBilling, Screen, Act, BillingRoutes, Staff, AdminSound, AdminLoad,
         AdminCall, PressSound, LoadsItsRow, ActsOnItsRow, TwiceTaken, From
<1>18. AdminSound("Ledger", Ledger)
  BY RoutesAre
     DEF Ledger, Screen, Act, LedgerRoutes, Staff, AdminSound, AdminLoad,
         AdminCall, PressSound, LoadsItsRow, ActsOnItsRow, TwiceTaken, From
<1>19. AdminSound("Buttons", AdminButtons)
  BY RoutesAre
     DEF AdminButtons, Screen, Act, ButtonRoutes, Staff, AdminSound, AdminLoad,
         AdminCall, PressSound, LoadsItsRow, ActsOnItsRow, TwiceTaken, From
<1>20. AdminSound("Settings", Settings)
  <2>1. /\ Settings.app = "admin" /\ Settings.loads = {"organization", "onboarding"}
        /\ Settings.does = Together({BusinessProfileCard, CsidForm, OnboardingSteps})
    BY DEF Settings, Screen
  <2>2. ASSUME NEW t \in {BusinessProfileCard, CsidForm, OnboardingSteps},
               NEW b \in DOMAIN t
        PROVE  /\ t[b].ways = {"busy"}
               /\ t[b].calls \subseteq DOMAIN OrganizationRoutes \cup DOMAIN ZatcaRoutes
    BY RouteNames DEF BusinessProfileCard, CsidForm, OnboardingSteps, Act
  <2>3. \A r \in DOMAIN OrganizationRoutes \cup DOMAIN ZatcaRoutes :
           Routes[r].guard = "staff" /\ Routes[r].scope = "org"
    BY RoutesAre DEF OrganizationRoutes, ZatcaRoutes, Staff
  <2>4. /\ "Settings" \notin DOMAIN From
        /\ Settings.loads \subseteq DOMAIN OrganizationRoutes \cup DOMAIN ZatcaRoutes
    BY <2>1, RouteNames DEF From
  <2>5. ASSUME NEW b \in DOMAIN Settings.does
        PROVE  /\ Settings.does[b].ways = {"busy"}
               /\ \A r \in Settings.does[b].calls :
                     Routes[r].guard = "staff" /\ Routes[r].scope = "org"
    <3>1. PICK t \in {BusinessProfileCard, CsidForm, OnboardingSteps} :
             b \in DOMAIN t /\ Settings.does[b] = t[b]
      BY <2>1, EntryFrom
    <3>2. /\ t[b].ways = {"busy"}
          /\ t[b].calls \subseteq DOMAIN OrganizationRoutes \cup DOMAIN ZatcaRoutes
      BY <2>2, <3>1
    <3> QED BY <2>3, <3>1, <3>2
  <2>6. \A r \in Settings.loads : AdminLoad("Settings", Settings, r)
    BY <2>3, <2>4 DEF AdminLoad, LoadsItsRow
  <2>7. ASSUME NEW b \in DOMAIN Settings.does
        PROVE  /\ \A r \in Settings.does[b].calls :
                     AdminCall("Settings", Settings, Settings.does[b], r)
               /\ PressSound("Settings", b, Settings.does[b])
    <3>1. ASSUME NEW r \in Settings.does[b].calls
          PROVE  AdminCall("Settings", Settings, Settings.does[b], r)
      <4>1. Routes[r].guard = "staff" /\ Routes[r].scope = "org"
        BY <2>5, <3>1
      <4>2. "row" \notin Settings.does[b].ways
        BY <2>5
      <4> QED BY <4>1, <4>2 DEF AdminCall, ActsOnItsRow
    <3>2. PressSound("Settings", b, Settings.does[b])
      BY <2>5 DEF PressSound
    <3> QED BY <3>1, <3>2
  <2> QED BY <2>1, <2>6, <2>7 DEF AdminSound
<1> QED BY <1>1, <1>2, <1>3, <1>4, <1>5, <1>6, <1>7, <1>8, <1>9, <1>10, <1>11,
           <1>12, <1>13, <1>14, <1>15, <1>16, <1>17, <1>18, <1>19, <1>20

LEMMA PosPagesSound ==
  \A n \in DOMAIN PosPages : PosSound(n, PosPages[n])
<1>1. DOMAIN PosPages =
       {"Counter", "PosOrders", "PosOrderDetail", "Workshop"}
  BY DEF PosPages
<1>2. /\ PosPages.Counter = PosCounter
      /\ PosPages.PosOrders = PosOrders
      /\ PosPages.PosOrderDetail = PosOrderDetail
      /\ PosPages.Workshop = Workshop
  BY DEF PosPages
<1>3. PosSound("Counter", PosCounter)
  <2>1. /\ PosCounter.app = "pos" /\ PosCounter.to = {"use_pos"}
        /\ PosCounter.loads = {"buttons_list", "pos_customers", "sellable"}
        /\ DOMAIN PosCounter.does = {"preview", "register", "measure", "checkout"}
        /\ PosCounter.does["preview"] = Act({"pos_yield", "pos_profile"}, {}, {})
        /\ PosCounter.does["register"] = Act({"customers_create"}, {}, {})
        /\ PosCounter.does["measure"] = Act({"measurements_add"}, {}, {"busy"})
        /\ PosCounter.does["checkout"] = Act({"pos_orders"}, {}, {"busy"})
    BY DEF PosCounter, Screen
  <2> DEFINE Till == {"use_pos", "view_customers", "view_inventory", "manage_customers",
                      "manage_measurements", "pos_checkout"}
  <2>2. ASSUME NEW r \in {"buttons_list", "pos_customers", "sellable", "pos_yield",
                         "pos_profile", "customers_create", "measurements_add", "pos_orders"}
        PROVE  /\ Routes[r].guard = "staff"
               /\ Routes[r].needs \subseteq Till
               /\ r \notin {"measurements_add", "pos_orders"} =>
                    Routes[r].twice \notin {"again", "races"}
    BY RoutesAre DEF ButtonRoutes, PosRoutes, InventoryRoutes, CustomerRoutes, Staff
  <2>3. ASSUME NEW R, Covers("Counter", R), Displays({"use_pos"}, R)
        PROVE  Till \subseteq R
    BY <2>3 DEF Covers, Displays, Unasked
  <2> HIDE DEF Till
  <2>4. "Counter" \notin DOMAIN From
    BY DEF From
  <2>5. \A r \in PosCounter.loads : PosLoad("Counter", PosCounter, r)
    BY <2>1, <2>2, <2>3, <2>4 DEF PosLoad, LoadsItsRow
  <2>6. ASSUME NEW b \in DOMAIN PosCounter.does
        PROVE  /\ \A r \in PosCounter.does[b].calls :
                      PosCall("Counter", PosCounter, PosCounter.does[b], r)
               /\ PressSound("Counter", b, PosCounter.does[b])
    <3>1. \A r \in PosCounter.does[b].calls :
             PosCall("Counter", PosCounter, PosCounter.does[b], r)
      BY <2>1, <2>2, <2>3 DEF PosCall, ActsOnItsRow, Act
    <3>2. PressSound("Counter", b, PosCounter.does[b])
      BY <2>1, <2>2 DEF PressSound, Act
    <3> QED BY <3>1, <3>2
  <2> QED BY <2>1, <2>5, <2>6 DEF PosSound
<1>4. PosSound("PosOrders", PosOrders)
  BY RoutesAre
     DEF PosOrders, Nothing, Screen, Act, OrderRoutes, Staff, PosSound, PosLoad,
         PosCall, PressSound, LoadsItsRow, ActsOnItsRow, TwiceTaken, From, Covers,
         Unasked, Displays, Overoffers
<1>5. PosSound("PosOrderDetail", PosOrderDetail)
  <2>1. /\ PosOrderDetail.app = "pos" /\ PosOrderDetail.to = {}
        /\ PosOrderDetail.loads = {"order"}
        /\ PosOrderDetail.does =
             Together({PrintCenter,
                       [settle |-> Act({"settle"}, {"pos_settle"}, {"busy", "row"})]})
    BY DEF PosOrderDetail, Screen
  <2>2. ASSUME NEW b \in DOMAIN PosOrderDetail.does
        PROVE  \/ PosOrderDetail.does[b] = Act({"invoice_download"}, {}, {"busy", "row"})
               \/ PosOrderDetail.does[b] = Act({"settle"}, {"pos_settle"}, {"busy", "row"})
    BY <2>1, EntryFrom DEF PrintCenter
  <2>3. /\ Routes["order"] = Staff({"view_orders"}, "store", "reads")
        /\ Routes["invoice_download"] = Staff({"view_orders"}, "org", "reads")
        /\ Routes["settle"] = Staff({"pos_settle"}, "store", "again")
        /\ "invoice_download" \in DOMAIN InvoiceRoutes
    BY RoutesAre DEF OrderRoutes, InvoiceRoutes, PosRoutes
  <2>4. ASSUME NEW R, Covers("PosOrderDetail", R)
        PROVE  "view_orders" \in R /\ (Displays({"pos_settle"}, R) => "pos_settle" \in R)
    BY <2>4 DEF Covers, Displays, Unasked
  <2>5. PosLoad("PosOrderDetail", PosOrderDetail, "order")
    BY <2>3, <2>4 DEF PosLoad, LoadsItsRow, Staff
  <2>6. ASSUME NEW b \in DOMAIN PosOrderDetail.does, NEW r \in PosOrderDetail.does[b].calls
        PROVE  PosCall("PosOrderDetail", PosOrderDetail, PosOrderDetail.does[b], r)
    <3>1. CASE PosOrderDetail.does[b] = Act({"invoice_download"}, {}, {"busy", "row"})
      BY <2>3, <2>4, <2>6, <3>1 DEF PosCall, ActsOnItsRow, Staff, Act
    <3>2. CASE PosOrderDetail.does[b] = Act({"settle"}, {"pos_settle"}, {"busy", "row"})
      BY <2>3, <2>4, <2>6, <3>2 DEF PosCall, ActsOnItsRow, Staff, Act
    <3> QED BY <2>2, <3>1, <3>2
  <2>7. \A b \in DOMAIN PosOrderDetail.does : "busy" \in PosOrderDetail.does[b].ways
    BY <2>2 DEF Act
  <2> QED BY <2>1, <2>5, <2>6, <2>7 DEF PosSound, PressSound
<1>6. PosSound("Workshop", Workshop)
  <2>1. /\ Workshop.app = "pos" /\ Workshop.to = {"view_workshop"}
        /\ Workshop.loads = {"board"}
        /\ DOMAIN Workshop.does = {"scan", "move"}
        /\ Workshop.does["scan"] = Act({"by_code", "ticket_measurements"}, {}, {"row"})
        /\ Workshop.does["move"] = Act({"station"}, {}, {"row"})
    BY DEF Workshop, Screen
  <2>2. ASSUME NEW r \in {"board", "by_code", "ticket_measurements", "station"}
        PROVE  /\ Routes[r].guard = "staff" /\ Routes[r].scope = "store"
               /\ r # "station" =>
                    /\ Routes[r].twice = "reads"
                    /\ Routes[r].needs \subseteq {"view_workshop", "view_measurements"}
    BY RoutesAre DEF WorkshopRoutes, MoveTicket, Staff
  <2>3. ASSUME NEW R, Covers("Workshop", R), Displays({"view_workshop"}, R)
        PROVE  {"view_workshop", "view_measurements"} \subseteq R
    BY <2>3 DEF Covers, Displays, Unasked
  <2>4. <<"Workshop", "station">> \in Overoffers /\ <<"Workshop", "move">> \in TwiceTaken
    BY DEF Overoffers, TwiceTaken
  <2> QED BY <2>1, <2>2, <2>3, <2>4
          DEF PosSound, PosLoad, PosCall, PressSound, LoadsItsRow, ActsOnItsRow, Act
<1> QED BY <1>1, <1>2, <1>3, <1>4, <1>5, <1>6

LEMMA PlatformPagesSound ==
  \A n \in DOMAIN PlatformPages : PlatformSound(n, PlatformPages[n])
<1>1. DOMAIN PlatformPages =
       {"Metrics", "Tenants", "TenantDetail", "Plans", "Audit", "Admins"}
  BY DEF PlatformPages
<1>2. /\ PlatformPages.Metrics = PlatformDashboard
      /\ PlatformPages.Tenants = Tenants
      /\ PlatformPages.TenantDetail = [TenantDetail EXCEPT !.does = Together({@, PlanForms})]
      /\ PlatformPages.Plans = Plans
      /\ PlatformPages.Audit = Audit
      /\ PlatformPages.Admins = PlatformAdmins
  BY DEF PlatformPages
<1>3. PlatformSound("Metrics", PlatformDashboard)
  BY RoutesAre
     DEF PlatformDashboard, Nothing, Screen, Act, PlatformRoutes, Platform,
         PlatformSound, PlatformLoad, PlatformCall, PressSound, TwiceTaken,
         Displays, Levels, Overoffers
<1>4. PlatformSound("Tenants", Tenants)
  BY RoutesAre
     DEF Tenants, Screen, Act, PlatformRoutes, Platform, PlatformSound,
         PlatformLoad, PlatformCall, PressSound, TwiceTaken, Displays, Levels,
         Overoffers
<1>5. PlatformSound("TenantDetail", [TenantDetail EXCEPT !.does = Together({@, PlanForms})])
  <2> DEFINE P == [TenantDetail EXCEPT !.does = Together({@, PlanForms})]
  <2>1. /\ P.app = "platform" /\ P.to = {} /\ P.loads = {"tenant", "plans"}
        /\ P.does = Together({TenantDetail.does, PlanForms})
    BY DEF TenantDetail, Screen
  <2>2. ASSUME NEW t \in {TenantDetail.does, PlanForms}, NEW b \in DOMAIN t
        PROVE  \E r \in DOMAIN BillingRoutes \cup DOMAIN PlatformRoutes :
                  /\ t[b].calls = {r} /\ t[b].to = Routes[r].needs
                  /\ Routes[r].guard = "platform" /\ Routes[r].scope = "none"
                  /\ Routes[r].needs # {}
                  /\ PressSound("TenantDetail", b, t[b])
    <3>1. CASE t = TenantDetail.does
      <4>1. TenantDetail.does =
              [bills |-> Act({"admin_invoices"}, {"super_admin", "billing"}, {}),
               suspend |-> Act({"tenant_set"}, {"super_admin"}, {}),
               portal |-> Act({"admin_portal"}, {"super_admin", "billing"}, {"busy"}),
               assist |-> Act({"impersonate"}, {"super_admin", "support"}, {})]
        BY DEF TenantDetail, Screen
      <4>2. /\ Routes["admin_invoices"] = Platform({"super_admin", "billing"}, "reads")
            /\ Routes["tenant_set"] = Platform({"super_admin"}, "same")
            /\ Routes["admin_portal"] = Platform({"super_admin", "billing"}, "again")
            /\ Routes["impersonate"] = Platform({"super_admin", "support"}, "again")
        BY RoutesAre DEF BillingRoutes, PlatformRoutes
      <4>3. {"admin_invoices", "admin_portal", "tenant_set", "impersonate"}
               \subseteq DOMAIN BillingRoutes \cup DOMAIN PlatformRoutes
        BY RouteNames
      <4>4. b \in {"bills", "suspend", "portal", "assist"}
        BY <2>2, <3>1, <4>1
      <4>5. CASE b = "bills"
        <5> USE <4>3
        <5> WITNESS "admin_invoices" \in DOMAIN BillingRoutes \cup DOMAIN PlatformRoutes
        <5>1. t[b] = TenantDetail.does["bills"]
          BY <3>1, <4>5
        <5> QED BY <4>1, <4>2, <4>5, <5>1 DEF Act, Platform, PressSound
      <4>6. CASE b = "suspend"
        <5> USE <4>3
        <5> WITNESS "tenant_set" \in DOMAIN BillingRoutes \cup DOMAIN PlatformRoutes
        <5>1. t[b] = TenantDetail.does["suspend"]
          BY <3>1, <4>6
        <5> QED BY <4>1, <4>2, <4>6, <5>1 DEF Act, Platform, PressSound
      <4>7. CASE b = "portal"
        <5> USE <4>3
        <5> WITNESS "admin_portal" \in DOMAIN BillingRoutes \cup DOMAIN PlatformRoutes
        <5>1. t[b] = TenantDetail.does["portal"]
          BY <3>1, <4>7
        <5> QED BY <4>1, <4>2, <4>7, <5>1 DEF Act, Platform, PressSound
      <4>8. CASE b = "assist"
        <5> USE <4>3
        <5> WITNESS "impersonate" \in DOMAIN BillingRoutes \cup DOMAIN PlatformRoutes
        <5>1. t[b] = TenantDetail.does["assist"]
          BY <3>1, <4>8
        <5> QED BY <4>1, <4>2, <4>8, <5>1 DEF Act, Platform, PressSound, TwiceTaken
      <4> QED BY <4>4, <4>5, <4>6, <4>7, <4>8
    <3>2. CASE t = PlanForms
      <4>1. /\ Routes["admin_checkout"] = Platform({"super_admin", "billing"}, "again")
            /\ Routes["plan_change"] = Platform({"super_admin", "billing"}, "same")
        BY RoutesAre DEF BillingRoutes, PlatformRoutes
      <4>2. {"admin_checkout", "plan_change"}
               \subseteq DOMAIN BillingRoutes \cup DOMAIN PlatformRoutes
        BY RouteNames
      <4>3. b \in {"charge", "plan"}
        BY <2>2, <3>2 DEF PlanForms
      <4>4. CASE b = "charge"
        <5> USE <4>2
        <5> WITNESS "admin_checkout" \in DOMAIN BillingRoutes \cup DOMAIN PlatformRoutes
        <5>1. t[b] = PlanForms["charge"]
          BY <3>2, <4>4
        <5> QED BY <4>1, <4>4, <5>1 DEF PlanForms, Act, Platform, PressSound, TwiceTaken
      <4>5. CASE b = "plan"
        <5> USE <4>2
        <5> WITNESS "plan_change" \in DOMAIN BillingRoutes \cup DOMAIN PlatformRoutes
        <5>1. t[b] = PlanForms["plan"]
          BY <3>2, <4>5
        <5> QED BY <4>1, <4>5, <5>1 DEF PlanForms, Act, Platform, PressSound
      <4> QED BY <4>3, <4>4, <4>5
    <3> QED BY <2>2, <3>1, <3>2
  <2>3. \A r \in P.loads : PlatformLoad("TenantDetail", P, r)
    BY <2>1, RoutesAre DEF PlatformLoad, PlatformRoutes, Platform
  <2> HIDE DEF P
  <2>4. ASSUME NEW b \in DOMAIN P.does
        PROVE  /\ \A r \in P.does[b].calls : PlatformCall("TenantDetail", P, P.does[b], r)
               /\ PressSound("TenantDetail", b, P.does[b])
    <3>1. PICK t \in {TenantDetail.does, PlanForms} : b \in DOMAIN t /\ P.does[b] = t[b]
      BY <2>1, EntryFrom
    <3> QED BY <2>2, <3>1 DEF PlatformCall, Displays
  <2>5. PlatformSound("TenantDetail", P)
    BY <2>1, <2>3, <2>4 DEF PlatformSound
  <2> QED BY <2>5 DEF P
<1>6. PlatformSound("Plans", Plans)
  BY RoutesAre
     DEF Plans, Screen, Act, PlatformRoutes, Platform, PlatformSound, PlatformLoad,
         PlatformCall, PressSound, TwiceTaken, Displays, Levels, Overoffers
<1>7. PlatformSound("Audit", Audit)
  BY RoutesAre
     DEF Audit, Nothing, Screen, Act, PlatformRoutes, Platform, PlatformSound,
         PlatformLoad, PlatformCall, PressSound, TwiceTaken, Displays, Levels,
         Overoffers
<1>8. PlatformSound("Admins", PlatformAdmins)
  BY RoutesAre
     DEF PlatformAdmins, Screen, Act, PlatformRoutes, Platform, PlatformSound,
         PlatformLoad, PlatformCall, PressSound, TwiceTaken, Displays, Levels,
         Overoffers
<1> QED BY <1>1, <1>2, <1>3, <1>4, <1>5, <1>6, <1>7, <1>8

LEMMA PwaPagesSound ==
  \A n \in DOMAIN PwaPages : PwaSound(n, PwaPages[n])
<1>1. DOMAIN PwaPages =
       {"MyOrders", "OrderTracking", "Measurements", "Profile"}
  BY DEF PwaPages
<1>2. /\ PwaPages.MyOrders = MyOrders
      /\ PwaPages.OrderTracking = OrderTracking
      /\ PwaPages.Measurements = Measurements
      /\ PwaPages.Profile = Profile
  BY DEF PwaPages
<1>3. PwaSound("MyOrders", MyOrders)
  BY RoutesAre
     DEF MyOrders, Nothing, Screen, Act, PwaRoutes, Customer, PwaSound, PwaLoad,
         PwaCall, PressSound
<1>4. PwaSound("OrderTracking", OrderTracking)
  BY RoutesAre
     DEF OrderTracking, PushOptIn, Screen, Act, PwaRoutes, Customer, PwaSound,
         PwaLoad, PwaCall, PressSound
<1>5. PwaSound("Measurements", Measurements)
  BY RoutesAre
     DEF Measurements, Nothing, Screen, Act, PwaRoutes, Customer, PwaSound,
         PwaLoad, PwaCall, PressSound
<1>6. PwaSound("Profile", Profile)
  BY RoutesAre
     DEF Profile, Nothing, Screen, Act, Customer, PwaSound, PwaLoad, PwaCall,
         PressSound
<1> QED BY <1>1, <1>2, <1>3, <1>4, <1>5, <1>6

-----------------------------------------------------------------------------
(* What a page of Pages is, and what becomes of its calls.                  *)

PageTables == {AdminPages, PosPages, PlatformPages, PwaPages}

LEMMA PageNames ==
  /\ DOMAIN AdminPages =
       {"Dashboard", "HqDashboard", "Orders", "OrderDetail", "NewOrder",
        "CustomersPage", "Drawer", "Inventory", "BatchDetail", "Alerts",
        "Appointments", "Invoices", "Team", "Stores", "Billing", "Ledger",
        "Buttons", "Settings"}
  /\ DOMAIN PosPages = {"Counter", "PosOrders", "PosOrderDetail", "Workshop"}
  /\ DOMAIN PlatformPages =
       {"Metrics", "Tenants", "TenantDetail", "Plans", "Audit", "Admins"}
  /\ DOMAIN PwaPages =
       {"MyOrders", "OrderTracking", "Measurements", "Profile"}
BY DEF AdminPages, PosPages, PlatformPages, PwaPages

\* A page is that of its front end, and what its table says of it.
LEMMA PageSound ==
  ASSUME NEW n \in DOMAIN Pages
  PROVE  \/ n \in DOMAIN AdminPages /\ AdminSound(n, Pages[n])
         \/ n \in DOMAIN PosPages /\ PosSound(n, Pages[n])
         \/ n \in DOMAIN PlatformPages /\ PlatformSound(n, Pages[n])
         \/ n \in DOMAIN PwaPages /\ PwaSound(n, Pages[n])
<1>1. Pages = Together(PageTables)
  BY DEF Pages, PageTables
<1>2. PICK t \in PageTables : n \in DOMAIN t /\ Pages[n] = t[n]
  BY <1>1, EntryFrom
<1>3. t \in {AdminPages, PosPages, PlatformPages, PwaPages}
  BY DEF PageTables
<1> QED BY <1>2, <1>3, AdminPagesSound, PosPagesSound, PlatformPagesSound,
           PwaPagesSound

\* The pages a sign-in, the switcher and the tablet lead to.
LEMMA Landings ==
  /\ {"Dashboard", "HqDashboard", "Counter", "PosOrders", "Metrics", "MyOrders"}
       \subseteq DOMAIN Pages
  /\ Pages["Dashboard"].app = "admin" /\ Pages["HqDashboard"].app = "admin"
  /\ Pages["Counter"].app = "pos"
  /\ Pages["PosOrders"].app = "pos" /\ Pages["PosOrders"].to = {}
  /\ Pages["Metrics"].app = "platform" /\ Pages["Metrics"].to = {}
  /\ Pages["MyOrders"].app = "pwa" /\ Pages["MyOrders"].to = {}
<1>1. Pages = Together(PageTables)
  BY DEF Pages, PageTables
<1>2. /\ AdminPages \in PageTables /\ PosPages \in PageTables
      /\ PlatformPages \in PageTables /\ PwaPages \in PageTables
  BY DEF PageTables
<1>3. \A u \in PageTables :
         u \in {AdminPages, PosPages, PlatformPages, PwaPages}
  BY DEF PageTables
<1>4. /\ "Dashboard" \in DOMAIN Pages /\ "HqDashboard" \in DOMAIN Pages
      /\ Pages["Dashboard"] = AdminPages["Dashboard"]
      /\ Pages["HqDashboard"] = AdminPages["HqDashboard"]
  BY <1>1, <1>2, <1>3, PageNames, EntryOf
<1>5. /\ "Counter" \in DOMAIN Pages /\ "PosOrders" \in DOMAIN Pages
      /\ Pages["Counter"] = PosPages["Counter"]
      /\ Pages["PosOrders"] = PosPages["PosOrders"]
  BY <1>1, <1>2, <1>3, PageNames, EntryOf
<1>6. "Metrics" \in DOMAIN Pages /\ Pages["Metrics"] = PlatformPages["Metrics"]
  BY <1>1, <1>2, <1>3, PageNames, EntryOf
<1>7. "MyOrders" \in DOMAIN Pages /\ Pages["MyOrders"] = PwaPages["MyOrders"]
  BY <1>1, <1>2, <1>3, PageNames, EntryOf
<1>8. /\ AdminPages["Dashboard"].app = "admin"
      /\ AdminPages["HqDashboard"].app = "admin"
      /\ PosPages["Counter"].app = "pos" /\ PosPages["PosOrders"].app = "pos"
  BY AdminPagesSound, PosPagesSound, PageNames DEF AdminSound, PosSound
<1>9. PosPages["PosOrders"].to = {}
  BY DEF PosPages, PosOrders, Screen
<1>10. PlatformPages["Metrics"].app = "platform" /\ PlatformPages["Metrics"].to = {}
  BY DEF PlatformPages, PlatformDashboard, Screen
<1>11. PwaPages["MyOrders"].app = "pwa" /\ PwaPages["MyOrders"].to = {}
  BY DEF PwaPages, MyOrders, Screen
<1> QED BY <1>4, <1>5, <1>6, <1>7, <1>8, <1>9, <1>10, <1>11

\* The kinds of people.
LEMMA PersonIs ==
  ASSUME NEW who \in Person
  PROVE  \/ /\ who.kind = "staff" /\ who.hq \in BOOLEAN
            /\ who.roles \in [Stores -> Assignment \cup {NoRole}]
         \/ who.kind = "platform" /\ who.level \in Levels
         \/ who.kind = "customer"
BY DEF Person

\* A role as it is designed has all that the tabs shown to it call for; so has one
\* whose overrides did not leave the page short.
LEMMA RightsCover ==
  ASSUME NEW who \in Person, who.kind = "staff", ~who.hq,
         NEW s \in Stores, who.roles[s] # NoRole,
         NEW n \in DOMAIN PosPages, NEW p, PosSound(n, p),
         Displays(p.to, RightsIn(who, s)), ~LeftShort(who, n, s)
  PROVE  Covers(n, RightsIn(who, s))
<1> DEFINE a == who.roles[s]
<1>1. a \in Assignment
  BY PersonIs
<1>2. CASE a.grant \cup a.revoke # {}
  BY <1>2 DEF LeftShort, Covers
<1>3. CASE a.grant \cup a.revoke = {}
  <2>1. RightsIn(who, s) = (ROLE_DEFAULT_PERMISSIONS[a.role] \cup a.grant) \ a.revoke
    BY DEF RightsIn, computeEffectivePermissions
  <2>2. a.role \in {"regional_manager", "store_manager", "tailor", "cashier"}
    BY <1>1 DEF Assignment, ROLE_DEFAULT_PERMISSIONS
  <2>3. ASSUME NEW role \in {"regional_manager", "store_manager", "tailor", "cashier"}
        PROVE  /\ {"view_orders", "view_measurements"}
                    \subseteq ROLE_DEFAULT_PERMISSIONS[role]
               /\ "use_pos" \in ROLE_DEFAULT_PERMISSIONS[role] =>
                    {"view_customers", "view_inventory", "manage_customers",
                     "manage_measurements", "pos_checkout"}
                      \subseteq ROLE_DEFAULT_PERMISSIONS[role]
    BY <2>3 DEF ROLE_DEFAULT_PERMISSIONS, PERMISSIONS
  <2> HIDE DEF a
  <2>4. RightsIn(who, s) = ROLE_DEFAULT_PERMISSIONS[a.role]
    BY <1>3, <2>1
  <2>5. n \in {"Counter", "PosOrders", "PosOrderDetail", "Workshop"}
    BY DEF PosPages
  <2>6. CASE n = "Counter"
    <3>1. "use_pos" \in RightsIn(who, s)
      BY <2>6 DEF PosSound, Displays
    <3> QED BY <2>2, <2>3, <2>4, <2>6, <3>1 DEF Covers, Unasked
  <2>7. CASE n # "Counter"
    BY <2>2, <2>3, <2>4, <2>5, <2>7 DEF Covers, Unasked
  <2> QED BY <2>6, <2>7
<1> QED BY <1>2, <1>3

-----------------------------------------------------------------------------
(* The store a device works in, and the header of a call from a page.       *)

Works(who, s) == s \in Stores /\ (who.hq \/ who.roles[s] # NoRole)

\* Header h may be on a call of page n.
Sends(who, a, n, h) ==
  /\ a = "admin" /\ h = NoStore => "needs store" \notin Pages[n].ways
  /\ a = "pos" => Works(who, h)
  /\ a # "admin" => Displays(Pages[n].to, Tokens(who, a, h))

\* So may it be on a load: the dashboard of one store always names it.
Loads(who, a, n, h) ==
  Sends(who, a, n, h) /\ (n = "Dashboard" => h # NoStore)

\* The page n may be on the screen, with store s chosen.
ShownTo(who, a, n, s) ==
  /\ n \in DOMAIN Pages /\ Pages[n].app = a
  /\ a = "admin" => s \in Stores \cup {All}
  /\ a = "pos" => Works(who, s)
  /\ a # "admin" => Displays(Pages[n].to, Tokens(who, a, s))
  /\ n = "Dashboard" => s \in Stores

\* A call of the button act of page n, with its header and its row.
CallOf(who, a, n, act, c) ==
  /\ Sends(who, a, n, c.header)
  /\ a # "admin" => Displays(act.to, Tokens(who, a, c.header))
  /\ a = "admin" /\ c.header = NoStore => "store" \notin act.ways
  /\ c.row # NoStore => "row" \in act.ways

\* Only the tablet looks at the store.
LEMMA TokensElsewhere ==
  ASSUME NEW who, NEW a, a # "pos", NEW s, NEW h
  PROVE  Tokens(who, a, s) = Tokens(who, a, h)
BY DEF Tokens

\* What a page that is shown asks for.
LEMMA AskedBy ==
  ASSUME NEW who, NEW a, NEW n, NEW s, ShownTo(who, a, n, s),
         NEW h \in AskFor(n, s)
  PROVE  Loads(who, a, n, h)
<1>1. /\ h = IF s \in Stores THEN s ELSE NoStore
      /\ "needs store" \in Pages[n].ways => s \in Stores
  BY DEF AskFor
<1>2. CASE a = "pos"
  BY <1>1, <1>2, StoresAreStores DEF ShownTo, Loads, Sends, Works
<1>3. CASE a # "pos"
  <2>1. Tokens(who, a, s) = Tokens(who, a, h)
    BY <1>3, TokensElsewhere
  <2> QED BY <1>1, <1>3, <2>1, StoresAreStores DEF ShownTo, Loads, Sends
<1> QED BY <1>2, <1>3

-----------------------------------------------------------------------------
(* What becomes of a call, from the tables.                                 *)

\* Why a guard may turn a call of page n with header h away on fresh rights.
Explained(who, n, r, h) ==
  \/ /\ who.kind = "staff" /\ ~who.hq
     /\ \/ n \in DOMAIN AdminPages
        \/ n \in DOMAIN PosPages /\ LeftShort(who, n, h)
  \/ <<n, r>> \in Overoffers

\* On the tablet.
LEMMA PosAdmits ==
  ASSUME NEW who \in Person, who.kind = "staff", ~who.hq,
         NEW h, Works(who, h), NEW route, route.guard = "staff",
         route.needs \subseteq RightsIn(who, h)
  PROVE  Admits(who, route, h)
BY DEF Admits, StaffMay, Works

\* Whoever a page is shown to may load it, or it is known to offer too much.
LEMMA LoadExplained ==
  ASSUME NEW who \in Person, NEW a \in FrontEnds(who),
         NEW n \in DOMAIN Pages, Pages[n].app = a,
         NEW r \in Pages[n].loads, NEW h, Sends(who, a, n, h),
         ~Admits(who, Routes[r], h)
  PROVE  Explained(who, n, r, h)
<1>1. CASE n \in DOMAIN AdminPages /\ AdminSound(n, Pages[n])
  <2>1. a = "admin" /\ Routes[r].guard = "staff"
    BY <1>1 DEF AdminSound, AdminLoad
  <2>2. who.kind = "staff"
    BY <2>1, PersonIs DEF FrontEnds
  <2>3. ~who.hq
    BY <2>1, <2>2 DEF Admits, StaffMay
  <2> QED BY <1>1, <2>2, <2>3 DEF Explained
<1>2. CASE n \in DOMAIN PosPages /\ PosSound(n, Pages[n])
  <2>1. a = "pos" /\ PosLoad(n, Pages[n], r)
    BY <1>2 DEF PosSound
  <2>2. who.kind = "staff"
    BY <2>1, PersonIs DEF FrontEnds
  <2>3. Routes[r].guard = "staff"
    BY <2>1 DEF PosLoad
  <2>4. ~who.hq
    BY <2>2, <2>3 DEF Admits, StaffMay
  <2>5. ASSUME ~LeftShort(who, n, h) PROVE FALSE
    <3>1. Works(who, h) /\ Displays(Pages[n].to, RightsIn(who, h))
      BY <2>1, <2>2 DEF Sends, Tokens
    <3>2. Covers(n, RightsIn(who, h))
      BY <1>2, <2>2, <2>4, <2>5, <3>1, RightsCover DEF Works
    <3>3. Routes[r].needs \subseteq RightsIn(who, h)
      BY <2>1, <3>1, <3>2 DEF PosLoad
    <3> QED BY <2>2, <2>3, <2>4, <2>5, <3>1, <3>3, PosAdmits
  <2> QED BY <1>2, <2>2, <2>4, <2>5 DEF Explained
<1>3. CASE n \in DOMAIN PlatformPages /\ PlatformSound(n, Pages[n])
  <2>1. a = "platform" /\ PlatformLoad(n, Pages[n], r)
    BY <1>3 DEF PlatformSound
  <2>2. who.kind = "platform" /\ who.level \in Levels
    BY <2>1, PersonIs DEF FrontEnds
  <2>3. Displays(Pages[n].to, {who.level})
    BY <2>1, <2>2 DEF Sends, Tokens
  <2>4. Routes[r].guard = "platform" /\ who.level \notin Routes[r].needs
    BY <2>1, <2>2 DEF PlatformLoad, Admits
  <2> QED BY <2>1, <2>2, <2>3, <2>4 DEF PlatformLoad, Explained
<1>4. CASE n \in DOMAIN PwaPages /\ PwaSound(n, Pages[n])
  <2>1. a = "pwa" /\ Routes[r].guard = "customer"
    BY <1>4 DEF PwaSound, PwaLoad
  <2>2. who.kind = "customer"
    BY <2>1, PersonIs DEF FrontEnds
  <2> QED BY <2>1, <2>2 DEF Admits
<1> QED BY <1>1, <1>2, <1>3, <1>4, PageSound

\* So may whoever is shown one of its buttons press it.
LEMMA CallExplained ==
  ASSUME NEW who \in Person, NEW a \in FrontEnds(who),
         NEW n \in DOMAIN Pages, Pages[n].app = a,
         NEW b \in DOMAIN Pages[n].does, NEW r \in Pages[n].does[b].calls,
         NEW c, CallOf(who, a, n, Pages[n].does[b], c),
         ~Admits(who, Routes[r], c.header)
  PROVE  Explained(who, n, r, c.header)
<1> DEFINE act == Pages[n].does[b]
           h == c.header
<1>0. /\ Sends(who, a, n, h)
      /\ a # "admin" => Displays(act.to, Tokens(who, a, h))
  BY DEF CallOf
<1> HIDE DEF h
<1>1. CASE n \in DOMAIN AdminPages /\ AdminSound(n, Pages[n])
  <2>1. a = "admin" /\ Routes[r].guard = "staff"
    BY <1>1 DEF AdminSound, AdminCall
  <2>2. who.kind = "staff"
    BY <2>1, PersonIs DEF FrontEnds
  <2>3. ~who.hq
    BY <2>1, <2>2 DEF Admits, StaffMay
  <2> QED BY <1>1, <2>2, <2>3 DEF Explained
<1>2. CASE n \in DOMAIN PosPages /\ PosSound(n, Pages[n])
  <2>1. a = "pos" /\ PosCall(n, Pages[n], act, r)
    BY <1>2 DEF PosSound
  <2>2. who.kind = "staff"
    BY <2>1, PersonIs DEF FrontEnds
  <2>3. Routes[r].guard = "staff"
    BY <2>1 DEF PosCall
  <2>4. ~who.hq
    BY <2>2, <2>3 DEF Admits, StaffMay
  <2>5. ASSUME ~LeftShort(who, n, h), <<n, r>> \notin Overoffers PROVE FALSE
    <3>1. /\ Works(who, h) /\ Displays(Pages[n].to, RightsIn(who, h))
          /\ Displays(act.to, RightsIn(who, h))
      BY <1>0, <2>1, <2>2 DEF Sends, Tokens
    <3>2. Covers(n, RightsIn(who, h))
      BY <1>2, <2>2, <2>4, <2>5, <3>1, RightsCover DEF Works
    <3>3. Routes[r].needs \subseteq RightsIn(who, h)
      BY <2>1, <2>5, <3>1, <3>2 DEF PosCall
    <3> QED BY <2>2, <2>3, <2>4, <2>5, <3>1, <3>3, PosAdmits DEF h
  <2> QED BY <1>2, <2>2, <2>4, <2>5 DEF Explained, h
<1>3. CASE n \in DOMAIN PlatformPages /\ PlatformSound(n, Pages[n])
  <2>1. a = "platform" /\ PlatformCall(n, Pages[n], act, r)
    BY <1>3 DEF PlatformSound
  <2>2. who.kind = "platform" /\ who.level \in Levels
    BY <2>1, PersonIs DEF FrontEnds
  <2>3. Displays(Pages[n].to, {who.level}) /\ Displays(act.to, {who.level})
    BY <1>0, <2>1, <2>2 DEF Sends, Tokens
  <2>4. Routes[r].guard = "platform" /\ who.level \notin Routes[r].needs
    BY <2>1, <2>2 DEF PlatformCall, Admits
  <2> QED BY <2>1, <2>2, <2>3, <2>4 DEF PlatformCall, Explained
<1>4. CASE n \in DOMAIN PwaPages /\ PwaSound(n, Pages[n])
  <2>1. a = "pwa" /\ Routes[r].guard = "customer"
    BY <1>4 DEF PwaSound, PwaCall, PwaLoad
  <2>2. who.kind = "customer"
    BY <2>1, PersonIs DEF FrontEnds
  <2> QED BY <2>1, <2>2 DEF Admits
<1> QED BY <1>1, <1>2, <1>3, <1>4, PageSound

\* A verdict, and what it says of the route.
LEMMA VerdictMeans ==
  ASSUME NEW who, NEW r, NEW h, NEW row
  PROVE  /\ Verdict(who, r, h, row) = "forbidden" => ~Admits(who, Routes[r], h)
         /\ Verdict(who, r, h, row) = "unscoped" =>
              Routes[r].scope = "store" /\ h = NoStore
         /\ Verdict(who, r, h, row) = "done" =>
              /\ Admits(who, Routes[r], h)
              /\ Routes[r].scope = "store" => row \in {NoStore, h}
<1> DEFINE ok == Admits(who, Routes[r], h)
           inStore == Routes[r].scope = "store"
           elsewhere == row \notin {NoStore, h}
<1>1. Verdict(who, r, h, row) =
        CASE ~ok -> "forbidden"
          [] ok /\ inStore /\ h = NoStore -> "unscoped"
          [] ok /\ inStore /\ h # NoStore /\ elsewhere -> "not found"
          [] OTHER -> "done"
  BY DEF Verdict
<1>2. elsewhere \/ row \in {NoStore, h}
  OBVIOUS
<1>3. ok <=> Admits(who, Routes[r], h)
  OBVIOUS
<1>4. inStore <=> Routes[r].scope = "store"
  OBVIOUS
<1>5. h = NoStore /\ row \in {NoStore, h} => row = NoStore
  OBVIOUS
<1> HIDE DEF ok, inStore, elsewhere
<1>6. /\ Verdict(who, r, h, row) = "forbidden" => ~ok
      /\ Verdict(who, r, h, row) = "unscoped" => inStore /\ h = NoStore
      /\ Verdict(who, r, h, row) = "done" => ok /\ (inStore => ~elsewhere)
  <2>1. CASE ~ok
    BY <1>1, <2>1
  <2>2. CASE ok /\ inStore /\ h = NoStore
    BY <1>1, <2>2
  <2>3. CASE ok /\ inStore /\ h # NoStore /\ elsewhere
    BY <1>1, <2>3
  <2>4. CASE ok /\ ~inStore
    BY <1>1, <2>4
  <2>5. CASE ok /\ inStore /\ h # NoStore /\ ~elsewhere
    BY <1>1, <2>5
  <2> QED BY <2>1, <2>2, <2>3, <2>4, <2>5
<1> QED BY <1>2, <1>3, <1>4, <1>6

\* Only these pages ask for the rows of a store without one.
LEMMA LoadUnscoped ==
  ASSUME NEW who, NEW a, NEW n \in DOMAIN Pages, Pages[n].app = a,
         NEW r \in Pages[n].loads, Loads(who, a, n, NoStore),
         Routes[r].scope = "store"
  PROVE  n \in {"NewOrder", "OrderDetail", "BatchDetail"}
<1>1. CASE AdminSound(n, Pages[n])
  BY <1>1 DEF AdminSound, AdminLoad, Loads, Sends
<1>2. CASE PosSound(n, Pages[n])
  BY <1>2, StoresAreStores DEF PosSound, Loads, Sends, Works
<1>3. CASE PlatformSound(n, Pages[n])
  BY <1>3 DEF PlatformSound, PlatformLoad
<1>4. CASE PwaSound(n, Pages[n])
  BY <1>4 DEF PwaSound, PwaLoad
<1> QED BY <1>1, <1>2, <1>3, <1>4, PageSound

LEMMA CallUnscoped ==
  ASSUME NEW who, NEW a, NEW n \in DOMAIN Pages, Pages[n].app = a,
         NEW b \in DOMAIN Pages[n].does, NEW r \in Pages[n].does[b].calls,
         NEW c, CallOf(who, a, n, Pages[n].does[b], c), c.header = NoStore,
         Routes[r].scope = "store"
  PROVE  n \in {"NewOrder", "OrderDetail", "BatchDetail"}
<1> DEFINE act == Pages[n].does[b]
<1>0. /\ Sends(who, a, n, NoStore)
      /\ a = "admin" => "store" \notin act.ways
  BY DEF CallOf
<1>1. CASE AdminSound(n, Pages[n])
  <2>1. a = "admin" /\ AdminCall(n, Pages[n], act, r)
    BY <1>1 DEF AdminSound
  <2> QED BY <1>0, <2>1 DEF AdminCall, Sends
<1>2. CASE PosSound(n, Pages[n])
  BY <1>0, <1>2, StoresAreStores DEF PosSound, Sends, Works
<1>3. CASE PlatformSound(n, Pages[n])
  BY <1>3 DEF PlatformSound, PlatformCall
<1>4. CASE PwaSound(n, Pages[n])
  BY <1>4 DEF PwaSound, PwaCall, PwaLoad
<1> QED BY <1>1, <1>2, <1>3, <1>4, PageSound

\* What is carried out for staff on a row is carried out in the row's store.
LEMMA LoadInStore ==
  ASSUME NEW who, who.kind = "staff", NEW n \in DOMAIN Pages, n \in DOMAIN From,
         NEW r \in Pages[n].loads, NEW h, NEW row, row # NoStore,
         Verdict(who, r, h, row) = "done"
  PROVE  h = row
<1>1. /\ Admits(who, Routes[r], h)
      /\ Routes[r].scope = "store" => h = row
  BY VerdictMeans
<1>2. CASE AdminSound(n, Pages[n])
  BY <1>1, <1>2 DEF AdminSound, AdminLoad, LoadsItsRow
<1>3. CASE PosSound(n, Pages[n])
  BY <1>1, <1>3 DEF PosSound, PosLoad, LoadsItsRow
<1>4. CASE PlatformSound(n, Pages[n])
  BY <1>1, <1>4 DEF PlatformSound, PlatformLoad, Admits
<1>5. CASE PwaSound(n, Pages[n])
  BY <1>1, <1>5 DEF PwaSound, PwaLoad, Admits
<1> QED BY <1>2, <1>3, <1>4, <1>5, PageSound

LEMMA CallInStore ==
  ASSUME NEW who, who.kind = "staff", NEW n \in DOMAIN Pages,
         NEW b \in DOMAIN Pages[n].does, NEW r \in Pages[n].does[b].calls,
         "row" \in Pages[n].does[b].ways,
         NEW h, NEW row, row # NoStore, Verdict(who, r, h, row) = "done"
  PROVE  h = row \/ r \in DOMAIN InvoiceRoutes \cup {"transfer"}
<1> DEFINE act == Pages[n].does[b]
<1>1. /\ Admits(who, Routes[r], h)
      /\ Routes[r].scope = "store" => h = row
  BY VerdictMeans
<1>2. CASE AdminSound(n, Pages[n])
  <2>1. AdminCall(n, Pages[n], act, r)
    BY <1>2 DEF AdminSound
  <2> QED BY <1>1, <2>1 DEF AdminCall, ActsOnItsRow
<1>3. CASE PosSound(n, Pages[n])
  <2>1. PosCall(n, Pages[n], act, r)
    BY <1>3 DEF PosSound
  <2> QED BY <1>1, <2>1 DEF PosCall, ActsOnItsRow
<1>4. CASE PlatformSound(n, Pages[n])
  BY <1>1, <1>4 DEF PlatformSound, PlatformCall, Admits
<1>5. CASE PwaSound(n, Pages[n])
  BY <1>1, <1>5 DEF PwaSound, PwaCall, PwaLoad, Admits
<1> QED BY <1>2, <1>3, <1>4, <1>5, PageSound

\* A button that is not disabled and has an effect twice is one of those named.
LEMMA PressIsSound ==
  ASSUME NEW n \in DOMAIN Pages, NEW b \in DOMAIN Pages[n].does
  PROVE  PressSound(n, b, Pages[n].does[b])
BY PageSound DEF AdminSound, PosSound, PlatformSound, PwaSound

-----------------------------------------------------------------------------
(* The invariant of a device.                                               *)

PersonInv == rights \in Roster /\ held \in Roster /\ rights.kind = held.kind

ScreenInv ==
  screen # NoPage =>
    /\ app \in FrontEnds(held)
    /\ ShownTo(held, app, screen, store)
    /\ \A h \in asked : Loads(held, app, screen, h)
    /\ subject # NoStore => screen \in DOMAIN From

\* Stores of rows and headers, and the bound.
StoresInv ==
  /\ store \in Stores \cup {All, NoStore}
  /\ subject \in Stores \cup {NoStore} /\ listed \in Stores \cup {NoStore}
  /\ asked \subseteq Stores \cup {NoStore}
  /\ changes \in 0..MaxChanges

ButtonCall ==
  [header : Stores \cup {NoStore}, row : Stores \cup {NoStore}]

\* Button b of page p was pressed, and so many of its calls are out.
UnderWay(p, b) ==
  /\ DOMAIN press = {"name", "tries", "calls", "took"}
  /\ press.name = <<p, b>> /\ Pages[p].app = app
  /\ press.tries \in 1..2 /\ press.took \in Nat
  /\ "busy" \in Pages[p].does[b].ways => press.tries = 1
  /\ press.calls \in Seq(ButtonCall)
  /\ Len(press.calls) + press.took <= press.tries
  /\ \A i \in 1..Len(press.calls) :
        CallOf(held, app, p, Pages[p].does[b], press.calls[i])

PressInv ==
  press # Unpressed =>
    /\ screen # NoPage
    /\ \E p \in DOMAIN Pages : \E b \in DOMAIN Pages[p].does : UnderWay(p, b)

ScreensInv ==
  /\ PersonInv /\ ScreenInv /\ StoresInv /\ PressInv
  /\ RefusalsExplained /\ TakesEffectOnce /\ RowsAnswerToTheirStore

LEMMA InitScreens == ScreensInit => ScreensInv
<1> SUFFICES ASSUME ScreensInit PROVE ScreensInv
  OBVIOUS
<1>1. /\ rights \in Roster /\ held = rights /\ store = NoStore /\ screen = NoPage
      /\ subject = NoStore /\ listed = NoStore /\ asked = {}
      /\ press = Unpressed /\ last = NoAnswer /\ changes = 0
  BY DEF ScreensInit
<1>2. PersonInv /\ ScreenInv /\ StoresInv /\ PressInv
  BY <1>1, MaxChangesIsBound DEF PersonInv, ScreenInv, StoresInv, PressInv
<1>3. RefusalsExplained /\ RowsAnswerToTheirStore
  BY <1>1 DEF RefusalsExplained, RowsAnswerToTheirStore
<1>4. press.took = 0
  BY <1>1 DEF Unpressed
<1>5. TakesEffectOnce
  BY <1>4 DEF TakesEffectOnce
<1> QED BY <1>2, <1>3, <1>5 DEF ScreensInv

\* What was pressed stays as it was while the device is in the same hands.
LEMMA PressStays ==
  ASSUME PressInv, TakesEffectOnce, press' = press,
         press = Unpressed \/ (held' = held /\ app' = app /\ screen' # NoPage)
  PROVE  PressInv' /\ TakesEffectOnce'
<1>1. TakesEffectOnce'
  BY DEF TakesEffectOnce
<1>2. CASE press = Unpressed
  BY <1>1, <1>2 DEF PressInv, Unpressed
<1>3. CASE press # Unpressed
  <2>1. PICK p \in DOMAIN Pages : \E b \in DOMAIN Pages[p].does : UnderWay(p, b)
    BY <1>3 DEF PressInv
  <2>2. PICK b \in DOMAIN Pages[p].does : UnderWay(p, b)
    BY <2>1
  <2>3. UnderWay(p, b)'
    BY <1>3, <2>2 DEF UnderWay
  <2> QED BY <1>1, <1>3, <2>3 DEF PressInv
<1> QED BY <1>2, <1>3

\* Nothing was answered, nothing is to be explained.
LEMMA Silence ==
  ASSUME last' = NoAnswer
  PROVE  RefusalsExplained' /\ RowsAnswerToTheirStore'
BY DEF RefusalsExplained, RowsAnswerToTheirStore

\* The page that comes up may be on the screen.
LEMMA PageArrives ==
  ASSUME NEW p \in DOMAIN Pages, Pages[p].app = app, NEW s,
         app = "admin" => s \in Stores \cup {All},
         app = "pos" => Works(held, s),
         app \notin {"admin", "pos"} => Offers(Pages[p].to, s)
  PROVE  ShownTo(held, app, Landing(p, s), s)
<1>1. CASE app = "pos" /\ ~Offers(Pages[p].to, s)
  <2>1. Landing(p, s) = "PosOrders"
    <3>1. p \notin {"Dashboard", "HqDashboard"}
      BY <1>1, Landings
    <3> QED BY <1>1, <3>1 DEF Landing
  <2> QED BY <1>1, <2>1, Landings DEF ShownTo, Displays
<1>2. CASE p \in {"Dashboard", "HqDashboard"}
  <2>1. app = "admin"
    BY <1>2, Landings
  <2>2. Landing(p, s) = IF s = All THEN "HqDashboard" ELSE "Dashboard"
    BY <1>2, <2>1 DEF Landing
  <2> QED BY <2>1, <2>2, Landings DEF ShownTo
<1>3. CASE /\ ~(app = "pos" /\ ~Offers(Pages[p].to, s))
           /\ p \notin {"Dashboard", "HqDashboard"}
  <2>1. Landing(p, s) = p
    BY <1>3 DEF Landing
  <2>2. app # "admin" => Displays(Pages[p].to, Tokens(held, app, s))
    BY <1>3 DEF Offers, Displays
  <2> QED BY <1>3, <2>1, <2>2 DEF ShownTo
<1> QED BY <1>1, <1>2, <1>3

LEMMA AsksStores ==
  ASSUME NEW p, NEW s
  PROVE  AskFor(p, s) \subseteq Stores \cup {NoStore}
BY DEF AskFor

LEMMA SignInKeeps == ASSUME ScreensInv, SignIn PROVE ScreensInv'
<1>1. /\ screen = NoPage /\ rights' = rights /\ held' = rights
      /\ press' = press /\ subject' = NoStore /\ listed' = NoStore
      /\ last' = NoAnswer /\ changes' = changes
  BY DEF SignIn
<1> DEFINE Takes(a, s) ==
      /\ app' = a /\ store' = s
      /\ screen' = IF a = "pos"
                   /\ Pages.Counter.to \cap Tokens(rights, a, s) = {}
                 THEN "PosOrders"
                 ELSE IF s = All THEN "HqDashboard" ELSE Home[a]
      /\ asked' = AskFor(screen', s)
<1>a. PICK a \in FrontEnds(rights) : \E s \in FirstStore(rights, a) : Takes(a, s)
  BY DEF SignIn
<1>2. PICK s \in FirstStore(rights, a) : Takes(a, s)
  BY <1>a
<1>3. rights \in Person
  BY RosterAssumption DEF ScreensInv, PersonInv
<1>4. PersonInv'
  BY <1>1 DEF ScreensInv, PersonInv
<1>5. ShownTo(rights, a, screen', s) /\ s \in Stores \cup {All, NoStore}
  <2>1. CASE a = "admin"
    <3>1. rights.kind = "staff"
      BY <1>3, <2>1, PersonIs DEF FrontEnds
    <3>2. s \in Stores \cup {All}
      BY <2>1, <3>1 DEF FirstStore
    <3>3. screen' = IF s = All THEN "HqDashboard" ELSE "Dashboard"
      BY <1>2, <2>1 DEF Home
    <3> QED BY <2>1, <3>2, <3>3, Landings DEF ShownTo
  <2>2. CASE a = "pos"
    <3>1. rights.kind = "staff" /\ rights.hq \in BOOLEAN
      BY <1>3, <2>2, PersonIs DEF FrontEnds
    <3>2. Works(rights, s)
      BY <2>2, <3>1 DEF FirstStore, Works
    <3>3. CASE Pages.Counter.to \cap Tokens(rights, a, s) = {}
      <4>1. screen' = "PosOrders"
        BY <1>2, <2>2, <3>3
      <4> QED BY <2>2, <3>2, <4>1, Landings DEF ShownTo, Displays, Works
    <3>4. CASE Pages.Counter.to \cap Tokens(rights, a, s) # {}
      <4>1. s \in Stores
        BY <3>2 DEF Works
      <4>2. screen' = "Counter"
        BY <1>2, <2>2, <3>4, <4>1, AllIsNoStore DEF Home
      <4> QED BY <2>2, <3>2, <3>4, <4>1, <4>2, Landings DEF ShownTo, Displays
    <3> QED BY <3>3, <3>4
  <2>3. CASE a \notin {"admin", "pos"}
    <3>1. /\ rights.kind # "staff"
          /\ a \in {"platform", "pwa"}
      BY <1>3, <2>3, PersonIs DEF FrontEnds
    <3>2. s = NoStore
      BY <3>1 DEF FirstStore
    <3>3. screen' = Home[a]
      BY <1>2, <3>1, <3>2, AllIsNoStore
    <3>4. screen' = IF a = "platform" THEN "Metrics" ELSE "MyOrders"
      BY <3>1, <3>3 DEF Home
    <3> QED BY <3>1, <3>2, <3>4, Landings DEF ShownTo, Displays
  <2> QED BY <2>1, <2>2, <2>3
<1>6. \A h \in asked' : Loads(rights, a, screen', h)
  BY <1>2, <1>5, AskedBy
<1>7. ScreenInv'
  <2>1. a \in FrontEnds(rights)
    OBVIOUS
  <2> QED BY <1>1, <1>2, <1>5, <1>6, <2>1 DEF ScreenInv
<1>8. StoresInv'
  BY <1>1, <1>2, <1>5, AsksStores DEF ScreensInv, StoresInv
<1>9. PressInv' /\ TakesEffectOnce'
  BY <1>1, PressStays DEF ScreensInv, PressInv
<1> QED BY <1>1, <1>4, <1>7, <1>8, <1>9, Silence DEF ScreensInv

LEMMA SignOutKeeps == ASSUME ScreensInv, SignOut PROVE ScreensInv'
<1>1. /\ press = Unpressed /\ press' = Unpressed
      /\ store' = NoStore /\ screen' = NoPage
      /\ subject' = NoStore /\ listed' = NoStore /\ asked' = {}
      /\ last' = NoAnswer
      /\ rights' = rights /\ held' = held /\ changes' = changes
  BY DEF SignOut
<1>2. PersonInv' /\ ScreenInv' /\ StoresInv'
  BY <1>1 DEF ScreensInv, PersonInv, ScreenInv, StoresInv
<1>3. PressInv' /\ TakesEffectOnce'
  BY <1>1, PressStays DEF ScreensInv
<1> QED BY <1>1, <1>2, <1>3, Silence DEF ScreensInv

LEMMA ChangeRightsKeeps == ASSUME ScreensInv, ChangeRights PROVE ScreensInv'
<1>1. /\ changes < MaxChanges /\ changes' = changes + 1 /\ last' = NoAnswer
      /\ held' = held /\ app' = app /\ store' = store /\ screen' = screen
      /\ subject' = subject /\ listed' = listed /\ asked' = asked
      /\ press' = press
      /\ rights' \in Roster /\ rights'.kind = rights.kind
  BY DEF ChangeRights
<1>2. PersonInv'
  BY <1>1 DEF ScreensInv, PersonInv
<1>3. ScreenInv'
  BY <1>1 DEF ScreensInv, ScreenInv
<1>4. StoresInv'
  BY <1>1, MaxChangesIsBound DEF ScreensInv, StoresInv
<1>5. PressInv' /\ TakesEffectOnce'
  BY <1>1, PressStays DEF ScreensInv, PressInv
<1> QED BY <1>1, <1>2, <1>3, <1>4, <1>5, Silence DEF ScreensInv

LEMMA OpenPageKeeps == ASSUME ScreensInv, Open PROVE ScreensInv'
<1>1. /\ screen # NoPage /\ press = Unpressed /\ last' = NoAnswer
      /\ rights' = rights /\ held' = held /\ app' = app /\ store' = store
      /\ press' = press /\ changes' = changes
  BY DEF Open
<1>2. PICK p \in DOMAIN Pages :
         /\ Pages[p].app = app /\ Offers(Pages[p].to, store)
         /\ ComeUp(p, store, IF p \in DOMAIN From THEN listed ELSE NoStore)
  BY DEF Open
<1>3. /\ screen' = Landing(p, store)
      /\ subject' = IF p \in DOMAIN From THEN listed ELSE NoStore
      /\ listed' = NoStore /\ asked' = AskFor(screen', store)
  BY <1>2 DEF ComeUp
<1>4. /\ app \in FrontEnds(held)
      /\ app = "admin" => store \in Stores \cup {All}
      /\ app = "pos" => Works(held, store)
  BY <1>1 DEF ScreensInv, ScreenInv, ShownTo
<1>5. ShownTo(held, app, screen', store)
  BY <1>2, <1>3, <1>4, PageArrives
<1>6. \A h \in asked' : Loads(held, app, screen', h)
  BY <1>3, <1>5, AskedBy
<1>7. ASSUME p \in DOMAIN From PROVE screen' \in DOMAIN From
  <2>1. p \notin {"Dashboard", "HqDashboard"}
    BY <1>7 DEF From
  <2>2. Landing(p, store) = p
    BY <1>2, <2>1 DEF Landing
  <2> QED BY <1>3, <1>7, <2>2
<1>8. ScreenInv'
  BY <1>1, <1>3, <1>4, <1>5, <1>6, <1>7 DEF ScreenInv
<1>9. PersonInv' /\ StoresInv'
  BY <1>1, <1>3, AsksStores DEF ScreensInv, PersonInv, StoresInv
<1>10. PressInv' /\ TakesEffectOnce'
  BY <1>1, PressStays DEF ScreensInv
<1> QED BY <1>1, <1>8, <1>9, <1>10, Silence DEF ScreensInv

LEMMA SwitchStoreKeeps == ASSUME ScreensInv, SwitchStore PROVE ScreensInv'
<1>1. /\ screen # NoPage /\ held.kind = "staff" /\ last' = NoAnswer
      /\ rights' = rights /\ held' = held /\ app' = app
      /\ press' = press /\ changes' = changes
  BY DEF SwitchStore
<1>2. PICK s \in IF held.hq
                 THEN Stores \cup (IF app = "admin" THEN {All} ELSE {})
                 ELSE {t \in Stores : held.roles[t] # NoRole} :
         /\ store' = s
         /\ IF Landing(screen, s) # screen
            THEN ComeUp(screen, s, NoStore)
            ELSE /\ asked' = IF "follows store" \in Pages[screen].ways
                             THEN asked \cup AskFor(screen, s) ELSE asked
                 /\ UNCHANGED <<screen, subject, listed>>
  BY DEF SwitchStore
<1>3. held \in Person
  BY RosterAssumption DEF ScreensInv, PersonInv
<1>4. /\ app \in FrontEnds(held) /\ ShownTo(held, app, screen, store)
      /\ \A h \in asked : Loads(held, app, screen, h)
      /\ subject # NoStore => screen \in DOMAIN From
  BY <1>1 DEF ScreensInv, ScreenInv
<1>5. screen \in DOMAIN Pages /\ Pages[screen].app = app
  BY <1>4 DEF ShownTo
<1>6. app \in {"admin", "pos"}
  BY <1>1, <1>4 DEF FrontEnds
<1>7. /\ app = "admin" => s \in Stores \cup {All}
      /\ app = "pos" => Works(held, s)
      /\ s \in Stores \cup {All, NoStore}
  BY <1>2 DEF Works
<1>8. ShownTo(held, app, Landing(screen, s), s)
  BY <1>5, <1>6, <1>7, PageArrives
<1>9. \A h \in AskFor(Landing(screen, s), s) :
         Loads(held, app, Landing(screen, s), h)
  BY <1>8, AskedBy
<1>10. AskFor(Landing(screen, s), s) \subseteq Stores \cup {NoStore}
  BY AsksStores
<1>11. /\ screen' = Landing(screen, s)
       /\ subject' # NoStore => screen' \in DOMAIN From
       /\ \A h \in asked' : Loads(held, app, screen', h)
       /\ subject' \in {subject, NoStore} /\ listed' \in {listed, NoStore}
       /\ asked' \subseteq asked \cup AskFor(Landing(screen, s), s)
  <2>1. CASE Landing(screen, s) # screen
    BY <1>2, <1>9, <2>1 DEF ComeUp
  <2>2. CASE Landing(screen, s) = screen
    <3>1. /\ screen' = screen /\ subject' = subject /\ listed' = listed
          /\ asked' \subseteq asked \cup AskFor(screen, s)
      BY <1>2, <2>2
    <3> QED BY <1>4, <1>9, <2>2, <3>1
  <2> QED BY <2>1, <2>2
<1>12. ScreenInv'
  BY <1>1, <1>2, <1>4, <1>8, <1>11 DEF ScreenInv
<1>13. PersonInv' /\ StoresInv'
  BY <1>1, <1>2, <1>7, <1>10, <1>11 DEF ScreensInv, PersonInv, StoresInv
<1>14. screen' # NoPage
  BY <1>8, <1>11, NoPageIsNone DEF ShownTo
<1>15. PressInv' /\ TakesEffectOnce'
  BY <1>1, <1>14, PressStays DEF ScreensInv
<1> QED BY <1>1, <1>12, <1>13, <1>15, Silence DEF ScreensInv

LEMMA PollKeeps == ASSUME ScreensInv, Poll PROVE ScreensInv'
<1>1. /\ screen # NoPage /\ last' = NoAnswer
      /\ rights' = rights /\ held' = held /\ app' = app /\ store' = store
      /\ screen' = screen /\ subject' = subject /\ listed' = listed
      /\ press' = press /\ changes' = changes
      /\ asked' = asked \cup AskFor(screen, store)
  BY DEF Poll
<1>2. /\ ShownTo(held, app, screen, store)
      /\ \A h \in asked : Loads(held, app, screen, h)
  BY <1>1 DEF ScreensInv, ScreenInv
<1>3. \A h \in asked' : Loads(held, app, screen, h)
  BY <1>1, <1>2, AskedBy
<1>4. ScreenInv'
  BY <1>1, <1>3 DEF ScreensInv, ScreenInv
<1>5. PersonInv' /\ StoresInv'
  BY <1>1, AsksStores DEF ScreensInv, PersonInv, StoresInv
<1>6. PressInv' /\ TakesEffectOnce'
  BY <1>1, PressStays DEF ScreensInv
<1> QED BY <1>1, <1>4, <1>5, <1>6, Silence DEF ScreensInv

LEMMA LoadedKeeps == ASSUME ScreensInv, Loaded PROVE ScreensInv'
<1>1. /\ screen # NoPage
      /\ rights' = rights /\ held' = held /\ app' = app /\ store' = store
      /\ screen' = screen /\ subject' = subject
      /\ press' = press /\ changes' = changes
  BY DEF Loaded
<1>2. PICK h \in asked, r \in Pages[screen].loads :
         /\ last' = Answer(r, [header |-> h, row |-> subject])
         /\ asked' = asked \ {h}
         /\ \/ listed' = listed
            \/ listed' = subject
            \/ listed' \in IF h = NoStore THEN Stores ELSE {h}
  BY DEF Loaded
<1>3. /\ last'.page = screen /\ last'.route = r /\ last'.header = h
      /\ last'.row = subject
      /\ last'.verdict = Verdict(rights, r, h, subject)
      /\ last'.fresh = (rights = held)
  BY <1>2 DEF Answer
<1>4. /\ app \in FrontEnds(held) /\ ShownTo(held, app, screen, store)
      /\ Loads(held, app, screen, h)
      /\ subject # NoStore => screen \in DOMAIN From
  BY <1>1 DEF ScreensInv, ScreenInv
<1>5. screen \in DOMAIN Pages /\ Pages[screen].app = app
  BY <1>4 DEF ShownTo
<1>6. held \in Person
  BY RosterAssumption DEF ScreensInv, PersonInv
<1>7. RefusalsExplained'
  <2>1. ASSUME last'.verdict = "forbidden", rights = held
        PROVE  Explained(held, screen, r, h)
    <3>1. Verdict(held, r, h, subject) = "forbidden"
      BY <1>3, <2>1
    <3>2. ~Admits(held, Routes[r], h)
      BY <3>1, VerdictMeans
    <3>3. Sends(held, app, screen, h)
      BY <1>4 DEF Loads
    <3> QED BY <1>4, <1>5, <1>6, <3>2, <3>3, LoadExplained
  <2> QED BY <1>1, <1>3, <2>1 DEF RefusalsExplained, Explained
<1>8. RowsAnswerToTheirStore'
  <2>1. ASSUME last'.verdict = "done", subject # NoStore, rights.kind = "staff"
        PROVE  h = subject
    <3>1. Verdict(rights, r, h, subject) = "done" /\ screen \in DOMAIN From
      BY <1>3, <1>4, <2>1
    <3> QED BY <1>5, <2>1, <3>1, LoadInStore
  <2>2. ASSUME last'.verdict = "unscoped"
        PROVE  screen \in {"NewOrder", "OrderDetail", "BatchDetail"}
    <3>1. Verdict(rights, r, h, subject) = "unscoped"
      BY <1>3, <2>2
    <3>2. Routes[r].scope = "store" /\ h = NoStore
      BY <3>1, VerdictMeans
    <3> QED BY <1>4, <1>5, <3>2, LoadUnscoped
  <2> QED BY <1>1, <1>3, <2>1, <2>2 DEF RowsAnswerToTheirStore
<1>9. ScreenInv'
  BY <1>1, <1>2 DEF ScreensInv, ScreenInv
<1>10. PersonInv' /\ StoresInv'
  BY <1>1, <1>2 DEF ScreensInv, PersonInv, StoresInv
<1>11. PressInv' /\ TakesEffectOnce'
  BY <1>1, PressStays DEF ScreensInv
<1> QED BY <1>7, <1>8, <1>9, <1>10, <1>11 DEF ScreensInv

\* After a press or an answer.
LEMMA StillUnderWay ==
  ASSUME NEW p, NEW b, held' = held, app' = app, Pages[p].app = app,
         DOMAIN press' = {"name", "tries", "calls", "took"},
         press'.name = <<p, b>>, press'.tries \in 1..2, press'.took \in Nat,
         "busy" \in Pages[p].does[b].ways => press'.tries = 1,
         press'.calls \in Seq(ButtonCall),
         Len(press'.calls) + press'.took <= press'.tries,
         \A i \in 1..Len(press'.calls) :
            CallOf(held, app, p, Pages[p].does[b], press'.calls[i])
  PROVE  UnderWay(p, b)'
BY DEF UnderWay

LEMMA PressButtonKeeps == ASSUME ScreensInv, PressButton PROVE ScreensInv'
<1>1. /\ screen # NoPage /\ last' = NoAnswer
      /\ "needs store" \in Pages[screen].ways => Selected
      /\ rights' = rights /\ held' = held /\ app' = app /\ store' = store
      /\ screen' = screen /\ subject' = subject /\ listed' = listed
      /\ asked' = asked /\ changes' = changes
  BY DEF PressButton
<1> DEFINE act(b) == Pages[screen].does[b]
           row(b) == IF "row" \in act(b).ways THEN listed ELSE NoStore
           c(b) == [header |-> Header, row |-> row(b)]
<1>2. PICK b \in DOMAIN Pages[screen].does :
         /\ Offers(act(b).to, store)
         /\ "store" \in act(b).ways => Selected
         /\ \/ press = Unpressed
            \/ /\ press.name = <<screen, b>> /\ Len(press.calls) = 1
               /\ press.tries = 1 /\ "busy" \notin act(b).ways
         /\ press' = [name |-> <<screen, b>>, tries |-> press.tries + 1,
                      calls |-> Append(press.calls, c(b)), took |-> press.took]
  BY DEF PressButton
<1>3. /\ app \in FrontEnds(held) /\ ShownTo(held, app, screen, store)
  BY <1>1 DEF ScreensInv, ScreenInv
<1>4. screen \in DOMAIN Pages /\ Pages[screen].app = app
  BY <1>3 DEF ShownTo
<1>5. Header = IF store \in Stores THEN store ELSE NoStore
  BY DEF Header, Selected
<1>6. c(b) \in ButtonCall
  BY <1>5 DEF ScreensInv, StoresInv, ButtonCall
<1>7. Displays(act(b).to, Tokens(held, app, store))
  BY <1>2 DEF Offers, Displays
<1>8. /\ Sends(held, app, screen, Header)
      /\ app # "admin" => Displays(act(b).to, Tokens(held, app, Header))
  <2>1. CASE app = "pos"
    BY <1>3, <1>5, <1>7, <2>1, StoresAreStores DEF ShownTo, Sends, Works
  <2>2. CASE app # "pos"
    <3>1. Tokens(held, app, store) = Tokens(held, app, Header)
      BY <2>2, TokensElsewhere
    <3> QED BY <1>1, <1>3, <1>5, <1>7, <2>2, <3>1, StoresAreStores
            DEF ShownTo, Sends, Selected
  <2> QED BY <2>1, <2>2
<1>9. CallOf(held, app, screen, act(b), c(b))
  <2>1. c(b).header = Header /\ c(b).row = row(b)
    OBVIOUS
  <2>2. row(b) # NoStore => "row" \in act(b).ways
    OBVIOUS
  <2>3. Header = NoStore => "store" \notin act(b).ways
    BY <1>2, <1>5, StoresAreStores DEF Selected
  <2> HIDE DEF c, row, act
  <2> QED BY <1>8, <2>1, <2>2, <2>3 DEF CallOf
<1> HIDE DEF c, row
<1>10. /\ press'.name = <<screen, b>> /\ press'.tries = press.tries + 1
       /\ press'.calls = Append(press.calls, c(b)) /\ press'.took = press.took
       /\ DOMAIN press' = {"name", "tries", "calls", "took"}
  BY <1>2
<1> HIDE DEF act
<1>b. PICK n : n = screen
  OBVIOUS
<1>11. UnderWay(n, b)'
  <2>1. CASE press = Unpressed
    <3>1. press.tries = 0 /\ press.calls = <<>> /\ press.took = 0
      BY <2>1 DEF Unpressed
    <3>2. press'.calls = <<c(b)>>
      BY <1>10, <3>1
    <3>3. /\ press'.calls \in Seq(ButtonCall) /\ Len(press'.calls) = 1
          /\ press'.calls[1] = c(b)
      BY <1>6, <3>2
    <3>4. /\ press'.tries = 1 /\ press'.took = 0
      BY <1>10, <3>1
    <3>5. \A i \in 1..Len(press'.calls) :
             CallOf(held, app, n, act(b), press'.calls[i])
      BY <1>9, <1>b, <3>3
    <3>6. act(b) = Pages[n].does[b]
      BY <1>b DEF act
    <3>7. /\ Len(press'.calls) + press'.took <= press'.tries
          /\ press'.tries \in 1..2 /\ press'.took \in Nat
      BY <3>3, <3>4
    <3>8. Pages[n].app = app /\ press'.name = <<n, b>>
      BY <1>4, <1>b, <1>10
    <3>9. \A i \in 1..Len(press'.calls) :
             CallOf(held, app, n, Pages[n].does[b], press'.calls[i])
      BY <3>5, <3>6
    <3> QED BY <1>1, <1>10, <3>3, <3>4, <3>7, <3>8, <3>9, StillUnderWay
  <2>2. CASE press # Unpressed
    <3>1. PICK p \in DOMAIN Pages :
             \E d \in DOMAIN Pages[p].does : UnderWay(p, d)
      BY <2>2 DEF ScreensInv, PressInv
    <3>2. PICK d \in DOMAIN Pages[p].does : UnderWay(p, d)
      BY <3>1
    <3>3. p = screen /\ d = b
      BY <1>2, <2>2, <3>2 DEF UnderWay
    <3>a. /\ Len(press.calls) = 1 /\ press.tries = 1
          /\ "busy" \notin act(b).ways
      BY <1>2, <2>2 DEF act
    <3>c. /\ press.calls \in Seq(ButtonCall) /\ press.took \in Nat
          /\ Len(press.calls) + press.took <= press.tries
          /\ \A i \in 1..Len(press.calls) :
                CallOf(held, app, p, Pages[p].does[d], press.calls[i])
      BY <3>2 DEF UnderWay
    <3>4. /\ Len(press.calls) = 1 /\ press.tries = 1
          /\ "busy" \notin act(b).ways
          /\ press.calls \in Seq(ButtonCall) /\ press.took \in Nat
          /\ 1 + press.took <= 1
          /\ CallOf(held, app, screen, act(b), press.calls[1])
      BY <3>3, <3>a, <3>c DEF act
    <3>5. press.took = 0
      BY <3>4
    <3>6. /\ press'.calls \in Seq(ButtonCall) /\ Len(press'.calls) = 2
          /\ press'.calls[1] = press.calls[1] /\ press'.calls[2] = c(b)
      BY <1>6, <1>10, <3>4
    <3>7. press'.tries = 2 /\ press'.took = 0
      BY <1>10, <3>4, <3>5
    <3>8. \A i \in 1..Len(press'.calls) :
             CallOf(held, app, n, act(b), press'.calls[i])
      <4>1. ASSUME NEW i \in 1..Len(press'.calls)
            PROVE  press'.calls[i] \in {press.calls[1], c(b)}
        BY <3>6
      <4> QED BY <1>9, <1>b, <3>4, <4>1
    <3>9. act(b) = Pages[n].does[b]
      BY <1>b DEF act
    <3>10. /\ Len(press'.calls) + press'.took <= press'.tries
           /\ press'.tries \in 1..2 /\ press'.took \in Nat
      BY <3>6, <3>7
    <3>11. Pages[n].app = app /\ press'.name = <<n, b>>
      BY <1>4, <1>b, <1>10
    <3>12. /\ "busy" \notin Pages[n].does[b].ways
           /\ \A i \in 1..Len(press'.calls) :
                 CallOf(held, app, n, Pages[n].does[b], press'.calls[i])
      BY <3>4, <3>8, <3>9
    <3> QED BY <1>1, <1>10, <3>6, <3>10, <3>11, <3>12, StillUnderWay
  <2> QED BY <2>1, <2>2
<1>12. PressInv'
  <2>1. b \in DOMAIN Pages[n].does
    BY <1>b
  <2> QED BY <1>1, <1>4, <1>b, <1>11, <2>1 DEF PressInv
<1>13. TakesEffectOnce'
  <2>1. CASE press = Unpressed
    <3>1. press'.took = 0
      BY <1>10, <2>1 DEF Unpressed
    <3> QED BY <3>1 DEF TakesEffectOnce
  <2>2. CASE press.name = <<screen, b>>
    BY <1>10, <2>2 DEF ScreensInv, TakesEffectOnce
  <2> QED BY <1>2, <2>1, <2>2
<1>14. PersonInv' /\ ScreenInv' /\ StoresInv'
  BY <1>1 DEF ScreensInv, PersonInv, ScreenInv, StoresInv
<1> QED BY <1>1, <1>12, <1>13, <1>14, Silence DEF ScreensInv

LEMMA ServedKeeps == ASSUME ScreensInv, Served PROVE ScreensInv'
<1>1. /\ press.calls # <<>>
      /\ rights' = rights /\ held' = held /\ app' = app /\ store' = store
      /\ screen' = screen /\ subject' = subject /\ listed' = listed
      /\ asked' = asked /\ changes' = changes
  BY DEF Served
<1>2. press # Unpressed
  <2>1. Unpressed.calls = <<>>
    BY DEF Unpressed
  <2> QED BY <1>1, <2>1
<1>3. PICK p \in DOMAIN Pages : \E b \in DOMAIN Pages[p].does : UnderWay(p, b)
  BY <1>2 DEF ScreensInv, PressInv
<1>4. PICK b \in DOMAIN Pages[p].does : UnderWay(p, b)
  BY <1>3
<1> DEFINE act == Pages[p].does[b]
           c == Head(press.calls)
<1>5. press.name[1] = p /\ press.name[2] = b
  BY <1>4 DEF UnderWay
<1>6. /\ press.calls \in Seq(ButtonCall) /\ Len(press.calls) >= 1
      /\ c = press.calls[1] /\ CallOf(held, app, p, act, c)
  <2>1. press.calls \in Seq(ButtonCall)
    BY <1>4 DEF UnderWay
  <2>2. Len(press.calls) >= 1 /\ c = press.calls[1]
    BY <1>1, <2>1
  <2> QED BY <1>4, <2>1, <2>2 DEF UnderWay
<1>7. /\ \E r \in act.calls : last' = [Answer(r, c) EXCEPT !.page = p]
      /\ \/ press' = [press EXCEPT !.calls = Tail(@), !.took = @]
         \/ /\ press' = [press EXCEPT !.calls = Tail(@), !.took = @ + 1]
            /\ \/ \E r \in act.calls : Routes[r].twice \in {"again", "races"}
               \/ press.took = 0
  <2>1. press.took \in Nat
    BY <1>4 DEF UnderWay
  <2>2. \E r \in act.calls : last' = [Answer(r, c) EXCEPT !.page = p]
    BY <1>5 DEF Served
  <2>3. PICK took \in {press.took, press.took + 1} :
           /\ press' = [press EXCEPT !.calls = Tail(@), !.took = took]
           /\ took # press.took =>
                \/ \E r \in act.calls : Routes[r].twice \in {"again", "races"}
                \/ press.took = 0
    BY <1>5 DEF Served
  <2> HIDE DEF act, c
  <2>4. CASE took = press.took
    BY <2>2, <2>3, <2>4
  <2>5. CASE took # press.took
    BY <2>1, <2>2, <2>3, <2>5
  <2> QED BY <2>4, <2>5
<1>8. /\ press'.name = press.name /\ press'.tries = press.tries
      /\ press'.calls = Tail(press.calls)
      /\ \/ press'.took = press.took
         \/ /\ press'.took = press.took + 1
            /\ \/ \E r \in act.calls : Routes[r].twice \in {"again", "races"}
               \/ press.took = 0
      /\ DOMAIN press' = {"name", "tries", "calls", "took"}
  <2>1. DOMAIN press = {"name", "tries", "calls", "took"}
    BY <1>4 DEF UnderWay
  <2>2. CASE press' = [press EXCEPT !.calls = Tail(@), !.took = @]
    BY <2>1, <2>2
  <2>3. CASE press' = [press EXCEPT !.calls = Tail(@), !.took = @ + 1]
    BY <1>7, <2>1, <2>3
  <2> QED BY <1>7, <2>2, <2>3
<1>9. PICK r \in act.calls : last' = [Answer(r, c) EXCEPT !.page = p]
  BY <1>7
<1>10. /\ last'.page = p /\ last'.route = r /\ last'.header = c.header
       /\ last'.row = c.row
       /\ last'.verdict = Verdict(rights, r, c.header, c.row)
       /\ last'.fresh = (rights = held)
  BY <1>9 DEF Answer
<1>11. Pages[p].app = app /\ app \in FrontEnds(held)
  BY <1>2, <1>4 DEF ScreensInv, PressInv, ScreenInv, UnderWay
<1>12. held \in Person
  BY RosterAssumption DEF ScreensInv, PersonInv
<1> HIDE DEF c
<1>13. RefusalsExplained'
  <2>1. ASSUME last'.verdict = "forbidden", rights = held
        PROVE  Explained(held, p, r, c.header)
    <3>1. Verdict(held, r, c.header, c.row) = "forbidden"
      BY <1>10, <2>1
    <3>2. ~Admits(held, Routes[r], c.header)
      BY <3>1, VerdictMeans
    <3> QED BY <1>6, <1>11, <1>12, <3>2, CallExplained
  <2> QED BY <1>1, <1>10, <2>1 DEF RefusalsExplained, Explained
<1>14. RowsAnswerToTheirStore'
  <2>1. ASSUME last'.verdict = "done", c.row # NoStore, rights.kind = "staff"
        PROVE  c.header = c.row \/ r \in DOMAIN InvoiceRoutes \cup {"transfer"}
    <3>1. Verdict(rights, r, c.header, c.row) = "done"
      BY <1>10, <2>1
    <3>2. "row" \in act.ways
      BY <1>6, <2>1 DEF CallOf
    <3> QED BY <2>1, <3>1, <3>2, CallInStore
  <2>2. ASSUME last'.verdict = "unscoped"
        PROVE  p \in {"NewOrder", "OrderDetail", "BatchDetail"}
    <3>1. Verdict(rights, r, c.header, c.row) = "unscoped"
      BY <1>10, <2>2
    <3>2. Routes[r].scope = "store" /\ c.header = NoStore
      BY <3>1, VerdictMeans
    <3> QED BY <1>6, <1>11, <3>2, CallUnscoped
  <2> QED BY <1>1, <1>10, <2>1, <2>2 DEF RowsAnswerToTheirStore
<1>15. /\ press'.calls \in Seq(ButtonCall)
       /\ Len(press'.calls) = Len(press.calls) - 1
       /\ \A i \in 1..Len(press'.calls) : press'.calls[i] = press.calls[i + 1]
  BY <1>6, <1>8
<1>16. /\ press.name = <<p, b>> /\ press.tries \in 1..2 /\ press.took \in Nat
       /\ "busy" \in act.ways => press.tries = 1
       /\ Len(press.calls) + press.took <= press.tries
       /\ \A i \in 1..Len(press.calls) : CallOf(held, app, p, act, press.calls[i])
  BY <1>4 DEF UnderWay
<1> HIDE DEF act
<1>17. \A i \in 1..Len(press'.calls) : CallOf(held, app, p, act, press'.calls[i])
  BY <1>6, <1>15, <1>16
<1>18. /\ press'.name = <<p, b>> /\ press'.tries \in 1..2 /\ press'.took \in Nat
       /\ "busy" \in act.ways => press'.tries = 1
       /\ Len(press'.calls) + press'.took <= press'.tries
  <2>1. Len(press.calls) \in Nat
    BY <1>6
  <2>2. press'.took = press.took \/ press'.took = press.took + 1
    BY <1>8
  <2> QED BY <1>8, <1>15, <1>16, <2>1, <2>2
<1>19. UnderWay(p, b)'
  BY <1>1, <1>8, <1>11, <1>15, <1>17, <1>18, StillUnderWay DEF act
<1>20. PressInv'
  BY <1>1, <1>2, <1>19 DEF ScreensInv, PressInv
<1>21. TakesEffectOnce'
  <2>1. ASSUME press'.took > 1 PROVE press'.name \in TwiceTaken
    <3>1. CASE press'.took = press.took
      BY <1>8, <2>1, <3>1 DEF ScreensInv, TakesEffectOnce
    <3>2. CASE press'.took # press.took
      <4>1. press.took >= 1
        BY <1>8, <1>16, <2>1, <3>2
      <4>2. \E q \in act.calls : Routes[q].twice \in {"again", "races"}
        BY <1>8, <3>2, <4>1
      <4>3. "busy" \notin act.ways
        BY <1>6, <1>16, <4>1
      <4>4. PressSound(p, b, act)
        BY PressIsSound DEF act
      <4>5. <<p, b>> \in TwiceTaken
        BY <4>2, <4>3, <4>4 DEF PressSound
      <4> QED BY <1>18, <4>5
    <3> QED BY <3>1, <3>2
  <2> QED BY <2>1 DEF TakesEffectOnce
<1>22. PersonInv' /\ ScreenInv' /\ StoresInv'
  BY <1>1 DEF ScreensInv, PersonInv, ScreenInv, StoresInv
<1> QED BY <1>13, <1>14, <1>20, <1>21, <1>22 DEF ScreensInv

LEMMA DoneKeeps == ASSUME ScreensInv, Done PROVE ScreensInv'
<1>1. /\ press' = Unpressed /\ last' = NoAnswer
      /\ rights' = rights /\ held' = held /\ app' = app /\ store' = store
      /\ screen' = screen /\ subject' = subject /\ listed' = listed
      /\ asked' = asked /\ changes' = changes
  BY DEF Done
<1>2. press'.took = 0
  BY <1>1 DEF Unpressed
<1>3. PressInv' /\ TakesEffectOnce'
  <2>1. Unpressed' = Unpressed
    BY DEF Unpressed
  <2> QED BY <1>1, <1>2, <2>1 DEF PressInv, TakesEffectOnce
<1>4. PersonInv' /\ ScreenInv' /\ StoresInv'
  BY <1>1 DEF ScreensInv, PersonInv, ScreenInv, StoresInv
<1> QED BY <1>1, <1>3, <1>4, Silence DEF ScreensInv

LEMMA ScreensStep == ScreensInv /\ [ScreensNext]_screenVars => ScreensInv'
<1> SUFFICES ASSUME ScreensInv, [ScreensNext]_screenVars PROVE ScreensInv'
  OBVIOUS
<1>1. CASE UNCHANGED screenVars
  <2>1. /\ rights' = rights /\ held' = held /\ app' = app /\ store' = store
        /\ screen' = screen /\ subject' = subject /\ listed' = listed
        /\ asked' = asked /\ press' = press /\ last' = last
        /\ changes' = changes
    BY <1>1 DEF screenVars
  <2>2. PressInv' /\ TakesEffectOnce'
    BY <2>1, PressStays DEF ScreensInv, PressInv
  <2>3. PersonInv' /\ ScreenInv' /\ StoresInv'
    BY <2>1 DEF ScreensInv, PersonInv, ScreenInv, StoresInv
  <2>4. RefusalsExplained' /\ RowsAnswerToTheirStore'
    BY <2>1 DEF ScreensInv, RefusalsExplained, RowsAnswerToTheirStore
  <2> QED BY <2>2, <2>3, <2>4 DEF ScreensInv
<1> QED BY <1>1, SignInKeeps, SignOutKeeps, ChangeRightsKeeps, OpenPageKeeps,
           SwitchStoreKeeps, PollKeeps, LoadedKeeps, PressButtonKeeps,
           ServedKeeps, DoneKeeps DEF ScreensNext

\* The invariant of every device, for any stores, people and overrides.
THEOREM ScreensInvariant == ScreensSpec => []ScreensInv
BY InitScreens, ScreensStep, PTL DEF ScreensSpec

\* Type correctness of the device: what is on the screen, asked for and pressed.
THEOREM ScreensTypesHold == ScreensSpec => []ScreensTypeOK
<1>1. ASSUME ScreensInv PROVE ScreensTypeOK
  <2>1. rights \in Roster /\ held \in Roster
    BY <1>1 DEF ScreensInv, PersonInv
  <2>2. screen \in DOMAIN Pages \cup {NoPage}
    BY <1>1 DEF ScreensInv, ScreenInv, ShownTo
  <2>3. press.tries \in 0..2 /\ Len(press.calls) <= 2
    <3>1. CASE press = Unpressed
      <4>1. Unpressed.tries = 0 /\ Unpressed.calls = <<>>
        BY DEF Unpressed
      <4> QED BY <3>1, <4>1
    <3>2. CASE press # Unpressed
      <4>1. PICK p \in DOMAIN Pages :
               \E b \in DOMAIN Pages[p].does : UnderWay(p, b)
        BY <1>1, <3>2 DEF ScreensInv, PressInv
      <4>2. PICK b \in DOMAIN Pages[p].does : UnderWay(p, b)
        BY <4>1
      <4>3. /\ press.tries \in 1..2 /\ press.took \in Nat
            /\ Len(press.calls) \in Nat
            /\ Len(press.calls) + press.took <= press.tries
        BY <4>2 DEF UnderWay
      <4> QED BY <4>3
    <3> QED BY <3>1, <3>2
  <2> QED BY <1>1, <2>1, <2>2, <2>3 DEF ScreensInv, StoresInv, ScreensTypeOK
<1> QED BY <1>1, ScreensInvariant, PTL

\* A guard turns nobody away whose rights did not change since the sign-in,
\* but staff in the back office, staff whose overrides left a page of the tablet
\* short of what its tab does not look at, and at the calls pages are known to
\* offer to too many: whatever page is open, store switched to, or late load
\* answered.
THEOREM RefusalsAreExplained == ScreensSpec => []RefusalsExplained
<1>1. ScreensInv => RefusalsExplained
  BY DEF ScreensInv
<1> QED BY <1>1, ScreensInvariant, PTL

\* However impatiently it is pressed, a button has its effect once, because it
\* is disabled while its call is under way or its route takes the second request for
\* the first, also when both are carried out at once; the exceptions are those
\* listed in TwiceTaken, the workshop's "move" among them.
THEOREM PressesCountOnce == ScreensSpec => []TakesEffectOnce
<1>1. ScreensInv => TakesEffectOnce
  BY DEF ScreensInv
<1> QED BY <1>1, ScreensInvariant, PTL

\* A store role's call on a row a page showed is carried out in the store of
\* that row, whatever the switcher did since the row was listed, but for the
\* routes of invoices and transfers; and a store's rows are asked for without
\* a store by three pages of the back office only.
THEOREM RowsStayInTheirStore == ScreensSpec => []RowsAnswerToTheirStore
<1>1. ScreensInv => RowsAnswerToTheirStore
  BY DEF ScreensInv
<1> QED BY <1>1, ScreensInvariant, PTL

=============================================================================
