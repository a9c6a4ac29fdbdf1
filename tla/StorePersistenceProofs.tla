----------------------- MODULE StorePersistenceProofs -----------------------
(* What the file of MemoryStore is worth, for any rows.                      *)
EXTENDS StorePersistence, TLAPS

(* What a whole file holds, if the last save did not fail.                   *)
FileOK ==
  /\ phase = "down" /\ file.whole => file.rows \in {known, lost}
  /\ phase = "starting" => mem = IF file.whole THEN file.rows ELSE {}
  /\ phase \in {"starting", "open"} /\ file.whole => file.rows = known
  /\ phase = "write" => ~file.whole
  /\ phase = "serving" => file = Whole(mem) /\ known = mem

(* Once the server has gone past its start there is an administrator.        *)
SeededOK == phase \in {"serving", "open", "write"} => mem \cap Accounts # {}

StoreInv == (intact => FileOK) /\ (phase = "starting" => intact) /\ SeededOK
            /\ file \in {CutShort} \cup {Whole(rows) : rows \in SUBSET Rows}

LEMMA WholeFacts == /\ ~CutShort.whole
                    /\ \A rows \in SUBSET Rows : Whole(rows).whole /\ Whole(rows).rows = rows
BY DEF Whole, CutShort

LEMMA StoreType == Spec => []TypeOK
<1>1. Init => TypeOK
  BY WholeFacts DEF Init, TypeOK, CutShort
<1>2. TypeOK /\ [Next]_vars => TypeOK'
  <2> SUFFICES ASSUME TypeOK, [Next]_vars PROVE TypeOK'
    OBVIOUS
  <2>1. CASE Load
    BY <2>1, WholeFacts DEF Load, TypeOK
  <2>2. CASE SeedDefaultAdmin
    BY <2>2, AccountsAreRows DEF SeedDefaultAdmin, TypeOK, history, Accounts
  <2>3. CASE Open
    BY <2>3 DEF Open, TypeOK
  <2>4. CASE Write
    BY <2>4 DEF Write, TypeOK
  <2>5. CASE Stop
    BY <2>5 DEF Stop, TypeOK
  <2>6. ASSUME NEW rows \in SUBSET Rows, Operate(rows) PROVE TypeOK'
    BY <2>6 DEF Operate, TypeOK, history
  <2>7. CASE UNCHANGED vars
    BY <2>7 DEF vars, history, TypeOK
  <2> QED
    BY <2>1, <2>2, <2>3, <2>4, <2>5, <2>6, <2>7 DEF Next
<1> QED
  BY <1>1, <1>2, PTL DEF Spec

LEMMA StoreStep == TypeOK /\ StoreInv /\ [Next]_vars => StoreInv'
<1> SUFFICES ASSUME TypeOK, StoreInv, [Next]_vars PROVE StoreInv'
  OBVIOUS
<1>0. file' \in {CutShort} \cup {Whole(rows) : rows \in SUBSET Rows}
  <2>1. file' \in {file, CutShort, Whole(mem)}
    BY DEF Next, Load, SeedDefaultAdmin, Open, Write, Stop, Operate, vars
  <2> QED
    BY <2>1 DEF TypeOK
<1>1. CASE Load
  BY <1>0, <1>1, WholeFacts DEF Load, StoreInv, FileOK, SeededOK
<1>2. CASE SeedDefaultAdmin
  BY <1>0, <1>2, WholeFacts
  DEF SeedDefaultAdmin, StoreInv, FileOK, SeededOK, history, Accounts
<1>3. CASE Open
  BY <1>0, <1>3, WholeFacts DEF Open, StoreInv, FileOK, SeededOK
<1>4. CASE Write
  BY <1>0, <1>4, WholeFacts DEF Write, StoreInv, FileOK, SeededOK
<1>5. CASE Stop
  BY <1>0, <1>5, WholeFacts DEF Stop, StoreInv, FileOK, SeededOK, TypeOK
<1>6. ASSUME NEW rows \in SUBSET Rows, Operate(rows) PROVE StoreInv'
  BY <1>0, <1>6, WholeFacts DEF Operate, StoreInv, FileOK, SeededOK, history, TypeOK
<1>7. CASE UNCHANGED vars
  BY <1>0, <1>7 DEF vars, history, StoreInv, FileOK, SeededOK
<1> QED
  BY <1>1, <1>2, <1>3, <1>4, <1>5, <1>6, <1>7 DEF Next

LEMMA StoreInvariance == Spec => [](TypeOK /\ StoreInv)
<1>1. Init => StoreInv
  BY WholeFacts DEF Init, StoreInv, FileOK, SeededOK
<1> QED
  BY <1>1, StoreStep, StoreType, PTL DEF Spec

(* While nothing is being saved the file is that of the maps.                *)
THEOREM FileStaysCurrent == Spec => []FileIsCurrent
<1>1. StoreInv => FileIsCurrent
  BY DEF StoreInv, FileOK, FileIsCurrent
<1> QED
  BY <1>1, StoreInvariance, PTL

(* No server without an administrator.                                       *)
THEOREM AdminAlwaysServes == Spec => []AdminServes
<1>1. StoreInv => AdminServes
  BY DEF StoreInv, SeededOK, AdminServes
<1> QED
  BY <1>1, StoreInvariance, PTL

(* A start loads everything or nothing.                                      *)
THEOREM LoadsAllOrNothing == Spec => AllOrNothing
<1>1. ASSUME TypeOK, StoreInv, [Next]_vars, phase = "down", intact, vars' # vars
      PROVE  mem' \in {known, lost} \/ (~file.whole /\ mem' = {})
  <2>1. Load
    BY <1>1 DEF Next, SeedDefaultAdmin, Open, Write, Stop, Operate
  <2> QED
    BY <1>1, <2>1 DEF Load, StoreInv, FileOK
<1>2. TypeOK /\ StoreInv /\ [Next]_vars
        => [phase = "down" /\ intact =>
              mem' \in {known, lost} \/ (~file.whole /\ mem' = {})]_vars
  BY <1>1
<1> QED
  BY <1>2, StoreInvariance, PTL DEF Spec, AllOrNothing
=============================================================================
