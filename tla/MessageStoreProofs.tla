--------------------------- MODULE MessageStoreProofs ---------------------------
(***************************************************************************)
(* What a commit does to the tables of MessageStore.                       *)
(***************************************************************************)
EXTENDS MessageStore, TLAPS

(* A table, and the table after a step, element by element. *)
LEMMA RowsElements ==
    ASSUME NEW t, NEW n
    PROVE  /\ \A x : x \in Rows(t, n) <=>
                   \E i \in 1..n : binlog[i].table = t /\ x \in binlog[i].rows
           /\ \A x : x \in Rows(t, n)' <=>
                   \E i \in 1..n : binlog'[i].table = t /\ x \in binlog'[i].rows
BY DEF Rows

(* A commit adds its rows to its table of the master, and changes neither  *)
(* another table nor what any prefix of the log shows.                     *)
LEMMA CommitGrowsTable ==
    ASSUME NEW S, binlog \in Seq(S), NEW tbl, NEW new, Commit(tbl, new)
    PROVE  /\ Len(binlog') = Len(binlog) + 1
           /\ \A t : \A n \in 0..Len(binlog) : Rows(t, n)' = Rows(t, n)
           /\ Master(tbl)' = Master(tbl) \cup new
           /\ \A t : t # tbl => Master(t)' = Master(t)
<1> PICK L \in Nat : L = Len(binlog)
  OBVIOUS
<1>1. /\ Len(binlog') = L + 1
      /\ \A i \in 1..L : binlog'[i] = binlog[i]
      /\ binlog'[L + 1] = [table |-> tbl, rows |-> new]
  BY DEF Commit
<1>2. ASSUME NEW t, NEW n \in 0..L PROVE Rows(t, n)' = Rows(t, n)
  <2>1. \A i \in 1..n : binlog'[i] = binlog[i]
    BY <1>1
  <2>2. \A x : x \in Rows(t, n)' <=> x \in Rows(t, n)
    BY <2>1, RowsElements
  <2> QED BY <2>2
<1>3. ASSUME NEW t
      PROVE  Rows(t, L + 1)' = Rows(t, L) \cup (IF t = tbl THEN new ELSE {})
  <2>1. 1..(L + 1) = (1..L) \cup {L + 1}
    BY <1>1
  <2>2. \A x : x \in Rows(t, L + 1)' <=>
               x \in Rows(t, L) \/ (t = tbl /\ x \in new)
    BY <2>1, <1>1, RowsElements
  <2> QED BY <2>2
<1>4. /\ \A t : Master(t) = Rows(t, L)
      /\ \A t : Master(t)' = Rows(t, L + 1)'
  BY <1>1 DEF Master
<1>5. /\ Master(tbl)' = Master(tbl) \cup new
      /\ \A t : t # tbl => Master(t)' = Master(t)
  BY <1>3, <1>4
<1> QED BY <1>1, <1>2, <1>5

(* A row that some prefix of the log shows is on the master. *)
LEMMA PrefixSubset ==
    ASSUME NEW S, binlog \in Seq(S), NEW t, NEW n \in 0..Len(binlog)
    PROVE  Rows(t, n) \subseteq Master(t)
<1>1. Len(binlog) \in Nat
  OBVIOUS
<1> QED BY <1>1 DEF Rows, Master
===============================================================================
