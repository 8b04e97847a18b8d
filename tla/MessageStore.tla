----------------------------- MODULE MessageStore -----------------------------
(***************************************************************************)
(* The MySQL cluster the services share: one master, which executes every  *)
(* write, and read-only slaves that replay the master's commits in order   *)
(* and arbitrarily late (docs/2.read_write_splitting_verification.md).     *)
(*                                                                         *)
(* The tables of sql/init.sql are not variables of their own.  The state   *)
(* is the master's binary log and how much of it each slave has applied; a *)
(* table is what the first n commits put in it.  Nothing the chat service  *)
(* stores is ever updated or deleted, so a commit only adds rows.          *)
(***************************************************************************)
EXTENDS Integers, Sequences, FiniteSets

CONSTANTS
    Slaves              \* the read replicas configured for the chat service

VARIABLES
    binlog,             \* the master's commits: [table, rows], oldest first
    applied             \* applied[s]: how many of them slave s has replayed

storeVars == <<binlog, applied>>

(* What a reader that has seen the first n commits finds in a table. *)
Rows(table, n) ==
    UNION {binlog[i].rows : i \in {j \in 1..n : binlog[j].table = table}}

Master(table) == Rows(table, Len(binlog))

(* One INSERT statement: all of its rows become visible together. *)
Commit(table, rows) ==
    binlog' = Append(binlog, [table |-> table, rows |-> rows])

(* A unique key of the table makes the INSERT fail as a whole. *)
SlotTaken(row) == \E r \in Master("index") : r.owner = row.owner /\ r.seq = row.seq

(***************************************************************************)
(* How far the server behind a READ connection has got.  GetReadConnection *)
(* hands out a connection to a slave, or to the master when there is no    *)
(* slave or the slaves' pool stays empty for three seconds.                *)
(***************************************************************************)
ReadPositions == {applied[s] : s \in Slaves} \cup {Len(binlog)}

Replicate(s) ==
    /\ applied[s] < Len(binlog)
    /\ applied' = [applied EXCEPT ![s] = @ + 1]
    /\ UNCHANGED binlog
===============================================================================
