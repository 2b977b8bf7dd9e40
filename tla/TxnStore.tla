------------------------------ MODULE TxnStore ------------------------------
(***************************************************************************)
(* What transactions promise to the user of the engine, for the rows of    *)
(* one table: statements change the working rows; a statement outside a    *)
(* transaction is durable at once, the changes of a transaction when it    *)
(* commits; ROLLBACK takes back exactly the changes of the transaction and *)
(* ROLLBACK TO those after the savepoint; a crash leaves the durable rows. *)
(***************************************************************************)
CONSTANTS
  Rows,   \* versions of rows; an UPDATE replaces one version by another
  Txs     \* transactions; 0, which is not one, stands for autocommit

VARIABLES
  working,   \* the rows a SELECT would read
  durable,   \* the rows a restart after a crash would find
  own,       \* what each unfinished transaction inserted and deleted
  status,    \* of each transaction since the last restart
  current    \* the transaction statements belong to, or 0

storeVars == <<working, durable, own, status, current>>

Nothing == [ins |-> {}, del |-> {}]

(* Rows after the changes a have been cut back to the changes b. *)
Without(a, b) ==
  (working \ (a.ins \ b.ins)) \cup ((a.del \ b.del) \ (a.ins \ b.ins))

StoreInit ==
  /\ working = {}
  /\ durable = {}
  /\ own = [t \in Txs |-> Nothing]
  /\ status = [t \in Txs |-> "none"]
  /\ current = 0

(* A second BEGIN leaves the first transaction as it is: open for ever. *)
Begin(t) ==
  /\ status[t] = "none"
  /\ status' = [status EXCEPT ![t] = "open"]
  /\ current' = t
  /\ UNCHANGED <<working, durable, own>>

(* INSERT adds a row, DELETE takes one, UPDATE replaces one by another. *)
Statement ==
  LET ins == working' \ working
      del == working \ working'
  IN  /\ ins # {} \/ del # {}
      /\ \A r, s \in ins : r = s
      /\ \A r, s \in del : r = s
      /\ IF current = 0
         THEN durable' = (durable \ del) \cup ins /\ UNCHANGED own
         ELSE /\ own' = [own EXCEPT ![current] = [ins |-> @.ins \cup ins,
                                                 del |-> @.del \cup del]]
              /\ UNCHANGED durable
      /\ UNCHANGED <<status, current>>

Finish(how) ==
  /\ current # 0
  /\ status' = [status EXCEPT ![current] = how]
  /\ own' = [own EXCEPT ![current] = Nothing]
  /\ current' = 0

Commit ==
  /\ Finish("committed")
  /\ durable' = (durable \cup (own[current].ins \cap working)) \ own[current].del
  /\ UNCHANGED working

Rollback ==
  /\ Finish("aborted")
  /\ working' = Without(own[current], Nothing)
  /\ UNCHANGED durable

RollbackTo ==
  /\ current # 0
  /\ own'[current].ins \subseteq own[current].ins
  /\ own'[current].del \subseteq own[current].del
  /\ own' = [own EXCEPT ![current] = own'[current]]
  /\ working' = Without(own[current], own'[current])
  /\ UNCHANGED <<durable, status, current>>

Restart ==
  /\ own' = [t \in Txs |-> Nothing]
  /\ status' = [t \in Txs |-> "none"]
  /\ current' = 0

Crash ==
  /\ Restart
  /\ working' = durable
  /\ UNCHANGED durable

(* A regular shutdown keeps what is there, also the changes of a           *)
(* transaction that a second BEGIN left behind without COMMIT or ROLLBACK. *)
Shutdown ==
  /\ Restart
  /\ durable' = working
  /\ UNCHANGED working

StoreNext ==
  \/ \E t \in Txs : Begin(t)
  \/ Statement
  \/ Commit
  \/ Rollback
  \/ RollbackTo
  \/ Crash
  \/ Shutdown

StoreSpec == StoreInit /\ [][StoreNext]_storeVars

=============================================================================
