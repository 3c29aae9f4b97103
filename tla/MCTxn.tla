------------------------------- MODULE MCTxn -------------------------------
(* Small instances of TxnCoordinator for TLC: requests that collide on the   *)
(* idempotency key, on the transaction id, on the body and on a blob.        *)
EXTENDS TxnCoordinator

CONSTANTS p1, p2, k1, k2, t1, t2, b1, b2, x1

Req(who, key, txn, body, blobs) ==
  [who |-> who, key |-> key, txn |-> txn, body |-> body, blobs |-> blobs]

ReqA == Req(p1, k1, t1, b1, {x1})
ReqB == Req(p1, k1, t1, b2, {})       \* same key and id, another request
ReqC == Req(p1, k2, t1, b2, {})       \* same transaction id, another key
ReqD == Req(p2, k1, t2, b2, {x1})     \* another principal, same key and blob

MCRequests == {ReqA, ReqB, ReqC, ReqD}
=============================================================================
