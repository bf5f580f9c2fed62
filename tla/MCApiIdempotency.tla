--------------------------- MODULE MCApiIdempotency ---------------------------
(* Three calls over two keys, with two request bodies: MCApiIdempotency.cfg.  *)
EXTENDS ApiIdempotency
===============================================================================
