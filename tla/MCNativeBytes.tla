--------------------------- MODULE MCNativeBytes ---------------------------
(* Bytes of two values: a U8 has 2 values, a U16 has 4. *)
EXTENDS NativeBytes

Order(a, t, m, v) == [address |-> a, dataType |-> t, mode |-> m, value |-> v]

\* A U8, a U16 and a scale of it at one address, a U16 that shares a byte
\* with them, a U8 that shares one with that: more addresses than entries.
OverlappingOrders ==
  {Order(0, U8, 0, 1), Order(0, U16, 0, 2), Order(0, U16, 1, 3),
   Order(1, U16, 0, 1), Order(2, U8, 0, 1)}
=============================================================================
