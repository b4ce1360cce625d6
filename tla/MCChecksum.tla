----------------------------- MODULE MCChecksum -----------------------------
(***************************************************************************)
(* Values for the constants of Checksum.                                   *)
(***************************************************************************)
EXTENDS Checksum

\* Type, code, checksum and whatever follows.
AllMessages ==
  {m \in UNION {[1 .. n -> Byte] : n \in 4 .. MaxLen} : m[3] = 0 /\ m[4] = 0}
=============================================================================
