--------------------------- MODULE MCVpnControl ---------------------------
(* Small instances of VpnControl.  All its model values are                *)
(* interchangeable, so invariants are checked up to permutations.          *)
EXTENDS VpnControl, TLC

Symmetric ==
  Permutations(Tenants) \cup Permutations(Addresses) \cup Permutations(Keys)
    \cup Permutations(Settings) \cup Permutations(Workers)
===========================================================================
