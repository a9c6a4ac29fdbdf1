---------------------------- MODULE LicenseRules ----------------------------
(* The pure rules of the license service: HWIDService.ValidateHWID and       *)
(* LicenseEngine.CalculateExpiration.  They read a copy of the license and   *)
(* decide; every write is made by their caller.                              *)
EXTENDS Integers, FiniteSets

CONSTANT None   \* an absent value: no device, no license, no user

Nil == -1       \* a nil *time.Time

(* time.Now().After(lic.ExpiresAt): strictly after, and never when nil.     *)
IsExpired(expires, now) == expires # Nil /\ now > expires

(* A lifetime license, or one without a positive duration, never expires.    *)
CalculateExpiration(isLifetime, duration, now) ==
  IF isLifetime \/ duration <= 0 THEN Nil ELSE now + duration

(* Seeded fault: the allowance counts one device too few.                    *)
ValidateHWID_OffByOne(bound, list, maxHwids, device, lockEnabled) ==
  CASE ~lockEnabled -> "match"
    [] lockEnabled /\ device = None -> "required"
    [] lockEnabled /\ device # None /\ (bound = device \/ device \in list) -> "match"
    [] OTHER -> IF maxHwids >= 1 + Cardinality(list) THEN "bind" ELSE "mismatch"

(* The four answers of ValidateHWID.  "bind" is needsBinding = true; a       *)
(* device with an empty identifier is None, like a license bound to none.    *)
ValidateHWID(bound, list, maxHwids, device, lockEnabled) ==
  CASE ~lockEnabled                        -> "match"
    [] lockEnabled /\ device = None        -> "required"
    [] lockEnabled /\ device # None /\ bound = None -> "bind"
    [] lockEnabled /\ device # None /\ bound # None
         /\ (bound = device \/ device \in list)     -> "match"
    [] OTHER -> IF maxHwids > 1 + Cardinality(list) THEN "bind" ELSE "mismatch"
=============================================================================
