---------------------------- MODULE MCClientAuth ----------------------------
(* Instances of ClientAuth for TLC.  The dashboard is unbounded in           *)
(* ClientAuth; here edits counts its calls and MaxEdits bounds them, and     *)
(* each instance takes the calls its question is about.                      *)
EXTENDS ClientAuth, TLC

CONSTANTS
  MaxEdits,                  \* bound: dashboard calls
  r1, r2, a1, a2, l1, l2, u1, v1, h1, h2, n1, n2, n3

VARIABLE edits
mcVars == <<vars, edits>>

MCInit == Init /\ edits = 0

Bounded(EditStep) == EditStep /\ edits < MaxEdits /\ edits' = edits + 1
ServerNext == /\ (\E r \in Requests : ClientStep(r)) \/ Tick \/ Restart
              /\ UNCHANGED edits

RaceNext  == ServerNext \/ Bounded(LicenseEdit)
RaceSpec  == MCInit /\ [][RaceNext]_mcVars
StatusEdit(l) == \E st \in AdminStatuses : UpdateLicenseStatus(l, st)
TokenNext == ServerNext \/ Bounded(AppEdit) \/ Bounded(UserEdit)
                        \/ Bounded(VariableEdit)
                        \/ Bounded(\E l \in Licenses : StatusEdit(l))
TokenSpec == MCInit /\ [][TokenNext]_mcVars

Pkt(kind, app, nonce, key, hwid, fault) ==
  [kind |-> kind, app |-> app, nonce |-> nonce, key |-> key,
   hwid |-> hwid, fault |-> fault]

(* Two devices redeem one license: one handshake, then a race.               *)
RacePackets == { Pkt("init",    a1, n1, None, None, "none"),
                 Pkt("license", a1, n2, l1,   h1,   "none"),
                 Pkt("license", a1, n3, l1,   h2,   "none") }
(* Chains of logins over two applications, and the variables they unlock.    *)
TokenPackets == { Pkt("init",     a1, n1, None, None, "none"),
                  Pkt("init",     a2, n2, None, None, "none"),
                  Pkt("init",     a2, n2, None, None, "pubkey"),
                  Pkt("license",  a1, n2, l1,   h1,   "none"),
                  Pkt("license",  a1, n2, l1,   None, "none"),
                  Pkt("license",  a1, n2, l2,   h1,   "none"),
                  Pkt("license",  a1, n2, l2,   h1,   "integrity"),
                  Pkt("login",    a1, n1, u1,   h1,   "none"),
                  Pkt("login",    a1, n1, u1,   None, "password"),
                  Pkt("login",    a1, n1, u1,   None, "skew"),
                  Pkt("variable", a1, n1, v1,   None, "none"),
                  Pkt("variable", a1, n1, v1,   None, "decrypt") }
TwoApps  == [l \in Licenses |-> IF l = l1 THEN a1 ELSE a2]
OneApp  == [l \in Licenses |-> a1]
OneUnit == [l \in Licenses |-> 1]
TwoUnits == [l \in Licenses |-> 2]
OneUser == [u \in Users |-> a1]
Symmetric == Permutations(Requests)
=============================================================================
