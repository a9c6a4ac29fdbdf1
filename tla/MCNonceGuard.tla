---------------------------- MODULE MCNonceGuard ----------------------------
(* Three packets: two with the same nonce (one resent with a later           *)
(* timestamp), one of another client, whose clocks are ahead or right.       *)
EXTENDS NonceGuard

CONSTANTS n1, n2

PacketSet == {[nonce |-> n1, timestamp |-> 2], [nonce |-> n1, timestamp |-> 4],
              [nonce |-> n2, timestamp |-> 3]}
=============================================================================
