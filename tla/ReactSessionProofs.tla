------------------------- MODULE ReactSessionProofs --------------------------
(* What VolqAuthProvider and its client objects keep, for any number of      *)
(* calls in progress, client objects and browser fingerprints.               *)
EXTENDS ReactSession, TLAPS

Client == [sessionId : Some(Nat), sessionToken : Some(Nat), cachedHwid : Some(Prints)]
Ui     == [isInitialized : BOOLEAN, isAuthenticated : BOOLEAN,
           isLoading : BOOLEAN, hwid : Some(Prints), sessionToken : Some(Nat)]
Call   == [kind : Some(Kinds), client : Nat,
           pc : {"idle", "digest", "handshake", "login", "variable"},
           print : Some(Prints)]

(* A call in progress has a client object of this page; one that waits for a *)
(* hash knows what it hashes.                                                *)
CallOK(q) ==
  /\ q.pc # "idle" => q.client \in 1 .. Current
  /\ q.pc = "digest" => q.print \in Prints

Typed == TypeOK /\ \A c \in Calls : CallOK(calls[c])

(* Before its token arrives, a login of the example is alone, behind the     *)
(* loading flag.                                                             *)
Quiet ==
  env.example =>
    /\ env.autoInit
    /\ \A c \in Calls : ~Idle(c) /\ calls[c].pc # "variable"
                          => ui.isLoading /\ ~ui.isAuthenticated
    /\ \A c, d \in Calls : ~Idle(c) /\ ~Idle(d) /\ c # d
                          => "variable" \in {calls[c].pc, calls[d].pc}
    /\ effectDue => /\ \A c \in Calls : Idle(c)
                    /\ ui.isLoading /\ ~ui.isAuthenticated

SessionInv == Typed /\ GrantsReachTheirClient /\ ProviderFollowsClient /\ Quiet

(* A step of the call c: its new record, that of the client object k, and    *)
(* the provider's state.                                                     *)
Moves(c, nc, k, ncl, nu) ==
  /\ calls' = [calls EXCEPT ![c] = nc]
  /\ clients' = [clients EXCEPT ![k] = ncl]
  /\ ui' = nu

(* What stays of a client object and of the provider on the way to the next  *)
(* request.                                                                  *)
Keeps(cl, ncl, u, nu) ==
  /\ ncl \in Client /\ ncl.sessionId = cl.sessionId
  /\ ncl.sessionToken = cl.sessionToken
  /\ nu \in Ui /\ nu.isAuthenticated = u.isAuthenticated
  /\ nu.isLoading = u.isLoading /\ nu.sessionToken = u.sessionToken

Follows(call, nc) ==
  /\ nc \in Call /\ nc.kind = call.kind /\ nc.client = call.client
  /\ nc.pc \in {"digest", "handshake", "login"}
  /\ nc.pc = "digest" => nc.print \in Prints

LEMMA IdentifiedMoves ==
  ASSUME NEW c \in Calls, NEW call \in Call, NEW cl \in Client, NEW u \in Ui,
         Typed, Identified(c, call, cl, u), cl.cachedHwid \in Prints
  PROVE  /\ sent' \subseteq Prints
         /\ \E nc, ncl, nu : /\ Moves(c, nc, call.client, ncl, nu)
                             /\ Follows(call, nc) /\ Keeps(cl, ncl, u, nu)
<1>1. sent \subseteq Prints
  BY DEF Typed, TypeOK
<1>2. CASE call.kind = "init" /\ UNCHANGED sent
           /\ Await(c, call, "handshake", cl, [u EXCEPT !.hwid = cl.cachedHwid])
  <2> DEFINE nc == [call EXCEPT !.pc = "handshake"]
             nu == [u EXCEPT !.hwid = cl.cachedHwid]
  <2>1. Moves(c, nc, call.client, cl, nu)
    BY <1>2 DEF Await, Moves
  <2>2. Follows(call, nc)
    BY DEF Follows, Call
  <2>3. Keeps(cl, cl, u, nu)
    BY DEF Keeps, Ui, Some
  <2> QED
    BY <1>1, <1>2, <2>1, <2>2, <2>3
<1>3. CASE call.kind # "init" /\ Await(c, call, "login", cl, u)
           /\ sent' = IF env.storage THEN sent \cup {cl.cachedHwid} ELSE sent
  <2> DEFINE nc == [call EXCEPT !.pc = "login"]
  <2>1. Moves(c, nc, call.client, cl, u)
    BY <1>3 DEF Await, Moves
  <2>2. Follows(call, nc)
    BY DEF Follows, Call
  <2>3. Keeps(cl, cl, u, u)
    BY DEF Keeps
  <2> QED
    BY <1>1, <1>3, <2>1, <2>2, <2>3
<1> QED
  BY <1>2, <1>3 DEF Identified

LEMMA HwidMoves ==
  ASSUME NEW c \in Calls, NEW call \in Call, NEW cl \in Client, NEW u \in Ui,
         Typed, GetHWID(c, call, cl, u)
  PROVE  /\ stored' \in Some(Prints) /\ sent' \subseteq Prints /\ overlapped' \in BOOLEAN
         /\ \E nc, ncl, nu : /\ Moves(c, nc, call.client, ncl, nu)
                             /\ Follows(call, nc) /\ Keeps(cl, ncl, u, nu)
<1>1. /\ stored \in Some(Prints) /\ sent \subseteq Prints /\ overlapped \in BOOLEAN
      /\ print \in Prints
  BY DEF Typed, TypeOK
<1>2. CASE /\ Known(cl) # None /\ UNCHANGED <<stored, overlapped>>
           /\ Identified(c, call, [cl EXCEPT !.cachedHwid = Known(cl)], u)
  <2> DEFINE kcl == [cl EXCEPT !.cachedHwid = Known(cl)]
  <2>1. Known(cl) \in Prints
    BY <1>1, <1>2 DEF Known, Client, Some
  <2>2. /\ kcl \in Client /\ kcl.cachedHwid \in Prints
        /\ kcl.sessionId = cl.sessionId /\ kcl.sessionToken = cl.sessionToken
    BY <2>1 DEF Client, Some
  <2>3. Identified(c, call, kcl, u)
    BY <1>2
  <2> HIDE DEF kcl
  <2>4. /\ sent' \subseteq Prints
        /\ \E nc, ncl, nu : /\ Moves(c, nc, call.client, ncl, nu)
                            /\ Follows(call, nc) /\ Keeps(kcl, ncl, u, nu)
    BY <2>2, <2>3, IdentifiedMoves
  <2> QED
    BY <1>1, <1>2, <2>2, <2>4 DEF Keeps
<1>3. CASE Known(cl) = None /\ GetBrowserHWID(c, call, cl, u)
  <2>1. CASE /\ env.subtle /\ UNCHANGED <<stored, sent>>
             /\ Await(c, [call EXCEPT !.print = print], "digest", cl, u)
             /\ overlapped' = (overlapped \/ (env.storage /\ \E d \in Calls :
                                 calls[d].pc = "digest" /\ calls[d].print # print))
    <3> DEFINE qc == [call EXCEPT !.print = print]
               nc == [qc EXCEPT !.pc = "digest"]
    <3>1. qc \in Call /\ qc.kind = call.kind /\ qc.client = call.client /\ qc.print = print
      BY <1>1 DEF Call, Some
    <3>2. calls' = [calls EXCEPT ![c] = nc] /\ clients' = [clients EXCEPT ![qc.client] = cl]
          /\ ui' = u
      BY <2>1 DEF Await
    <3> HIDE DEF qc
    <3>3. Follows(call, nc)
      BY <1>1, <3>1 DEF Follows, Call
    <3>4. Moves(c, nc, call.client, cl, u)
      BY <3>1, <3>2 DEF Moves
    <3>5. Keeps(cl, cl, u, u)
      BY DEF Keeps
    <3>6. overlapped' \in BOOLEAN
      BY <1>1, <2>1
    <3> QED
      BY <1>1, <2>1, <3>3, <3>4, <3>5, <3>6
  <2>2. CASE /\ ~env.subtle /\ Keep(print) /\ UNCHANGED overlapped
             /\ Identified(c, call, [cl EXCEPT !.cachedHwid = print], u)
    <3> DEFINE kcl == [cl EXCEPT !.cachedHwid = print]
    <3>1. /\ kcl \in Client /\ kcl.cachedHwid \in Prints
          /\ kcl.sessionId = cl.sessionId /\ kcl.sessionToken = cl.sessionToken
      BY <1>1 DEF Client, Some
    <3>2. Identified(c, call, kcl, u)
      BY <2>2
    <3> HIDE DEF kcl
    <3>3. /\ sent' \subseteq Prints
          /\ \E nc, ncl, nu : /\ Moves(c, nc, call.client, ncl, nu)
                              /\ Follows(call, nc) /\ Keeps(kcl, ncl, u, nu)
      BY <3>1, <3>2, IdentifiedMoves
    <3>4. stored' \in Some(Prints)
      BY <1>1, <2>2 DEF Keep, Some
    <3> QED
      BY <1>1, <2>2, <3>1, <3>3, <3>4 DEF Keeps
  <2> QED
    BY <1>3, <2>1, <2>2 DEF GetBrowserHWID
<1> QED
  BY <1>2, <1>3 DEF GetHWID
-----------------------------------------------------------------------------
LEMMA TypedFacts ==
  ASSUME Typed
  PROVE  /\ clients \in Seq(Client) /\ Current \in Nat /\ ui \in Ui
         /\ calls \in [Calls -> Call] /\ \A c \in Calls : CallOK(calls[c])
         /\ \A k \in 1 .. Current : clients[k] \in Client
         /\ print \in Prints /\ stored \in Some(Prints) /\ sent \subseteq Prints
         /\ effectDue \in BOOLEAN /\ overlapped \in BOOLEAN
         /\ env \in [autoInit : BOOLEAN, storage : BOOLEAN,
                     subtle : BOOLEAN, example : BOOLEAN]
<1>1. clients \in Seq(Client) /\ ui \in Ui /\ calls \in [Calls -> Call]
  BY DEF Typed, TypeOK, Client, Ui, Call
<1>2. Current \in Nat /\ \A k \in 1 .. Current : clients[k] \in Client
  BY <1>1 DEF Current
<1> QED
  BY <1>1, <1>2 DEF Typed, TypeOK

(* A state with these records is typed.                                      *)
LEMMA TypedIf ==
  ASSUME clients' \in Seq(Client), ui' \in Ui, calls' \in [Calls -> Call],
         \A c \in Calls : CallOK(calls[c])', print' \in Prints,
         stored' \in Some(Prints), sent' \subseteq Prints,
         effectDue' \in BOOLEAN, overlapped' \in BOOLEAN, env' = env, Typed
  PROVE  Typed'
<1>1. env' \in [autoInit : BOOLEAN, storage : BOOLEAN, subtle : BOOLEAN, example : BOOLEAN]
  BY DEF Typed, TypeOK
<1>2. TypeOK'
  BY <1>1 DEF TypeOK, Client, Ui, Call
<1> QED
  BY <1>2 DEF Typed

(* One client object k changes: the others, and their number, do not.        *)
LEMMA ClientsMove ==
  ASSUME Typed, NEW k \in 1 .. Current, NEW ncl \in Client,
         clients' = [clients EXCEPT ![k] = ncl]
  PROVE  /\ clients' \in Seq(Client) /\ Current' = Current
         /\ \A j \in 1 .. Current : clients'[j] = IF j = k THEN ncl ELSE clients[j]
<1>1. clients \in Seq(Client)
  BY TypedFacts
<1> QED
  BY <1>1 DEF Current

(* The call c moves on: a session id may have reached its client object, and *)
(* no token has.                                                             *)
LEMMA MovePreserves ==
  ASSUME Typed, GrantsReachTheirClient, ProviderFollowsClient,
         NEW c \in Calls, NEW nc \in Call, NEW k \in 1 .. Current,
         NEW ncl \in Client, NEW nu \in Ui, Moves(c, nc, k, ncl, nu), CallOK(nc),
         ncl.sessionId \in {clients[k].sessionId, k},
         ncl.sessionToken = clients[k].sessionToken,
         nu.isAuthenticated = ui.isAuthenticated, nu.sessionToken = ui.sessionToken,
         env' = env, print' = print, stored' \in Some(Prints), sent' \subseteq Prints,
         effectDue' \in BOOLEAN, overlapped' \in BOOLEAN
  PROVE  Typed' /\ GrantsReachTheirClient' /\ ProviderFollowsClient'
<1>1. /\ clients' \in Seq(Client) /\ Current' = Current
      /\ \A j \in 1 .. Current : clients'[j] = IF j = k THEN ncl ELSE clients[j]
  BY ClientsMove DEF Moves
<1>2. calls' \in [Calls -> Call] /\ \A d \in Calls : calls'[d] = IF d = c THEN nc ELSE calls[d]
  BY TypedFacts DEF Moves
<1>3. \A d \in Calls : CallOK(calls[d])'
  BY <1>1, <1>2, TypedFacts DEF CallOK
<1>4. Typed'
  BY <1>1, <1>2, <1>3, TypedFacts, TypedIf DEF Moves
<1>5. Current \in Nat /\ ui' = nu
  BY TypedFacts DEF Moves
<1>6. GrantsReachTheirClient'
  BY <1>1, <1>5 DEF GrantsReachTheirClient, Current
<1>7. \A j \in 1 .. Current : clients'[j].sessionToken = clients[j].sessionToken
  BY <1>1
<1>8. ProviderFollowsClient'
  <2>1. (ui.isAuthenticated <=> ui.sessionToken # None)'
    BY <1>5 DEF ProviderFollowsClient
  <2>2. (ui.sessionToken # None => /\ ui.sessionToken \in 1 .. Current
                                   /\ clients[ui.sessionToken].sessionToken # None)'
    BY <1>1, <1>5, <1>7 DEF ProviderFollowsClient
  <2>3. (Current > 0 /\ clients[Current].sessionToken # None => ui.isAuthenticated)'
    BY <1>1, <1>5, <1>7 DEF ProviderFollowsClient
  <2>4. (Current = 1 => ui.sessionToken = clients[1].sessionToken)'
    BY <1>1, <1>5, <1>7 DEF ProviderFollowsClient
  <2> QED
    BY <2>1, <2>2, <2>3, <2>4 DEF ProviderFollowsClient
<1> QED
  BY <1>4, <1>6, <1>8

(* The call c moves on or ends while every other call waits for a variable.  *)
LEMMA QuietMove ==
  ASSUME Typed, Quiet, env' = env, NEW c \in Calls, NEW nc \in Call,
         calls' = [calls EXCEPT ![c] = nc],
         env.example => /\ env.autoInit /\ effectDue' = FALSE
                        /\ \A d \in Calls \ {c} : Idle(d) \/ calls[d].pc = "variable"
                        /\ nc.pc \notin {"idle", "variable"}
                             => ui'.isLoading /\ ~ui'.isAuthenticated
  PROVE  Quiet'
<1>1. \A d \in Calls : calls'[d] = IF d = c THEN nc ELSE calls[d]
  BY TypedFacts
<1> QED
  BY <1>1 DEF Quiet, Idle

(* The common shape of every step towards the next request: call goes on     *)
(* from the client record cl and the provider's state u.                     *)
LEMMA Advances ==
  ASSUME SessionInv, NEW c \in Calls, NEW call \in Call, NEW cl \in Client, NEW u \in Ui,
         \E nc, ncl, nu : /\ Moves(c, nc, call.client, ncl, nu)
                          /\ Follows(call, nc) /\ Keeps(cl, ncl, u, nu),
         call.client \in 1 .. Current,
         cl.sessionId \in {clients[call.client].sessionId, call.client},
         cl.sessionToken = clients[call.client].sessionToken,
         u.isAuthenticated = ui.isAuthenticated, u.sessionToken = ui.sessionToken,
         env' = env, print' = print, stored' \in Some(Prints), sent' \subseteq Prints,
         effectDue' \in BOOLEAN, overlapped' \in BOOLEAN,
         env.example => /\ env.autoInit /\ effectDue' = FALSE
                        /\ \A d \in Calls \ {c} : Idle(d) \/ calls[d].pc = "variable"
                        /\ u.isLoading /\ ~u.isAuthenticated
  PROVE  SessionInv'
<1>1. PICK nc, ncl, nu : /\ Moves(c, nc, call.client, ncl, nu)
                         /\ Follows(call, nc) /\ Keeps(cl, ncl, u, nu)
  OBVIOUS
<1>2. nc \in Call /\ CallOK(nc) /\ ncl \in Client /\ nu \in Ui
  BY <1>1 DEF Follows, Keeps, CallOK
<1>3. Typed' /\ GrantsReachTheirClient' /\ ProviderFollowsClient'
  <2>1. /\ ncl.sessionId \in {clients[call.client].sessionId, call.client}
        /\ ncl.sessionToken = clients[call.client].sessionToken
        /\ nu.isAuthenticated = ui.isAuthenticated /\ nu.sessionToken = ui.sessionToken
    BY <1>1 DEF Keeps
  <2> QED
    BY <1>1, <1>2, <2>1, MovePreserves DEF SessionInv
<1>4. Quiet'
  <2>1. calls' = [calls EXCEPT ![c] = nc] /\ ui' = nu
    BY <1>1 DEF Moves
  <2>2. env.example => ui'.isLoading /\ ~ui'.isAuthenticated
    BY <1>1, <2>1 DEF Keeps
  <2> QED
    BY <1>2, <2>1, <2>2, QuietMove DEF SessionInv
<1> QED
  BY <1>3, <1>4 DEF SessionInv

LEMMA NoCallOK == NoCall \in Call /\ CallOK(NoCall) /\ NoCall.pc = "idle"
BY DEF NoCall, Call, CallOK, Some

(* A call that waits for the next answer, and what the others do meanwhile.  *)
LEMMA Waiting ==
  ASSUME SessionInv, NEW c \in Calls, calls[c].pc \in {"digest", "handshake", "login"}
  PROVE  /\ calls[c] \in Call /\ calls[c].client \in 1 .. Current
         /\ clients[calls[c].client] \in Client
         /\ calls[c].pc = "digest" => calls[c].print \in Prints
         /\ env.example => /\ env.autoInit /\ effectDue = FALSE
                           /\ \A d \in Calls \ {c} : Idle(d) \/ calls[d].pc = "variable"
                           /\ ui.isLoading /\ ~ui.isAuthenticated
<1>1. Typed /\ Quiet
  BY DEF SessionInv
<1>2. /\ calls[c] \in Call /\ calls[c].client \in 1 .. Current
      /\ clients[calls[c].client] \in Client
      /\ calls[c].pc = "digest" => calls[c].print \in Prints
  BY <1>1, TypedFacts DEF CallOK
<1>3. ~Idle(c) /\ calls[c].pc # "variable"
  BY DEF Idle
<1>4. env.example => \A d \in Calls \ {c} : Idle(d) \/ calls[d].pc = "variable"
  BY <1>1, <1>3 DEF Quiet
<1>5. env.example => /\ env.autoInit /\ effectDue = FALSE
                     /\ ui.isLoading /\ ~ui.isAuthenticated
  BY <1>1, <1>3, TypedFacts DEF Quiet
<1> QED
  BY <1>2, <1>4, <1>5

(* A call ends without a token, its client object taking the record ncl.     *)
LEMMA Ends ==
  ASSUME SessionInv, NEW c \in Calls, calls[c].pc \in {"digest", "handshake", "login"},
         NEW u \in Ui, Return(c, u), NEW ncl \in Client,
         clients' = [clients EXCEPT ![calls[c].client] = ncl],
         ncl.sessionId \in {clients[calls[c].client].sessionId, calls[c].client},
         ncl.sessionToken = clients[calls[c].client].sessionToken,
         u.isAuthenticated = ui.isAuthenticated, u.sessionToken = ui.sessionToken,
         UNCHANGED <<env, print, stored, effectDue, sent, overlapped>>
  PROVE  SessionInv'
<1> DEFINE nu == [u EXCEPT !.isLoading = FALSE]
<1>1. /\ nu \in Ui /\ nu.isAuthenticated = ui.isAuthenticated
      /\ nu.sessionToken = ui.sessionToken
  BY DEF Ui
<1>2. Moves(c, NoCall, calls[c].client, ncl, nu)
  BY DEF Moves, Return
<1> HIDE DEF nu
<1>3. Typed' /\ GrantsReachTheirClient' /\ ProviderFollowsClient'
  <2>1. /\ stored' \in Some(Prints) /\ sent' \subseteq Prints
        /\ effectDue' \in BOOLEAN /\ overlapped' \in BOOLEAN
    BY TypedFacts DEF SessionInv
  <2> QED
    BY <1>1, <1>2, <2>1, NoCallOK, Waiting, MovePreserves DEF SessionInv
<1>4. Quiet'
  BY <1>2, NoCallOK, Waiting, QuietMove DEF SessionInv, Moves
<1> QED
  BY <1>3, <1>4 DEF SessionInv

LEMMA SameClients ==
  ASSUME Typed, UNCHANGED clients, NEW k \in 1 .. Current
  PROVE  clients' = [clients EXCEPT ![k] = clients[k]] /\ clients[k] \in Client
BY TypedFacts DEF Current
-----------------------------------------------------------------------------
(* What the provider's functions do before their first await.                *)
LEMMA BeginStep ==
  ASSUME SessionInv, NEW c \in Calls, NEW kind \in Kinds, Begin(c, kind),
         effectDue' \in BOOLEAN,
         env.example => /\ env.autoInit /\ effectDue' = FALSE /\ ~ui.isAuthenticated
                        /\ \A d \in Calls \ {c} : Idle(d) \/ calls[d].pc = "variable"
  PROVE  SessionInv'
<1> DEFINE call == [kind |-> kind, pc |-> "idle", client |-> Current, print |-> None]
           u == [ui EXCEPT !.isLoading = TRUE]
           cl == clients[Current]
<1>1. Current \in Nat /\ Current \in 1 .. Current /\ cl \in Client
  <2>1. clients \in Seq(Client) /\ clients # <<>>
    BY TypedFacts DEF SessionInv, Begin
  <2> QED
    BY <2>1 DEF Current
<1>2. /\ call \in Call /\ call.client = Current /\ call.kind = kind
  BY <1>1 DEF Call, Some, Kinds
<1>3. /\ u \in Ui /\ u.isLoading /\ u.isAuthenticated = ui.isAuthenticated
      /\ u.sessionToken = ui.sessionToken
  BY TypedFacts DEF SessionInv, Ui
<1>4. /\ env' = env /\ print' = print
      /\ \/ kind = "init" /\ GetHWID(c, call, clients[Current], u)
         \/ kind # "init" /\ Authenticate(c, call, u)
  BY DEF Begin
<1> HIDE DEF call, u
<1>5. CASE GetHWID(c, call, cl, u)
  <2>1. /\ stored' \in Some(Prints) /\ sent' \subseteq Prints /\ overlapped' \in BOOLEAN
        /\ \E nc, ncl, nu : /\ Moves(c, nc, call.client, ncl, nu)
                            /\ Follows(call, nc) /\ Keeps(cl, ncl, u, nu)
    BY <1>1, <1>2, <1>3, <1>5, HwidMoves DEF SessionInv
  <2> QED
    BY <1>1, <1>2, <1>3, <1>4, <2>1, Advances
<1>6. CASE /\ Await(c, call, "handshake", cl, u)
           /\ UNCHANGED <<stored, sent, overlapped>>
  <2> DEFINE nc == [call EXCEPT !.pc = "handshake"]
  <2>1. Moves(c, nc, call.client, cl, u) /\ Follows(call, nc) /\ Keeps(cl, cl, u, u)
    BY <1>1, <1>2, <1>3, <1>6 DEF Await, Moves, Follows, Keeps, Call
  <2>2. /\ stored' \in Some(Prints) /\ sent' \subseteq Prints /\ overlapped' \in BOOLEAN
    BY <1>6, TypedFacts DEF SessionInv
  <2> HIDE DEF nc
  <2>3. \E mc, ncl, nu : /\ Moves(c, mc, call.client, ncl, nu)
                         /\ Follows(call, mc) /\ Keeps(cl, ncl, u, nu)
    BY <2>1
  <2> QED
    BY <1>1, <1>2, <1>3, <1>4, <2>2, <2>3, Advances
<1> QED
  BY <1>1, <1>2, <1>4, <1>5, <1>6 DEF Authenticate

LEMMA DigestStep ==
  ASSUME SessionInv, NEW c \in Calls, DigestSettles(c)
  PROVE  SessionInv'
<1> DEFINE call == [calls[c] EXCEPT !.print = None]
           cl == [clients[call.client] EXCEPT !.cachedHwid = calls[c].print]
<1>1. calls[c].pc = "digest" /\ UNCHANGED <<env, print, effectDue, overlapped>>
  <2>1. calls[c] \in Call
    BY TypedFacts DEF SessionInv
  <2>2. call.pc = calls[c].pc
    BY <2>1 DEF Call
  <2>3. call.pc = "digest" /\ UNCHANGED <<env, print, effectDue, overlapped>>
    BY DEF DigestSettles
  <2> QED
    BY <2>2, <2>3
<1>2. /\ calls[c] \in Call /\ calls[c].client \in 1 .. Current
      /\ clients[calls[c].client] \in Client /\ calls[c].print \in Prints
      /\ env.example => /\ env.autoInit /\ effectDue = FALSE
                        /\ \A d \in Calls \ {c} : Idle(d) \/ calls[d].pc = "variable"
                        /\ ui.isLoading /\ ~ui.isAuthenticated
  BY <1>1, Waiting
<1>3. /\ call \in Call /\ call.client = calls[c].client /\ call.kind = calls[c].kind
  BY <1>2 DEF Call, Some
<1>4. /\ cl \in Client /\ cl.cachedHwid \in Prints
      /\ cl.sessionId = clients[call.client].sessionId
      /\ cl.sessionToken = clients[call.client].sessionToken
  BY <1>2, <1>3 DEF Client, Some
<1>5. /\ ui \in Ui /\ Typed /\ effectDue' \in BOOLEAN /\ overlapped' \in BOOLEAN
      /\ stored \in Some(Prints)
  BY <1>1, TypedFacts DEF SessionInv
<1>6. \/ Keep(calls[c].print) /\ Identified(c, call, cl, ui)
      \/ Return(c, ui) /\ UNCHANGED <<stored, clients, sent>>
  BY DEF DigestSettles
<1> HIDE DEF call, cl
<1>7. CASE Keep(calls[c].print) /\ Identified(c, call, cl, ui)
  <2>1. /\ sent' \subseteq Prints
        /\ \E nc, ncl, nu : /\ Moves(c, nc, call.client, ncl, nu)
                            /\ Follows(call, nc) /\ Keeps(cl, ncl, ui, nu)
    BY <1>3, <1>4, <1>5, <1>7, IdentifiedMoves
  <2>2. stored' \in Some(Prints)
    BY <1>2, <1>5, <1>7 DEF Keep, Some
  <2> QED
    BY <1>1, <1>2, <1>3, <1>4, <1>5, <2>1, <2>2, Advances
<1>8. CASE Return(c, ui) /\ UNCHANGED <<stored, clients, sent>>
  <2>1. clients' = [clients EXCEPT ![calls[c].client] = clients[calls[c].client]]
    BY <1>2, <1>5, <1>8, SameClients
  <2> QED
    BY <1>1, <1>2, <1>5, <1>8, <2>1, Ends
<1> QED
  BY <1>6, <1>7, <1>8

LEMMA HandshakeStep ==
  ASSUME SessionInv, NEW c \in Calls, HandshakeSettles(c)
  PROVE  SessionInv'
<1> DEFINE call == calls[c]
           cl == [clients[call.client] EXCEPT !.sessionId = call.client]
           yes == [ui EXCEPT !.isInitialized = TRUE]
           no == [ui EXCEPT !.isInitialized = @ /\ call.kind # "init"]
<1>1. call.pc = "handshake" /\ UNCHANGED <<env, print, effectDue>>
  BY DEF HandshakeSettles
<1>2. /\ call \in Call /\ call.client \in 1 .. Current
      /\ clients[call.client] \in Client
      /\ env.example => /\ env.autoInit /\ effectDue = FALSE
                        /\ \A d \in Calls \ {c} : Idle(d) \/ calls[d].pc = "variable"
                        /\ ui.isLoading /\ ~ui.isAuthenticated
  BY <1>1, Waiting
<1>3. /\ ui \in Ui /\ Typed /\ effectDue' \in BOOLEAN /\ Current \in Nat
  BY <1>1, TypedFacts DEF SessionInv
<1>4. /\ cl \in Client /\ cl.sessionId = call.client
      /\ cl.sessionToken = clients[call.client].sessionToken
  BY <1>2, <1>3 DEF Client, Some
<1>5. /\ yes \in Ui /\ yes.isAuthenticated = ui.isAuthenticated
      /\ yes.sessionToken = ui.sessionToken
      /\ no \in Ui /\ no.isAuthenticated = ui.isAuthenticated
      /\ no.sessionToken = ui.sessionToken
  BY <1>3 DEF Ui
<1>6. \/ /\ call.kind = "init" /\ clients' = [clients EXCEPT ![call.client] = cl]
         /\ Return(c, yes) /\ UNCHANGED <<stored, sent, overlapped>>
      \/ call.kind # "init" /\ GetHWID(c, call, cl, ui)
      \/ Return(c, no) /\ UNCHANGED <<stored, clients, sent, overlapped>>
  BY DEF HandshakeSettles
<1> HIDE DEF cl, yes, no
<1>7. CASE /\ clients' = [clients EXCEPT ![call.client] = cl]
           /\ Return(c, yes) /\ UNCHANGED <<stored, sent, overlapped>>
  BY <1>1, <1>2, <1>4, <1>5, <1>7, Ends
<1>8. CASE GetHWID(c, call, cl, ui)
  <2>1. /\ stored' \in Some(Prints) /\ sent' \subseteq Prints /\ overlapped' \in BOOLEAN
        /\ \E nc, ncl, nu : /\ Moves(c, nc, call.client, ncl, nu)
                            /\ Follows(call, nc) /\ Keeps(cl, ncl, ui, nu)
    BY <1>2, <1>3, <1>4, <1>8, HwidMoves
  <2> QED
    BY <1>1, <1>2, <1>3, <1>4, <2>1, Advances
<1>9. CASE Return(c, no) /\ UNCHANGED <<stored, clients, sent, overlapped>>
  <2> DEFINE same == clients[call.client]
  <2>1. clients' = [clients EXCEPT ![call.client] = same]
    BY <1>2, <1>3, <1>9, SameClients
  <2>2. /\ same \in Client /\ same.sessionToken = clients[call.client].sessionToken
        /\ same.sessionId \in {clients[call.client].sessionId, call.client}
    BY <1>2
  <2> HIDE DEF same
  <2> QED
    BY <1>1, <1>5, <1>9, <2>1, <2>2, Ends
<1> QED
  BY <1>6, <1>7, <1>8, <1>9

(* The token k reaches the client object k, and the provider shows it.       *)
LEMMA TokenStep ==
  ASSUME SessionInv, NEW c \in Calls, calls[c].pc = "login",
         NEW nc \in Call, CallOK(nc), nc.pc \in {"idle", "variable"},
         NEW nu \in Ui, nu.isAuthenticated, nu.sessionToken = calls[c].client,
         Moves(c, nc, calls[c].client, Granted(calls[c]), nu),
         UNCHANGED <<env, print, stored, effectDue, sent, overlapped>>
  PROVE  SessionInv'
<1> DEFINE k == calls[c].client
           ncl == Granted(calls[c])
<1>1. /\ k \in 1 .. Current /\ clients[k] \in Client
      /\ env.example => /\ env.autoInit /\ effectDue = FALSE
                        /\ \A d \in Calls \ {c} : Idle(d) \/ calls[d].pc = "variable"
  BY Waiting
<1>2. Typed /\ Current \in Nat /\ k \in Nat /\ k # None
  BY <1>1, NoneIsNoPrint, TypedFacts DEF SessionInv
<1>3. ncl \in Client /\ ncl.sessionId = clients[k].sessionId /\ ncl.sessionToken = k
  BY <1>1, <1>2 DEF Granted, Client, Some
<1> HIDE DEF ncl, k
<1>4. /\ calls' = [calls EXCEPT ![c] = nc] /\ clients' = [clients EXCEPT ![k] = ncl]
      /\ ui' = nu /\ nu.sessionToken = k
  BY DEF Moves, k, ncl
<1>5. /\ clients' \in Seq(Client) /\ Current' = Current
      /\ \A j \in 1 .. Current : clients'[j] = IF j = k THEN ncl ELSE clients[j]
  BY <1>1, <1>2, <1>3, <1>4, ClientsMove
<1>6. calls' \in [Calls -> Call] /\ \A d \in Calls : calls'[d] = IF d = c THEN nc ELSE calls[d]
  BY <1>2, <1>4, TypedFacts
<1>7. \A d \in Calls : CallOK(calls[d])'
  BY <1>2, <1>5, <1>6, TypedFacts DEF CallOK
<1>8. Typed'
  BY <1>2, <1>4, <1>5, <1>6, <1>7, TypedFacts, TypedIf
<1>9. GrantsReachTheirClient'
  BY <1>2, <1>3, <1>5 DEF GrantsReachTheirClient, Current, SessionInv
<1>10. ProviderFollowsClient'
  BY <1>1, <1>2, <1>3, <1>4, <1>5 DEF ProviderFollowsClient
<1>11. Quiet'
  BY <1>1, <1>2, <1>4, QuietMove DEF SessionInv
<1> QED
  BY <1>8, <1>9, <1>10, <1>11 DEF SessionInv

LEMMA AuthenticateStep ==
  ASSUME SessionInv, NEW c \in Calls, AuthenticateSettles(c)
  PROVE  SessionInv'
<1> DEFINE call == calls[c]
           u == SignedIn(call.client)
<1>1. /\ call.pc = "login"
      /\ UNCHANGED <<env, print, stored, effectDue, sent, overlapped>>
  BY DEF AuthenticateSettles
<1>2. call \in Call /\ call.client \in 1 .. Current /\ clients[call.client] \in Client
  BY <1>1, Waiting
<1>3. /\ ui \in Ui /\ Typed /\ Current \in Nat
  BY TypedFacts DEF SessionInv
<1>4. /\ u \in Ui /\ u.isAuthenticated /\ u.sessionToken = call.client
  <2>1. call.client \in Some(Nat)
    BY <1>2, <1>3 DEF Some
  <2>2. u \in Ui
    BY <1>3, <2>1 DEF SignedIn, Ui
  <2>3. u.isAuthenticated /\ u.sessionToken = call.client
    BY <1>3 DEF SignedIn, Ui
  <2> QED
    BY <2>2, <2>3
<1>5. \/ Await(c, call, "variable", Granted(call), u)
      \/ Return(c, u) /\ clients' = [clients EXCEPT ![call.client] = Granted(call)]
      \/ Return(c, ui) /\ UNCHANGED clients
  BY DEF AuthenticateSettles
<1> HIDE DEF u
<1>6. CASE Await(c, call, "variable", Granted(call), u)
  <2> DEFINE nc == [call EXCEPT !.pc = "variable"]
  <2>1. nc \in Call /\ nc.pc = "variable" /\ nc.client = call.client
    BY <1>2 DEF Call
  <2>2. Moves(c, nc, call.client, Granted(call), u)
    BY <1>6 DEF Await, Moves
  <2> HIDE DEF nc
  <2>3. CallOK(nc)
    BY <1>2, <2>1 DEF CallOK
  <2> QED
    BY <1>1, <1>4, <2>1, <2>2, <2>3, TokenStep
<1>7. CASE Return(c, u) /\ clients' = [clients EXCEPT ![call.client] = Granted(call)]
  <2> DEFINE nu == [u EXCEPT !.isLoading = FALSE]
  <2>1. nu \in Ui /\ nu.isAuthenticated /\ nu.sessionToken = call.client
    BY <1>4 DEF Ui
  <2>2. Moves(c, NoCall, call.client, Granted(call), nu)
    BY <1>7 DEF Return, Moves
  <2> HIDE DEF nu
  <2> QED
    BY <1>1, <2>1, <2>2, NoCallOK, TokenStep
<1>8. CASE Return(c, ui) /\ UNCHANGED clients
  <2>1. clients' = [clients EXCEPT ![call.client] = clients[call.client]]
    BY <1>2, <1>3, <1>8, SameClients
  <2> QED
    BY <1>1, <1>2, <1>3, <1>8, <2>1, Ends
<1> QED
  BY <1>5, <1>6, <1>7, <1>8

LEMMA GetVariableStep ==
  ASSUME SessionInv, NEW c \in Calls, GetVariable(c), ~env.example
  PROVE  SessionInv'
<1> DEFINE nc == [kind |-> "variable", pc |-> "variable", client |-> Current,
                  print |-> None]
<1>1. /\ Typed /\ clients \in Seq(Client) /\ Current \in Nat /\ ui \in Ui
      /\ stored \in Some(Prints) /\ sent \subseteq Prints
      /\ effectDue \in BOOLEAN /\ overlapped \in BOOLEAN
  BY TypedFacts DEF SessionInv
<1>2. Current \in 1 .. Current /\ clients[Current] \in Client
  BY <1>1 DEF GetVariable, Ready, Current
<1>3. nc \in Call /\ CallOK(nc)
  BY <1>1, <1>2 DEF Call, CallOK, Some, Kinds
<1>4. /\ calls' = [calls EXCEPT ![c] = nc]
      /\ UNCHANGED <<env, print, stored, clients, effectDue, ui, sent, overlapped>>
  BY DEF GetVariable
<1> HIDE DEF nc
<1>5. Moves(c, nc, Current, clients[Current], ui)
  BY <1>1, <1>2, <1>4, SameClients DEF Moves
<1>6. Typed' /\ GrantsReachTheirClient' /\ ProviderFollowsClient'
  BY <1>1, <1>2, <1>3, <1>4, <1>5, MovePreserves DEF SessionInv
<1>7. Quiet'
  BY <1>4 DEF Quiet
<1> QED
  BY <1>6, <1>7 DEF SessionInv

LEMMA VariableStep ==
  ASSUME SessionInv, NEW c \in Calls, VariableSettles(c)
  PROVE  SessionInv'
<1> DEFINE k == calls[c].client
<1>1. /\ Typed /\ clients \in Seq(Client) /\ Current \in Nat /\ ui \in Ui
      /\ stored \in Some(Prints) /\ sent \subseteq Prints
      /\ effectDue \in BOOLEAN /\ overlapped \in BOOLEAN /\ calls \in [Calls -> Call]
  BY TypedFacts DEF SessionInv
<1>2. k \in 1 .. Current /\ clients[k] \in Client
  BY <1>1, TypedFacts DEF VariableSettles, CallOK
<1>3. /\ calls[c].pc = "variable" /\ calls' = [calls EXCEPT ![c] = NoCall]
      /\ UNCHANGED <<env, print, stored, clients, effectDue, ui, sent, overlapped>>
  BY DEF VariableSettles
<1>4. Moves(c, NoCall, k, clients[k], ui)
  BY <1>1, <1>2, <1>3, SameClients DEF Moves
<1>5. Typed' /\ GrantsReachTheirClient' /\ ProviderFollowsClient'
  BY <1>1, <1>2, <1>3, <1>4, NoCallOK, MovePreserves DEF SessionInv
<1>6. \A d \in Calls : calls'[d] = IF d = c THEN NoCall ELSE calls[d]
  BY <1>1, <1>3
<1>7. Quiet'
  BY <1>3, <1>6, NoCallOK DEF Quiet, Idle, SessionInv
<1> QED
  BY <1>5, <1>7 DEF SessionInv

LEMMA LogoutStep ==
  ASSUME SessionInv, Logout
  PROVE  SessionInv'
<1> DEFINE ncl == [clients[Current] EXCEPT !.sessionToken = None]
           nu  == [ui EXCEPT !.isAuthenticated = FALSE, !.sessionToken = None]
<1>1. /\ Typed /\ clients \in Seq(Client) /\ Current \in Nat /\ ui \in Ui
      /\ calls \in [Calls -> Call] /\ \A c \in Calls : CallOK(calls[c])
  BY TypedFacts DEF SessionInv
<1>2. Current \in 1 .. Current /\ clients[Current] \in Client
  BY <1>1 DEF Logout, Ready, Current
<1>3. /\ ncl \in Client /\ ncl.sessionId = clients[Current].sessionId
      /\ ncl.sessionToken = None
  BY <1>2 DEF Client, Some
<1>4. nu \in Ui /\ nu.sessionToken = None
  BY <1>1 DEF Ui, Some
<1>5. ~nu.isAuthenticated
  BY <1>1 DEF Ui
<1>6. /\ ~effectDue /\ clients' = [clients EXCEPT ![Current] = ncl] /\ ui' = nu
      /\ UNCHANGED <<env, print, stored, effectDue, calls, sent, overlapped>>
  <2>1. clients' = [clients EXCEPT ![Current] =
                      [clients[Current] EXCEPT !.sessionToken = None]]
    BY <1>1, <1>2 DEF Logout
  <2> QED
    BY <2>1 DEF Logout, Ready
<1> HIDE DEF ncl, nu
<1>7. /\ clients' \in Seq(Client) /\ Current' = Current
      /\ \A j \in 1 .. Current : clients'[j] = IF j = Current THEN ncl ELSE clients[j]
  BY <1>1, <1>2, <1>3, <1>6, ClientsMove
<1>8. \A c \in Calls : CallOK(calls[c])'
  BY <1>1, <1>6, <1>7 DEF CallOK
<1>9. Typed'
  BY <1>1, <1>4, <1>6, <1>7, <1>8, TypedFacts, TypedIf
<1>10. GrantsReachTheirClient'
  BY <1>1, <1>3, <1>7 DEF GrantsReachTheirClient, Current, SessionInv
<1>11. ProviderFollowsClient'
  BY <1>2, <1>3, <1>4, <1>5, <1>6, <1>7 DEF ProviderFollowsClient
<1>12. Quiet'
  <2>1. ~effectDue'
    BY <1>6
  <2>2. ui'.isLoading = ui.isLoading /\ ~ui'.isAuthenticated
    BY <1>1, <1>5, <1>6 DEF nu, Ui
  <2> QED
    BY <1>6, <2>1, <2>2 DEF Quiet, Idle, SessionInv
<1> QED
  BY <1>9, <1>10, <1>11, <1>12 DEF SessionInv

LEMMA RenderStep ==
  ASSUME SessionInv, Render
  PROVE  SessionInv'
<1>1. /\ Typed /\ clients \in Seq(Client) /\ Current \in Nat /\ ui \in Ui
      /\ calls \in [Calls -> Call] /\ \A c \in Calls : CallOK(calls[c])
      /\ env.autoInit \in BOOLEAN
  BY TypedFacts DEF SessionInv
<1>2. NewClient \in Client /\ NewClient.sessionId = None /\ NewClient.sessionToken = None
  BY DEF NewClient, Client, Some
<1>3. NewUi(env.autoInit) \in Ui
  BY <1>1 DEF NewUi, Ui, Some
<1>4. /\ ~effectDue /\ clients' = Append(clients, NewClient) /\ effectDue' = env.autoInit
      /\ env.example => clients = <<>>
      /\ ui' = IF clients = <<>> THEN NewUi(env.autoInit) ELSE ui
      /\ UNCHANGED <<env, print, stored, calls, sent, overlapped>>
  BY DEF Render
<1>5. /\ clients' \in Seq(Client) /\ Current' = Current + 1
      /\ \A j \in 1 .. Current : clients'[j] = clients[j]
      /\ clients'[Current + 1] = NewClient
  BY <1>1, <1>2, <1>4 DEF Current
<1>6. \A c \in Calls : CallOK(calls[c])'
  BY <1>1, <1>4, <1>5 DEF CallOK
<1>7. Typed'
  BY <1>1, <1>3, <1>4, <1>5, <1>6, TypedFacts, TypedIf
<1>8. GrantsReachTheirClient'
  BY <1>1, <1>2, <1>5 DEF GrantsReachTheirClient, Current, SessionInv
<1>9. ProviderFollowsClient'
  <2>1. CASE clients = <<>>
    <3>1. Current = 0
      BY <2>1 DEF Current
    <3>2. ui'.sessionToken = None /\ ~ui'.isAuthenticated
      BY <1>4, <2>1 DEF NewUi
    <3> QED
      BY <1>2, <1>5, <3>1, <3>2 DEF ProviderFollowsClient
  <2>2. CASE clients # <<>>
    <3>1. Current > 0
      BY <1>1, <2>2 DEF Current
    <3>2. ui' = ui
      BY <1>4, <2>2
    <3> QED
      BY <1>1, <1>2, <1>5, <3>1, <3>2 DEF ProviderFollowsClient, SessionInv
  <2> QED
    BY <2>1, <2>2
<1>10. Quiet'
  <2> SUFFICES ASSUME env.example PROVE Quiet'
    BY <1>4 DEF Quiet
  <2>1. clients = <<>> /\ Current = 0 /\ env.autoInit
    BY <1>4 DEF Current, Quiet, SessionInv
  <2>2. \A c \in Calls : Idle(c)
    BY <1>1, <2>1 DEF CallOK, Idle
  <2>3. ui'.isLoading /\ ~ui'.isAuthenticated
    BY <1>4, <2>1 DEF NewUi
  <2> QED
    BY <1>4, <2>1, <2>2, <2>3 DEF Quiet, Idle
<1> QED
  BY <1>7, <1>8, <1>9, <1>10 DEF SessionInv

LEMMA ReloadStep ==
  ASSUME SessionInv, Reload
  PROVE  SessionInv'
<1>1. /\ Typed /\ stored \in Some(Prints) /\ sent \subseteq Prints
      /\ print \in Prints /\ overlapped \in BOOLEAN
  BY TypedFacts DEF SessionInv
<1>2. /\ clients' = <<>> /\ effectDue' = FALSE /\ ui' = NewUi(FALSE)
      /\ calls' = [c \in Calls |-> NoCall]
      /\ UNCHANGED <<env, print, stored, sent, overlapped>>
  BY DEF Reload
<1>3. NewUi(FALSE) \in Ui /\ clients' \in Seq(Client) /\ Current' = 0
  BY <1>2 DEF NewUi, Ui, Some, Current
<1>4. calls' \in [Calls -> Call] /\ \A c \in Calls : CallOK(calls[c])' /\ Idle(c)'
  BY <1>2, NoCallOK DEF CallOK, Idle
<1>5. Typed'
  BY <1>1, <1>2, <1>3, <1>4, TypedIf
<1>6. GrantsReachTheirClient' /\ ProviderFollowsClient'
  BY <1>2, <1>3 DEF GrantsReachTheirClient, ProviderFollowsClient, NewUi, Current
<1>7. Quiet'
  BY <1>2, <1>4 DEF Quiet, SessionInv
<1> QED
  BY <1>5, <1>6, <1>7 DEF SessionInv

(* What no step of the session but the browser's changes.                    *)
LEMMA SameSession ==
  ASSUME SessionInv, print' \in Prints,
         UNCHANGED <<env, stored, clients, effectDue, ui, calls, sent, overlapped>>
  PROVE  SessionInv'
<1>1. Typed'
  BY TypedFacts, TypedIf DEF SessionInv, CallOK, Current
<1>2. GrantsReachTheirClient' /\ ProviderFollowsClient' /\ Quiet'
  BY DEF SessionInv, GrantsReachTheirClient, ProviderFollowsClient, Quiet, Idle, Current
<1> QED
  BY <1>1, <1>2 DEF SessionInv

LEMMA InitSession == Init => SessionInv
<1> SUFFICES ASSUME Init PROVE SessionInv
  OBVIOUS
<1>1. /\ clients = <<>> /\ ui = NewUi(FALSE) /\ calls = [c \in Calls |-> NoCall]
      /\ sent = {} /\ overlapped = FALSE /\ effectDue = FALSE
      /\ print \in Prints /\ stored \in Some(Prints)
      /\ env.example => env.autoInit
      /\ env \in [autoInit : BOOLEAN, storage : BOOLEAN,
                  subtle : BOOLEAN, example : BOOLEAN]
  BY DEF Init
<1>2. Current = 0 /\ ui \in Ui /\ clients \in Seq(Client)
  BY <1>1 DEF Current, NewUi, Ui, Some
<1>3. calls \in [Calls -> Call] /\ \A c \in Calls : CallOK(calls[c]) /\ Idle(c)
  BY <1>1, NoCallOK DEF Idle
<1>4. Typed
  <2>1. overlapped \in BOOLEAN /\ effectDue \in BOOLEAN /\ sent \subseteq Prints
    BY <1>1
  <2>2. TypeOK
    BY <1>1, <1>2, <1>3, <2>1 DEF TypeOK, Client, Ui, Call
  <2> QED
    BY <1>3, <2>2 DEF Typed
<1>5. GrantsReachTheirClient /\ ProviderFollowsClient
  BY <1>1, <1>2 DEF GrantsReachTheirClient, ProviderFollowsClient, NewUi, Current
<1>6. Quiet
  <2>1. ~effectDue /\ (env.example => env.autoInit) /\ \A c \in Calls : Idle(c)
    BY <1>1, <1>3
  <2> QED
    BY <2>1 DEF Quiet
<1> QED
  BY <1>4, <1>5, <1>6 DEF SessionInv

LEMMA NextSession == SessionInv /\ [Next]_vars => SessionInv'
<1> SUFFICES ASSUME SessionInv, [Next]_vars PROVE SessionInv'
  OBVIOUS
<1>1. Typed /\ Quiet /\ print \in Prints /\ effectDue \in BOOLEAN
  BY TypedFacts DEF SessionInv
<1>2. CASE Render
  BY <1>2, RenderStep
<1>3. CASE Reload
  BY <1>3, ReloadStep
<1>4. CASE PrintChanges
  BY <1>4, SameSession DEF PrintChanges
<1>5. ASSUME NEW c \in Calls, HandleUnlock(c), env.example
      PROVE  SessionInv'
  <2>1. /\ Begin(c, "unlock") /\ effectDue' = FALSE /\ ~ui.isAuthenticated
        /\ ~ui.isLoading
    BY <1>1, <1>5 DEF HandleUnlock, Ready
  <2>2. env.autoInit /\ \A d \in Calls : Idle(d) \/ calls[d].pc = "variable"
    BY <1>1, <1>5, <2>1 DEF Quiet
  <2> QED
    BY <2>1, <2>2, BeginStep DEF Kinds
<1>6. CASE Logout
  BY <1>6, LogoutStep
<1>7. ASSUME NEW c \in Calls, ~env.example,
             InitAgain(c) \/ LoginWithLicense(c) \/ LoginWithCredentials(c)
      PROVE  SessionInv'
  BY <1>1, <1>7, BeginStep
     DEF InitAgain, LoginWithLicense, LoginWithCredentials, Kinds
<1>8. ASSUME NEW c \in Calls, ~env.example, GetVariable(c)
      PROVE  SessionInv'
  BY <1>8, GetVariableStep
<1>9. ASSUME NEW c \in Calls, InitEffect(c)
      PROVE  SessionInv'
  <2>1. Begin(c, "init") /\ effectDue /\ effectDue' = FALSE
    BY <1>9 DEF InitEffect
  <2>2. env.example => /\ env.autoInit /\ ~ui.isAuthenticated
                       /\ \A d \in Calls : Idle(d)
    BY <1>1, <2>1 DEF Quiet
  <2> QED
    BY <2>1, <2>2, BeginStep DEF Kinds
<1>10. ASSUME NEW c \in Calls, Settles(c)
       PROVE  SessionInv'
  BY <1>10, DigestStep, HandshakeStep, AuthenticateStep, VariableStep DEF Settles
<1>11. CASE UNCHANGED vars
  BY <1>1, <1>11, SameSession DEF vars
<1> QED
  BY <1>2, <1>3, <1>4, <1>5, <1>6, <1>7, <1>8, <1>9, <1>10, <1>11
     DEF Next, LicenseProtection, AnyComponent

(* The session is as described in every state, for any number of calls,      *)
(* client objects and fingerprints.                                          *)
THEOREM SessionSafe == Spec => []SessionInv
BY InitSession, NextSession, PTL DEF Spec

(* The records of the client objects, the provider and its calls keep their  *)
(* types: an identity is a fingerprint, never an empty value.                *)
THEOREM SessionTyped == Spec => []TypeOK
<1>1. SessionInv => TypeOK
  BY DEF SessionInv, Typed
<1> QED
  BY <1>1, SessionSafe, PTL

(* A session id or token reaches the client object that asked for it, however*)
(* many objects the provider makes while the answer is awaited.              *)
THEOREM GrantsReach == Spec => []GrantsReachTheirClient
<1>1. SessionInv => GrantsReachTheirClient
  BY DEF SessionInv
<1> QED
  BY <1>1, SessionSafe, PTL

(* What VolqAuthProvider shows follows the tokens its client objects hold.   *)
THEOREM ProviderFollows == Spec => []ProviderFollowsClient
<1>1. SessionInv => ProviderFollowsClient
  BY DEF SessionInv
<1> QED
  BY <1>1, SessionSafe, PTL

(* Behind the guards of examples/App.tsx no login runs beside another or     *)
(* while signed in.                                                          *)
THEOREM ExampleStaysQuiet == Spec => []ExampleIsQuiet
<1>1. SessionInv => ExampleIsQuiet
  BY DEF SessionInv, Quiet, ExampleIsQuiet, Idle
<1> QED
  BY <1>1, SessionSafe, PTL
-----------------------------------------------------------------------------
(* The identity of a browser.  Unless two computations of different          *)
(* fingerprints overlapped, every identity is the stored one, and a          *)
(* computation in progress is of that one, or of the one to be stored.       *)
Single ==
  env.storage /\ ~overlapped =>
    /\ sent \subseteq {stored} /\ ui.hwid \in {None, stored}
    /\ \A k \in 1 .. Current : clients[k].cachedHwid \in {None, stored}
    /\ \A c, d \in Calls : calls[c].pc = "digest" /\ calls[d].pc = "digest"
         => calls[c].print = calls[d].print
    /\ \A c \in Calls : calls[c].pc = "digest"
         => env.subtle /\ stored \in {None, calls[c].print}

(* What a step of the call c, of the client object k and of the provider has *)
(* to show, when h is what is stored after it.                               *)
Conforms(c, nc, ncl, nu, h) ==
  /\ stored \in {None, h}
  /\ ncl.cachedHwid \in {None, h} /\ nu.hwid \in {None, h}
  /\ nc.pc = "digest" =>
       /\ env.subtle /\ h \in {None, nc.print}
       /\ \A d \in Calls : calls[d].pc = "digest" => calls[d].print = nc.print
  /\ \A d \in Calls \ {c} : calls[d].pc = "digest" => h \in {None, calls[d].print}

LEMMA SingleMove ==
  ASSUME Typed, Single, NEW c \in Calls, NEW nc, NEW k \in 1 .. Current,
         NEW ncl \in Client, NEW nu, Moves(c, nc, k, ncl, nu),
         env' = env, ~overlapped' => ~overlapped,
         env.storage /\ ~overlapped' =>
           Conforms(c, nc, ncl, nu, stored') /\ sent' \subseteq {stored'}
  PROVE  Single'
<1> SUFFICES ASSUME env.storage, ~overlapped' PROVE Single'
  BY DEF Single
<1>1. /\ ~overlapped /\ Conforms(c, nc, ncl, nu, stored') /\ sent' \subseteq {stored'}
  OBVIOUS
<1>2. /\ Current' = Current
      /\ \A j \in 1 .. Current : clients'[j] = IF j = k THEN ncl ELSE clients[j]
  BY ClientsMove DEF Moves
<1>3. /\ ui' = nu
      /\ \A d \in Calls : calls'[d] = IF d = c THEN nc ELSE calls[d]
  BY TypedFacts DEF Moves
<1>4. \A j \in 1 .. Current' : clients'[j].cachedHwid \in {None, stored'}
  BY <1>1, <1>2 DEF Single, Conforms
<1>5. ASSUME NEW d \in Calls, calls'[d].pc = "digest"
      PROVE  env'.subtle /\ stored' \in {None, calls'[d].print}
  BY <1>1, <1>3, <1>5 DEF Single, Conforms
<1>6. ASSUME NEW d \in Calls, NEW e \in Calls, calls'[d].pc = "digest",
             calls'[e].pc = "digest"
      PROVE  calls'[d].print = calls'[e].print
  BY <1>1, <1>3, <1>6 DEF Single, Conforms
<1>7. ui'.hwid \in {None, stored'}
  BY <1>1, <1>3 DEF Conforms
<1> QED
  BY <1>1, <1>4, <1>5, <1>6, <1>7 DEF Single

(* The provider shows what its client has, or presents it.                   *)
LEMMA SingleIdentified ==
  ASSUME Typed, Single, NEW c \in Calls, NEW call \in Call, NEW cl \in Client,
         NEW u \in Ui, Identified(c, call, cl, u), call.client \in 1 .. Current,
         u.hwid = ui.hwid, env' = env, ~overlapped' => ~overlapped,
         env.storage /\ ~overlapped' =>
           /\ stored' = cl.cachedHwid /\ stored \in {None, stored'}
           /\ \A d \in Calls \ {c} : calls[d].pc = "digest"
                => stored' \in {None, calls[d].print}
  PROVE  Single'
<1>1. /\ sent \subseteq Prints /\ ui.hwid \in Some(Prints)
      /\ env.storage /\ ~overlapped =>
           sent \subseteq {stored} /\ ui.hwid \in {None, stored}
  BY TypedFacts DEF Single, Ui
<1>2. env.storage /\ ~overlapped' => sent' \subseteq {stored'}
  BY <1>1, NoneIsNoPrint DEF Identified, Await
<1>3. PICK nc, nu : /\ Moves(c, nc, call.client, cl, nu)
                    /\ nc.pc # "digest" /\ nu.hwid \in {u.hwid, cl.cachedHwid}
  <2>1. CASE Await(c, call, "handshake", cl, [u EXCEPT !.hwid = cl.cachedHwid])
    <3> DEFINE nc == [call EXCEPT !.pc = "handshake"]
               nu == [u EXCEPT !.hwid = cl.cachedHwid]
    <3>1. Moves(c, nc, call.client, cl, nu)
      BY <2>1 DEF Await, Moves
    <3>2. nc.pc = "handshake" /\ nu.hwid = cl.cachedHwid
      BY DEF Call, Ui
    <3> HIDE DEF nc, nu
    <3> QED
      BY <3>1, <3>2
  <2>2. CASE Await(c, call, "login", cl, u)
    <3> DEFINE nc == [call EXCEPT !.pc = "login"]
    <3>1. Moves(c, nc, call.client, cl, u)
      BY <2>2 DEF Await, Moves
    <3>2. nc.pc = "login"
      BY DEF Call
    <3> HIDE DEF nc
    <3> QED
      BY <3>1, <3>2
  <2> QED
    BY <2>1, <2>2 DEF Identified
<1>4. env.storage /\ ~overlapped' => Conforms(c, nc, cl, nu, stored')
  BY <1>1, <1>3 DEF Conforms
<1> QED
  BY <1>2, <1>3, <1>4, SingleMove

LEMMA SingleHwid ==
  ASSUME Typed, Single, NEW c \in Calls, NEW call \in Call, NEW cl \in Client,
         NEW u \in Ui, GetHWID(c, call, cl, u), call.client \in 1 .. Current,
         cl.cachedHwid = clients[call.client].cachedHwid,
         u.hwid = ui.hwid, env' = env
  PROVE  Single'
<1>1. /\ print \in Prints /\ stored \in Some(Prints)
      /\ overlapped \in BOOLEAN
      /\ env.storage /\ ~overlapped =>
           /\ cl.cachedHwid \in {None, stored}
           /\ ui.hwid \in {None, stored} /\ sent \subseteq {stored}
           /\ \A d \in Calls : calls[d].pc = "digest"
                => env.subtle /\ stored \in {None, calls[d].print}
  BY TypedFacts DEF Single
<1>2. CASE /\ Known(cl) # None /\ UNCHANGED <<stored, overlapped>>
           /\ Identified(c, call, [cl EXCEPT !.cachedHwid = Known(cl)], u)
  <2> DEFINE kcl == [cl EXCEPT !.cachedHwid = Known(cl)]
  <2>1. Known(cl) \in Some(Prints)
    BY <1>1 DEF Known, Client
  <2>2. kcl \in Client /\ kcl.cachedHwid = Known(cl)
    BY <2>1 DEF Client
  <2>3. env.storage /\ ~overlapped => Known(cl) = stored
    BY <1>1, <1>2 DEF Known
  <2>4. Identified(c, call, kcl, u)
    BY <1>2
  <2> HIDE DEF kcl
  <2> QED
    BY <1>1, <1>2, <2>2, <2>3, <2>4, SingleIdentified
<1>3. CASE /\ Known(cl) = None /\ ~env.subtle /\ Keep(print) /\ UNCHANGED overlapped
           /\ Identified(c, call, [cl EXCEPT !.cachedHwid = print], u)
  <2> DEFINE kcl == [cl EXCEPT !.cachedHwid = print]
  <2>1. kcl \in Client /\ kcl.cachedHwid = print
    BY <1>1 DEF Client, Some
  <2>2. env.storage /\ ~overlapped => stored = None /\ stored' = print
    BY <1>1, <1>3 DEF Known, Keep
  <2>3. env.storage /\ ~overlapped => \A d \in Calls : calls[d].pc # "digest"
    BY <1>1, <1>3
  <2>4. Identified(c, call, kcl, u)
    BY <1>3
  <2> HIDE DEF kcl
  <2> QED
    BY <1>3, <2>1, <2>2, <2>3, <2>4, SingleIdentified
<1>4. CASE /\ Known(cl) = None /\ env.subtle /\ UNCHANGED <<stored, sent>>
           /\ Await(c, [call EXCEPT !.print = print], "digest", cl, u)
           /\ overlapped' = (overlapped \/ (env.storage /\ \E d \in Calls :
                               calls[d].pc = "digest" /\ calls[d].print # print))
  <2> DEFINE qc == [call EXCEPT !.print = print]
             nc == [qc EXCEPT !.pc = "digest"]
  <2>1. qc \in Call /\ qc.client = call.client /\ qc.print = print
    BY <1>1 DEF Call, Some
  <2>2. calls' = [calls EXCEPT ![c] = nc] /\ clients' = [clients EXCEPT ![qc.client] = cl]
        /\ ui' = u
    BY <1>4 DEF Await
  <2> HIDE DEF qc
  <2>3. nc.print = print
    BY <2>1 DEF Call
  <2>4. Moves(c, nc, call.client, cl, u)
    BY <2>1, <2>2 DEF Moves
  <2> HIDE DEF nc
  <2>5. env.storage /\ ~overlapped' =>
          /\ ~overlapped
          /\ \A d \in Calls : calls[d].pc = "digest" => calls[d].print = print
    BY <1>4
  <2>6. env.storage /\ ~overlapped => stored = None
    BY <1>1, <1>4 DEF Known
  <2>7. env.storage /\ ~overlapped' =>
          Conforms(c, nc, cl, u, stored') /\ sent' \subseteq {stored'}
    BY <1>1, <1>4, <2>3, <2>5, <2>6 DEF Conforms
  <2>8. ~overlapped' => ~overlapped
    BY <1>1, <1>4
  <2> QED
    BY <2>4, <2>7, <2>8, SingleMove
<1> QED
  BY <1>2, <1>3, <1>4 DEF GetHWID, GetBrowserHWID

(* A step of one call that leaves the identities alone.                      *)
LEMMA SingleSame ==
  ASSUME Typed, Single, NEW c \in Calls, NEW nc, NEW k \in 1 .. Current,
         NEW ncl \in Client, NEW nu, Moves(c, nc, k, ncl, nu),
         UNCHANGED <<env, stored, sent, overlapped>>,
         nc.pc # "digest", ncl.cachedHwid = clients[k].cachedHwid, nu.hwid = ui.hwid
  PROVE  Single'
<1>1. env.storage /\ ~overlapped' => Conforms(c, nc, ncl, nu, stored')
  BY DEF Single, Conforms
<1>2. env.storage /\ ~overlapped' => sent' \subseteq {stored'}
  BY DEF Single
<1> QED
  BY <1>1, <1>2, SingleMove

LEMMA SingleReturn ==
  ASSUME Typed, Single, NEW c \in Calls, NEW u \in Ui, Return(c, u),
         NEW k \in 1 .. Current, NEW ncl \in Client,
         clients' = [clients EXCEPT ![k] = ncl], u.hwid = ui.hwid,
         ncl.cachedHwid = clients[k].cachedHwid,
         UNCHANGED <<env, stored, sent, overlapped>>
  PROVE  Single'
<1> DEFINE nu == [u EXCEPT !.isLoading = FALSE]
<1>1. Moves(c, NoCall, k, ncl, nu)
  BY DEF Return, Moves
<1>2. nu.hwid = ui.hwid
  BY DEF Ui
<1> HIDE DEF nu
<1> QED
  BY <1>1, <1>2, NoCallOK, SingleSame

LEMMA SingleAwait ==
  ASSUME Typed, Single, NEW c \in Calls, NEW call \in Call, NEW cl \in Client,
         NEW pc \in {"handshake", "login", "variable"}, NEW u,
         Await(c, call, pc, cl, u), call.client \in 1 .. Current,
         cl.cachedHwid = clients[call.client].cachedHwid, u.hwid = ui.hwid,
         UNCHANGED <<env, stored, sent, overlapped>>
  PROVE  Single'
<1> DEFINE nc == [call EXCEPT !.pc = pc]
<1>1. Moves(c, nc, call.client, cl, u)
  BY DEF Await, Moves
<1>2. nc.pc = pc
  BY DEF Call
<1> HIDE DEF nc
<1> QED
  BY <1>1, <1>2, SingleSame

LEMMA SingleBegin ==
  ASSUME Typed, Single, NEW c \in Calls, NEW kind \in Kinds, Begin(c, kind)
  PROVE  Single'
<1> DEFINE call == [kind |-> kind, pc |-> "idle", client |-> Current, print |-> None]
           u == [ui EXCEPT !.isLoading = TRUE]
           cl == clients[Current]
<1>1. Current \in Nat /\ Current \in 1 .. Current /\ cl \in Client
  <2>1. clients \in Seq(Client) /\ clients # <<>>
    BY TypedFacts DEF Begin
  <2> QED
    BY <2>1 DEF Current
<1>2. call \in Call /\ call.client = Current
  BY <1>1 DEF Call, Some, Kinds
<1>3. u \in Ui /\ u.hwid = ui.hwid
  BY TypedFacts DEF Ui
<1>4. /\ env' = env
      /\ \/ kind = "init" /\ GetHWID(c, call, clients[Current], u)
         \/ kind # "init" /\ Authenticate(c, call, u)
  BY DEF Begin
<1> HIDE DEF call, u
<1>5. CASE GetHWID(c, call, cl, u)
  BY <1>1, <1>2, <1>3, <1>4, <1>5, SingleHwid
<1>6. CASE Await(c, call, "handshake", cl, u) /\ UNCHANGED <<stored, sent, overlapped>>
  BY <1>1, <1>2, <1>3, <1>4, <1>6, SingleAwait
<1> QED
  BY <1>1, <1>2, <1>4, <1>5, <1>6 DEF Authenticate

LEMMA SingleDigest ==
  ASSUME Typed, SessionInv, Single, NEW c \in Calls, DigestSettles(c)
  PROVE  Single'
<1> DEFINE h == calls[c].print
           call == [calls[c] EXCEPT !.print = None]
           cl == [clients[call.client] EXCEPT !.cachedHwid = h]
<1>1. calls[c].pc = "digest" /\ UNCHANGED <<env, print, effectDue, overlapped>>
  <2>1. calls[c] \in Call
    BY TypedFacts
  <2>2. call.pc = calls[c].pc
    BY <2>1 DEF Call
  <2>3. call.pc = "digest" /\ UNCHANGED <<env, print, effectDue, overlapped>>
    BY DEF DigestSettles
  <2> QED
    BY <2>2, <2>3
<1>2. /\ calls[c] \in Call /\ calls[c].client \in 1 .. Current
      /\ clients[calls[c].client] \in Client /\ h \in Prints /\ ui \in Ui
  BY <1>1, Waiting, TypedFacts
<1>3. call \in Call /\ call.client = calls[c].client
  BY <1>2 DEF Call, Some
<1>4. cl \in Client /\ cl.cachedHwid = h
  BY <1>2, <1>3 DEF Client, Some
<1>5. \/ Keep(h) /\ Identified(c, call, cl, ui)
      \/ Return(c, ui) /\ UNCHANGED <<stored, clients, sent>>
  BY DEF DigestSettles
<1> HIDE DEF call, cl, h
<1>6. CASE Keep(h) /\ Identified(c, call, cl, ui)
  <2>1. env.storage /\ ~overlapped =>
          /\ stored' = h /\ stored \in {None, h}
          /\ \A d \in Calls : calls[d].pc = "digest" => calls[d].print = h
    BY <1>1, <1>6 DEF Keep, Single, h
  <2> QED
    BY <1>1, <1>2, <1>3, <1>4, <1>6, <2>1, SingleIdentified
<1>7. CASE Return(c, ui) /\ UNCHANGED <<stored, clients, sent>>
  <2>1. clients' = [clients EXCEPT ![calls[c].client] = clients[calls[c].client]]
    BY <1>2, <1>7, SameClients
  <2> QED
    BY <1>1, <1>2, <1>7, <2>1, SingleReturn
<1> QED
  BY <1>5, <1>6, <1>7

LEMMA SingleHandshake ==
  ASSUME Typed, SessionInv, Single, NEW c \in Calls, HandshakeSettles(c)
  PROVE  Single'
<1> DEFINE call == calls[c]
           cl == [clients[call.client] EXCEPT !.sessionId = call.client]
           yes == [ui EXCEPT !.isInitialized = TRUE]
           no == [ui EXCEPT !.isInitialized = @ /\ call.kind # "init"]
<1>1. call.pc = "handshake" /\ UNCHANGED <<env, print, effectDue>>
  BY DEF HandshakeSettles
<1>2. /\ call \in Call /\ call.client \in 1 .. Current
      /\ clients[call.client] \in Client /\ ui \in Ui /\ Current \in Nat
  BY <1>1, Waiting, TypedFacts
<1>3. cl \in Client /\ cl.cachedHwid = clients[call.client].cachedHwid
  BY <1>2 DEF Client, Some
<1>4. yes \in Ui /\ yes.hwid = ui.hwid /\ no \in Ui /\ no.hwid = ui.hwid
  BY <1>2 DEF Ui
<1>5. \/ /\ clients' = [clients EXCEPT ![call.client] = cl]
         /\ Return(c, yes) /\ UNCHANGED <<stored, sent, overlapped>>
      \/ GetHWID(c, call, cl, ui)
      \/ Return(c, no) /\ UNCHANGED <<stored, clients, sent, overlapped>>
  BY DEF HandshakeSettles
<1> HIDE DEF cl, yes, no
<1>6. CASE /\ clients' = [clients EXCEPT ![call.client] = cl]
           /\ Return(c, yes) /\ UNCHANGED <<stored, sent, overlapped>>
  BY <1>1, <1>2, <1>3, <1>4, <1>6, SingleReturn
<1>7. CASE GetHWID(c, call, cl, ui)
  BY <1>1, <1>2, <1>3, <1>7, SingleHwid
<1>8. CASE Return(c, no) /\ UNCHANGED <<stored, clients, sent, overlapped>>
  <2> DEFINE same == clients[call.client]
  <2>1. clients' = [clients EXCEPT ![call.client] = same] /\ same \in Client
        /\ same.cachedHwid = clients[call.client].cachedHwid
    BY <1>2, <1>8, SameClients
  <2> HIDE DEF same
  <2> QED
    BY <1>1, <1>2, <1>4, <1>8, <2>1, SingleReturn
<1> QED
  BY <1>5, <1>6, <1>7, <1>8

LEMMA SingleAuthenticate ==
  ASSUME Typed, SessionInv, Single, NEW c \in Calls, AuthenticateSettles(c)
  PROVE  Single'
<1> DEFINE call == calls[c]
           u == SignedIn(call.client)
           ncl == Granted(call)
<1>1. call.pc = "login" /\ UNCHANGED <<env, print, stored, effectDue, sent, overlapped>>
  BY DEF AuthenticateSettles
<1>2. /\ call \in Call /\ call.client \in 1 .. Current
      /\ clients[call.client] \in Client /\ ui \in Ui /\ Current \in Nat
  BY <1>1, Waiting, TypedFacts
<1>3. u \in Ui /\ u.hwid = ui.hwid
  <2>1. call.client \in Some(Nat)
    BY <1>2 DEF Some
  <2> QED
    BY <1>2, <2>1 DEF SignedIn, Ui
<1>4. ncl \in Client /\ ncl.cachedHwid = clients[call.client].cachedHwid
  BY <1>2 DEF Granted, Client, Some
<1>5. \/ Await(c, call, "variable", ncl, u)
      \/ Return(c, u) /\ clients' = [clients EXCEPT ![call.client] = ncl]
      \/ Return(c, ui) /\ UNCHANGED clients
  BY DEF AuthenticateSettles
<1> HIDE DEF u, ncl
<1>6. CASE Await(c, call, "variable", ncl, u)
  BY <1>1, <1>2, <1>3, <1>4, <1>6, SingleAwait
<1>7. CASE Return(c, u) /\ clients' = [clients EXCEPT ![call.client] = ncl]
  BY <1>1, <1>2, <1>3, <1>4, <1>7, SingleReturn
<1>8. CASE Return(c, ui) /\ UNCHANGED clients
  <2>1. clients' = [clients EXCEPT ![call.client] = clients[call.client]]
    BY <1>2, <1>8, SameClients
  <2> QED
    BY <1>1, <1>2, <1>8, <2>1, SingleReturn
<1> QED
  BY <1>5, <1>6, <1>7, <1>8

LEMMA SingleVariable ==
  ASSUME Typed, Single, NEW c \in Calls, GetVariable(c) \/ VariableSettles(c)
  PROVE  Single'
<1>1. UNCHANGED <<env, print, stored, clients, effectDue, ui, sent, overlapped>>
  BY DEF GetVariable, VariableSettles
<1>2. PICK nc : calls' = [calls EXCEPT ![c] = nc] /\ nc.pc \in {"variable", "idle"}
  BY NoCallOK DEF GetVariable, VariableSettles
<1>3. \A d \in Calls : calls'[d] = calls[d] \/ calls'[d].pc # "digest"
  BY <1>2, TypedFacts
<1>4. Current' = Current
  BY <1>1 DEF Current
<1> QED
  BY <1>1, <1>3, <1>4 DEF Single

LEMMA SingleLogout ==
  ASSUME Typed, Single, Logout
  PROVE  Single'
<1> DEFINE ncl == [clients[Current] EXCEPT !.sessionToken = None]
<1>1. clients \in Seq(Client) /\ Current \in Nat /\ ui \in Ui
  BY TypedFacts
<1>2. Current \in 1 .. Current /\ clients[Current] \in Client
  BY <1>1 DEF Logout, Ready, Current
<1>3. ncl \in Client /\ ncl.cachedHwid = clients[Current].cachedHwid
  BY <1>2 DEF Client, Some
<1>4. /\ clients' = [clients EXCEPT ![Current] = ncl] /\ ui'.hwid = ui.hwid
      /\ UNCHANGED <<env, print, stored, effectDue, calls, sent, overlapped>>
  BY <1>1, <1>2 DEF Logout, Ui
<1> HIDE DEF ncl
<1>5. /\ Current' = Current
      /\ \A j \in 1 .. Current : clients'[j] = IF j = Current THEN ncl ELSE clients[j]
  BY <1>2, <1>3, <1>4, ClientsMove
<1>6. \A j \in 1 .. Current : clients'[j].cachedHwid = clients[j].cachedHwid
  BY <1>3, <1>5
<1> QED
  BY <1>4, <1>5, <1>6 DEF Single

LEMMA SingleRender ==
  ASSUME Typed, Single, Render
  PROVE  Single'
<1>1. clients \in Seq(Client) /\ Current \in Nat
  BY TypedFacts
<1>2. /\ clients' = Append(clients, NewClient) /\ ui'.hwid \in {ui.hwid, None}
      /\ UNCHANGED <<env, print, stored, calls, sent, overlapped>>
  BY DEF Render, NewUi
<1>3. /\ Current' = Current + 1 /\ clients'[Current + 1].cachedHwid = None
      /\ \A j \in 1 .. Current : clients'[j] = clients[j]
  BY <1>1, <1>2 DEF Current, NewClient
<1>4. \A j \in 1 .. Current' : j = Current + 1 \/ j \in 1 .. Current
  BY <1>1, <1>3
<1> QED
  BY <1>2, <1>3, <1>4 DEF Single

LEMMA SingleReload ==
  ASSUME Typed, Single, Reload
  PROVE  Single'
<1>1. /\ Current' = 0 /\ ui'.hwid = None /\ \A c \in Calls : calls'[c].pc = "idle"
      /\ UNCHANGED <<env, print, stored, sent, overlapped>>
  BY DEF Reload, Current, NewUi, NoCall
<1> QED
  BY <1>1 DEF Single

LEMMA SingleUnchanged ==
  ASSUME Single, UNCHANGED <<env, stored, clients, effectDue, ui, calls, sent, overlapped>>
  PROVE  Single'
BY DEF Single, Current

LEMMA SingleInit == Init => Single
BY DEF Init, Single, Current, NewUi, NoCall

LEMMA SingleNext == SessionInv /\ Single /\ [Next]_vars => Single'
<1> SUFFICES ASSUME SessionInv, Single, [Next]_vars PROVE Single'
  OBVIOUS
<1>1. Typed
  BY DEF SessionInv
<1>2. CASE Render \/ Reload \/ Logout
  BY <1>1, <1>2, SingleRender, SingleReload, SingleLogout
<1>3. CASE PrintChanges \/ UNCHANGED vars
  BY <1>3, SingleUnchanged DEF PrintChanges, vars
<1>4. ASSUME NEW c \in Calls, NEW kind \in Kinds, Begin(c, kind) PROVE Single'
  BY <1>1, <1>4, SingleBegin
<1>5. ASSUME NEW c \in Calls,
             \/ HandleUnlock(c) \/ InitAgain(c) \/ LoginWithLicense(c)
             \/ LoginWithCredentials(c) \/ InitEffect(c)
      PROVE  Single'
  BY <1>4, <1>5 DEF HandleUnlock, InitAgain, LoginWithLicense,
     LoginWithCredentials, InitEffect, Kinds
<1>6. ASSUME NEW c \in Calls, GetVariable(c) PROVE Single'
  BY <1>1, <1>6, SingleVariable
<1>7. ASSUME NEW c \in Calls, Settles(c) PROVE Single'
  BY <1>1, <1>7, SingleDigest, SingleHandshake, SingleAuthenticate, SingleVariable
     DEF Settles
<1> QED
  BY <1>2, <1>3, <1>5, <1>6, <1>7 DEF Next, LicenseProtection, AnyComponent

(* Unless two computations of different fingerprints overlapped, one browser *)
(* with a storage has a single identity, for any number of calls, client     *)
(* objects, reloads and changes of what it shows.                            *)
THEOREM IdentityIsOne == Spec => []OneIdentity
<1>1. SessionInv /\ Single => OneIdentity
  <2> SUFFICES ASSUME SessionInv, Single, env.storage, ~overlapped
               PROVE  \A x \in Identities : x = stored
    BY DEF OneIdentity
  <2> QED
    BY DEF Single, Identities, Current
<1>2. Init => SessionInv /\ Single
  BY InitSession, SingleInit
<1>3. SessionInv /\ Single /\ [Next]_vars => (SessionInv /\ Single)'
  BY NextSession, SingleNext
<1> QED
  BY <1>1, <1>2, <1>3, PTL DEF Spec
=============================================================================
