---------------------------- MODULE ReactSession ----------------------------
(* sdks/react: VolqAuthProvider, the client objects it makes, the browser    *)
(* fingerprint they present, and a component that uses the hook.  One action *)
(* is one task of the browser's event loop: a handler up to its first await, *)
(* or the continuation of an answered request up to the next one.  A session *)
(* id or token is named by the client object whose handshake or login it     *)
(* answered.  Subscription and error text are set with the token and the end *)
(* of a call, and are left out.                                              *)
EXTENDS Integers, Sequences

CONSTANTS
  Prints,       \* fingerprints the browser can show (screen, canvas, ...)
  Calls,        \* asynchronous calls that can be in progress at a time
  MaxClients,   \* client objects made in the life of a page
  None

ASSUME NoneIsNoPrint == None \notin Prints /\ None \notin Nat
ASSUME ClientsType == MaxClients \in Nat \ {0}

VARIABLES
  env,          \* fixed: autoInit, the browser's storage, and who uses the hook
  print,        \* the fingerprint the browser shows now
  stored,       \* localStorage[volq_device_hwid_v1]
  clients,      \* the client objects of this page, the last one in use
  effectDue,    \* the init effect of the last client has not run yet
  ui,           \* the state of VolqAuthProvider
  calls,        \* the calls in progress
  sent,         \* history: fingerprints presented, by a browser that stores one
  overlapped    \* history: such a browser hashed two fingerprints at once

vars == <<env, print, stored, clients, effectDue, ui, calls, sent, overlapped>>

Kinds  == {"init", "login", "unlock", "variable"}
NoCall == [kind |-> None, pc |-> "idle", client |-> 0, print |-> None]

NewClient == [sessionId |-> None, sessionToken |-> None, cachedHwid |-> None]

NewUi(loading) == [isInitialized |-> FALSE, isAuthenticated |-> FALSE,
                   isLoading |-> loading, hwid |-> None, sessionToken |-> None]

Some(S) == S \cup {None}

TypeOK ==
  /\ env \in [autoInit : BOOLEAN, storage : BOOLEAN,
              subtle : BOOLEAN, example : BOOLEAN]
  /\ print \in Prints /\ stored \in Some(Prints)
  /\ clients \in Seq([sessionId : Some(Nat), sessionToken : Some(Nat),
                      cachedHwid : Some(Prints)])
  /\ ui \in [isInitialized : BOOLEAN, isAuthenticated : BOOLEAN,
             isLoading : BOOLEAN, hwid : Some(Prints), sessionToken : Some(Nat)]
  /\ calls \in [Calls -> [kind : Some(Kinds), client : Nat,
                          pc : {"idle", "digest", "handshake", "login", "variable"},
                          print : Some(Prints)]]
  /\ effectDue \in BOOLEAN /\ overlapped \in BOOLEAN /\ sent \subseteq Prints

Init ==
  /\ env \in [autoInit : BOOLEAN, storage : BOOLEAN,
              subtle : BOOLEAN, example : BOOLEAN]
  /\ env.example => env.autoInit
  /\ print \in Prints /\ stored \in Some(Prints)
  /\ ~env.storage => stored = None
  /\ clients = <<>> /\ effectDue = FALSE /\ ui = NewUi(FALSE)
  /\ calls = [c \in Calls |-> NoCall] /\ sent = {} /\ overlapped = FALSE
-----------------------------------------------------------------------------
Current == Len(clients)
Idle(c) == calls[c].pc = "idle"
Ready   == clients # <<>> /\ ~effectDue

(* The call c goes on to wait in pc; its client becomes cl, the provider u.  *)
Await_NewestClient(c, call, pc, cl, u) ==   \* seeded fault
  /\ calls' = [calls EXCEPT ![c] = [call EXCEPT !.pc = pc]]
  /\ clients' = [clients EXCEPT ![Len(clients)] = cl]
  /\ ui' = u
Await(c, call, pc, cl, u) ==
  /\ calls' = [calls EXCEPT ![c] = [call EXCEPT !.pc = pc]]
  /\ clients' = [clients EXCEPT ![call.client] = cl]
  /\ ui' = u

(* The finally blocks of the provider.                                       *)
Return_NoFinally(c, u) ==   \* seeded fault
  calls' = [calls EXCEPT ![c] = NoCall] /\ ui' = u
Return(c, u) ==
  /\ calls' = [calls EXCEPT ![c] = NoCall]
  /\ ui' = [u EXCEPT !.isLoading = FALSE]

(* After await getHWID(): init shakes hands, a login sends its envelope.     *)
Identified(c, call, cl, u) ==
  \/ /\ call.kind = "init" /\ UNCHANGED sent
     /\ Await(c, call, "handshake", cl, [u EXCEPT !.hwid = cl.cachedHwid])
  \/ /\ call.kind # "init"
     /\ sent' = IF env.storage THEN sent \cup {cl.cachedHwid} ELSE sent
     /\ Await(c, call, "login", cl, u)

Keep(hwid) == stored' = IF env.storage THEN hwid ELSE stored

(* getHWID and getBrowserHWID: the client's own copy, else the stored one,   *)
(* else the hash of what the browser shows now.  Only the Web Crypto hash    *)
(* is awaited.                                                               *)
Known_Unstored(cl) == cl.cachedHwid   \* seeded fault
Known_Empty(cl) ==   \* seeded fault
  IF cl.cachedHwid = None /\ env.storage THEN "" ELSE cl.cachedHwid
Known(cl) ==
  IF cl.cachedHwid = None /\ env.storage THEN stored ELSE cl.cachedHwid

GetBrowserHWID(c, call, cl, u) ==
  \/ /\ env.subtle /\ UNCHANGED <<stored, sent>>
     /\ Await(c, [call EXCEPT !.print = print], "digest", cl, u)
     /\ overlapped' = (overlapped \/ (env.storage /\ \E d \in Calls :
                         calls[d].pc = "digest" /\ calls[d].print # print))
  \/ /\ ~env.subtle /\ Keep(print) /\ UNCHANGED overlapped
     /\ Identified(c, call, [cl EXCEPT !.cachedHwid = print], u)

GetHWID(c, call, cl, u) ==
  \/ /\ Known(cl) # None /\ UNCHANGED <<stored, overlapped>>
     /\ Identified(c, call, [cl EXCEPT !.cachedHwid = Known(cl)], u)
  \/ Known(cl) = None /\ GetBrowserHWID(c, call, cl, u)

DigestSettles(c) ==
  LET hwid == calls[c].print
      call == [calls[c] EXCEPT !.print = None]
      cl   == [clients[call.client] EXCEPT !.cachedHwid = hwid] IN
  /\ call.pc = "digest" /\ UNCHANGED <<env, print, effectDue, overlapped>>
  /\ \/ Keep(hwid) /\ Identified(c, call, cl, ui)
     \/ Return(c, ui) /\ UNCHANGED <<stored, clients, sent>>
-----------------------------------------------------------------------------
(* authenticateLicense and authenticateUser differ only in what they send.   *)
(* A client that has a session id, even one the server has dropped, never    *)
(* shakes hands again.                                                       *)
Authenticate(c, call, u) ==
  LET cl == clients[call.client] IN
  \/ /\ cl.sessionId = None /\ Await(c, call, "handshake", cl, u)
     /\ UNCHANGED <<stored, sent, overlapped>>
  \/ cl.sessionId # None /\ GetHWID(c, call, cl, u)

(* The provider's functions, up to the first request.                        *)
Begin(c, kind) ==
  LET call == [kind |-> kind, pc |-> "idle", client |-> Current, print |-> None]
      u    == [ui EXCEPT !.isLoading = TRUE] IN
  /\ Idle(c) /\ clients # <<>> /\ UNCHANGED <<env, print>>
  /\ \/ kind = "init" /\ GetHWID(c, call, clients[Current], u)
     \/ kind # "init" /\ Authenticate(c, call, u)

InitEffect(c) == effectDue /\ effectDue' = FALSE /\ Begin(c, "init")

InitAgain(c)            == Ready /\ Begin(c, "init") /\ UNCHANGED effectDue
LoginWithLicense(c)     == Ready /\ Begin(c, "login") /\ UNCHANGED effectDue
LoginWithCredentials(c) == Ready /\ Begin(c, "login") /\ UNCHANGED effectDue

GetVariable(c) ==
  /\ Ready /\ Idle(c) /\ clients[Current].sessionToken # None
  /\ calls' = [calls EXCEPT ![c] = [kind |-> "variable", pc |-> "variable",
                                    client |-> Current, print |-> None]]
  /\ UNCHANGED <<env, print, stored, clients, effectDue, ui, sent, overlapped>>

Logout_UiOnly ==   \* seeded fault
  /\ Ready /\ UNCHANGED clients
  /\ ui' = [ui EXCEPT !.isAuthenticated = FALSE, !.sessionToken = None]
  /\ UNCHANGED <<env, print, stored, effectDue, calls, sent, overlapped>>
Logout ==
  /\ Ready
  /\ clients' = [clients EXCEPT ![Current].sessionToken = None]
  /\ ui' = [ui EXCEPT !.isAuthenticated = FALSE, !.sessionToken = None]
  /\ UNCHANGED <<env, print, stored, effectDue, calls, sent, overlapped>>

(* The answer of /client/init, for the provider's init and for a login.      *)
HandshakeSettles(c) ==
  LET call == calls[c]
      cl   == [clients[call.client] EXCEPT !.sessionId = call.client] IN
  /\ call.pc = "handshake" /\ UNCHANGED <<env, print, effectDue>>
  /\ \/ /\ call.kind = "init"
        /\ clients' = [clients EXCEPT ![call.client] = cl]
        /\ Return(c, [ui EXCEPT !.isInitialized = TRUE])
        /\ UNCHANGED <<stored, sent, overlapped>>
     \/ call.kind # "init" /\ GetHWID(c, call, cl, ui)
     \/ /\ Return(c, [ui EXCEPT !.isInitialized = @ /\ call.kind # "init"])
        /\ UNCHANGED <<stored, clients, sent, overlapped>>

(* The answer of /client/license or /client/login.  handleUnlock of the      *)
(* example goes on to getVariable, on the client it was rendered with.       *)
Granted(call)   == [clients[call.client] EXCEPT !.sessionToken = call.client]
SignedIn(token) == [ui EXCEPT !.isAuthenticated = TRUE, !.sessionToken = token,
                              !.isLoading = FALSE]
AuthenticateSettles(c) ==
  LET call == calls[c]
      u    == SignedIn(call.client) IN
  /\ call.pc = "login"
  /\ \/ call.kind = "unlock" /\ Await(c, call, "variable", Granted(call), u)
     \/ /\ call.kind # "unlock" /\ Return(c, u)
        /\ clients' = [clients EXCEPT ![call.client] = Granted(call)]
     \/ Return(c, ui) /\ UNCHANGED clients
  /\ UNCHANGED <<env, print, stored, effectDue, sent, overlapped>>

VariableSettles(c) ==
  /\ calls[c].pc = "variable"
  /\ calls' = [calls EXCEPT ![c] = NoCall]
  /\ UNCHANGED <<env, print, stored, clients, effectDue, ui, sent, overlapped>>
-----------------------------------------------------------------------------
(* First render, or changed props: a new client object.  The rest of the     *)
(* provider's state stays, and calls in progress keep the client they have.  *)
Render ==
  /\ ~effectDue /\ Current < MaxClients /\ (env.example => clients = <<>>)
  /\ clients' = Append(clients, NewClient)
  /\ effectDue' = env.autoInit
  /\ ui' = IF clients = <<>> THEN NewUi(env.autoInit) ELSE ui
  /\ UNCHANGED <<env, print, stored, calls, sent, overlapped>>

(* The page is reloaded; only the browser's storage remains.                 *)
Reload ==
  /\ clients # <<>> /\ clients' = <<>> /\ effectDue' = FALSE
  /\ ui' = NewUi(FALSE) /\ calls' = [c \in Calls |-> NoCall]
  /\ UNCHANGED <<env, print, stored, sent, overlapped>>

(* The window moves to another screen, the language changes, ...             *)
PrintChanges ==
  /\ print' \in Prints \ {print}
  /\ UNCHANGED <<env, stored, clients, effectDue, ui, calls, sent, overlapped>>

(* examples/App.tsx: what LicenseProtection lets its user do.                *)
HandleUnlock_Eager(c) == Ready /\ ui.isInitialized   \* seeded fault
  /\ ~ui.isAuthenticated /\ Begin(c, "unlock") /\ UNCHANGED effectDue
HandleUnlock(c) ==
  /\ Ready /\ ui.isInitialized /\ ~ui.isAuthenticated /\ ~ui.isLoading
  /\ Begin(c, "unlock") /\ UNCHANGED effectDue
LicenseProtection ==
  \/ \E c \in Calls : HandleUnlock(c)
  \/ ui.isInitialized /\ ui.isAuthenticated /\ Logout

AnyComponent ==
  \/ \E c \in Calls : InitAgain(c) \/ LoginWithLicense(c)
                      \/ LoginWithCredentials(c) \/ GetVariable(c)
  \/ Logout

Settles(c) == DigestSettles(c) \/ HandshakeSettles(c) \/ AuthenticateSettles(c)
              \/ VariableSettles(c)

Next == \/ Render \/ Reload \/ PrintChanges
        \/ env.example /\ LicenseProtection
        \/ ~env.example /\ AnyComponent
        \/ \E c \in Calls : InitEffect(c) \/ Settles(c)

(* The browser runs pending effects and ends every fetch and digest.         *)
Fairness == /\ \A c \in Calls : WF_vars(Settles(c))
            /\ WF_vars(\E c \in Calls : InitEffect(c))

Spec == Init /\ [][Next]_vars /\ Fairness
-----------------------------------------------------------------------------
(* PROPERTIES *)

(* volqAuth.tsx sets isLoading before and clears it after every init and     *)
(* login, on every path: it goes off again, whatever fails and whatever else *)
(* is started, and is never left on with nothing in progress.                *)
LoadingEnds == ui.isLoading ~> ~ui.isLoading

(* A session id or token reaches the client object that asked for it, however*)
(* many objects the provider has made since: a token of one application is   *)
(* never presented for another.                                              *)
GrantsReachTheirClient ==
  \A k \in 1 .. Len(clients) : /\ clients[k].sessionId \in {None, k}
                               /\ clients[k].sessionToken \in {None, k}

(* What the provider shows follows the client objects, which hold the token  *)
(* that is used: a token in use is shown as signed in, a token shown is held *)
(* by its client, and while the props never change both are the same.        *)
ProviderFollowsClient ==
  /\ ui.isAuthenticated <=> ui.sessionToken # None
  /\ ui.sessionToken # None => /\ ui.sessionToken \in 1 .. Current
                               /\ clients[ui.sessionToken].sessionToken # None
  /\ Current > 0 /\ clients[Current].sessionToken # None => ui.isAuthenticated
  /\ Current = 1 => ui.sessionToken = clients[1].sessionToken

(* With a storage that works, one browser presents, shows and keeps a single *)
(* identity through reloads, new client objects and changes of screen, unless*)
(* two computations of different fingerprints overlapped.                    *)
Identities == (sent \cup {stored, ui.hwid}
               \cup {clients[k].cachedHwid : k \in 1 .. Len(clients)}) \ {None}
OneIdentity ==
  env.storage /\ ~overlapped => \A x, y \in Identities : x = y

(* Used as the example does, the provider has one login at a time and none   *)
(* while signed in, so that no late answer signs in again after logout.      *)
ExampleIsQuiet ==
  env.example =>
    \A c, d \in Calls :
      /\ ~Idle(c) /\ ~Idle(d) /\ c # d
           => "variable" \in {calls[c].pc, calls[d].pc}
      /\ ui.isAuthenticated /\ ~Idle(c) => calls[c].pc = "variable"
=============================================================================
