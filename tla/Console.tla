------------------------------ MODULE Console -------------------------------
(* One browser tab of the console: AuthProvider (lib/authContext.tsx), the   *)
(* API client (lib/api.ts), the mounted page, the localStorage it shares     *)
(* with another tab, the requests in flight and the server's applications.   *)
(* One action is one task of the event loop.  A handler that awaits goes on  *)
(* with what it captured when it was rendered: the selected application and  *)
(* filters of that moment, kept in the request.                              *)
EXTENDS ConsolePages, Integers, Sequences, FiniteSets

CONSTANTS
  Accounts, AppIds, Filters, Searches, None,
  Starts,      \* who may own which application when the tab is opened
  MaxClicks,   \* things the user does, in either tab
  MaxCalls     \* requests in flight when the user does the next one

ASSUME BoundsType == MaxClicks \in Nat /\ MaxCalls \in Nat \ {0}
ASSUME StartsType == Starts \subseteq [AppIds -> Accounts \cup {None}]
ASSUME FiltersType == "all" \in Filters /\ "" \in Searches
ASSUME NoneType == None \notin Pages

VARIABLES
  server,    \* per application: owner, live, and the settings below
  storage,   \* localStorage: whose token, and the selected application's id
  ctx,       \* AuthProvider, and the page the tab is about to load
  view,      \* the mounted page
  calls,     \* requests in flight, the oldest first
  clicks,
  crossed    \* history: another account signed in over what this tab holds

vars == <<server, storage, ctx, view, calls, clicks, crossed>>

Settings == [paused : BOOLEAN, webhook : BOOLEAN, download : BOOLEAN]
Copies   == [paused : BOOLEAN, webhook : BOOLEAN]
Lists    == UNION {[S -> Copies] : S \in SUBSET AppIds}
Some(S)  == S \cup {None}

(* What a list is asked for.                                                 *)
Questions == [app : AppIds, filter : Filters, search : Searches]
Asks(c, v) == IF c.selected = None THEN None
              ELSE [app |-> c.selected.id, filter |-> v.filter, search |-> v.search]

AppEdits == {"createApp", "pause", "deleteApp", "webhook"}
Forms    == DOMAIN FormOf
Gots     == {"none", "read", "ok", "error", "401"}   \* read: the server has the row
Ops      == Forms \cup AppEdits \cup {"list", "edit", "refresh"}

TypeOK ==
  /\ server \in [AppIds -> [owner : Some(Accounts), live : BOOLEAN, set : Settings]]
  /\ storage \in [token : Some(Accounts), app : Some(AppIds)]
  /\ /\ ctx.user \in Some(Accounts) /\ ctx.apps \in Lists
     /\ ctx.selected \in Some([id : AppIds, webhook : BOOLEAN, listed : BOOLEAN])
     /\ ctx.isLoading \in BOOLEAN /\ ctx.leaving \in Some(Pages)
  /\ /\ view.page \in Pages /\ view.shown \in Some(Questions)
     /\ view.filter \in Filters /\ view.search \in Searches
     /\ view.dialog \in Some(PageOf[view.page].forms)
     /\ view.filled \subseteq PageOf[view.page].forms
     /\ {view.busy, view.fetching, view.result, view.stale} \subseteq BOOLEAN
  /\ \A i \in DOMAIN calls :
       /\ calls[i].op \in Ops /\ calls[i].as \in Some(Accounts)
       /\ calls[i].of \in Some(Questions) /\ calls[i].by \in {"page", "left", "gone"}
       /\ calls[i].then \in {"none", "loading", "busy"} /\ calls[i].more \in 0 .. 3
       /\ calls[i].app \in Some(AppIds) /\ calls[i].paused \in BOOLEAN
       /\ calls[i].got \in Gots /\ calls[i].list \in Lists
-----------------------------------------------------------------------------
(* A request goes out with the token localStorage holds at that moment, and  *)
(* carries what its handler captured: the question of that render.           *)
Request(op) ==
  [op |-> op, as |-> storage'.token, of |-> Asks(ctx, view), by |-> "page",
   then |-> "none", more |-> PageOf[view.page].requests, app |-> None,
   paused |-> FALSE, got |-> "none", list |-> <<>>]

ListOf(question, requests, by) ==
  [Request("list") EXCEPT !.of = question, !.more = requests, !.by = by]

RefreshApps(closure, then, by) ==
  [Request("refresh") EXCEPT !.of = closure, !.then = then, !.by = by, !.more = 0]

NewView(page) ==
  [page |-> page, shown |-> None, filter |-> "all", search |-> "", dialog |-> None,
   filled |-> {f \in PageOf[page].forms : FormOf[f].filled}, busy |-> FALSE,
   fetching |-> FALSE, result |-> FALSE, stale |-> FALSE]

(* The tab commits context c and page v with the requests cs in flight; when *)
(* something the page's effect depends on has changed, the effect runs.      *)
Commit(c, v, cs, changed) ==
  /\ ctx' = c
  /\ IF ~changed \/ c.selected = None \/ ~Following(v.page)
     THEN view' = v /\ calls' = cs
     ELSE IF Fetching(v.page)
     THEN /\ view' = [v EXCEPT !.fetching = PageOf[v.page].spinner]
          /\ calls' = Append(cs, ListOf(Asks(c, v), PageOf[v.page].requests, "page"))
     ELSE /\ view' = [v EXCEPT !.shown = Asks(c, v), !.filled =
                        IF c.selected.webhook THEN {"webhook"} ELSE {}]
          /\ calls' = cs

(* Leaving a page by a link: its requests go on without it.  Loading a page: *)
(* nobody is left to read the answers, but the server may still act.         *)
Left(cs) == [i \in DOMAIN cs |-> [cs[i] EXCEPT !.by = "left"]]
Unread(call) == call.op \in AppEdits /\ call.got \in {"none", "read"}
Gone(cs) ==
  LET kept   == {i \in DOMAIN cs : Unread(cs[i])}
      nth(n) == CHOOSE i \in kept : Cardinality({j \in kept : j <= i}) = n
  IN [n \in 1 .. Cardinality(kept) |-> [cs[nth(n)] EXCEPT !.by = "gone"]]

(* AuthProvider's effect: a stored session is taken over, and its            *)
(* applications are fetched.                                                 *)
FreshContext ==
  [user |-> storage'.token, apps |-> <<>>, selected |-> None,
   isLoading |-> storage'.token # None, leaving |-> None]
Load(page, cs) ==
  /\ ctx' = FreshContext /\ view' = NewView(page) /\ crossed' = FALSE
  /\ calls' = IF storage'.token = None THEN cs
              ELSE Append(cs, RefreshApps(None, "loading", "left"))

Init ==
  /\ \E owner \in Starts : server =
       [a \in AppIds |-> [owner |-> owner[a], live |-> owner[a] # None,
         set |-> [paused |-> FALSE, webhook |-> TRUE, download |-> TRUE]]]
  /\ storage \in [token : Some(Accounts), app : Some(AppIds)]
  /\ view \in {NewView(page) : page \in Pages}
  /\ ctx = [user |-> None, apps |-> <<>>, selected |-> None, isLoading |-> FALSE,
            leaving |-> view.page]
  /\ calls = <<>> /\ clicks = 0 /\ crossed = FALSE
-----------------------------------------------------------------------------
(* What the user can reach: the home page shows its content to a user whose  *)
(* session is known; an open dialog covers the page.                         *)
Shown == view.page # "home" \/ (~ctx.isLoading /\ ctx.user # None)
Can   == /\ clicks < MaxClicks /\ Len(calls) < MaxCalls
         /\ ctx.leaving = None /\ Shown /\ clicks' = clicks + 1
Click == Can /\ view.dialog = None /\ UNCHANGED <<server, crossed>>
Framed == view.page # "login"   \* by the Sidebar and the TopNav
Sends(call) == calls' = Append(calls, call)

(* The Sidebar's links.                                                      *)
Navigate(page) ==
  /\ Click /\ Framed /\ page \in Linked \ {view.page} /\ UNCHANGED storage
  /\ Commit(ctx, NewView(page), Left(calls), TRUE)

Reload ==
  /\ Can /\ UNCHANGED <<server, storage>> /\ Load(view.page, Gone(calls))

Logout ==
  /\ Click /\ Framed /\ storage' = [token |-> None, app |-> None]
  /\ ctx' = [ctx EXCEPT !.user = None, !.apps = <<>>, !.selected = None,
                        !.leaving = "login"]
  /\ UNCHANGED <<view, calls>>

(* setSelectedApp, from the TopNav or a row of the applications page.        *)
AppObject(apps, id) == [id |-> id, webhook |-> apps[id].webhook, listed |-> TRUE]
Select(id) ==
  /\ Click /\ Framed /\ id \in DOMAIN ctx.apps
  /\ storage' = [storage EXCEPT !.app = id]
  /\ LET app == AppObject(ctx.apps, id)
     IN Commit([ctx EXCEPT !.selected = app], view, calls, ctx.selected # app)

Narrow(dep, v) ==
  /\ Click /\ UNCHANGED storage /\ v # view
  /\ Commit(ctx, v, calls, dep \in PageOf[view.page].deps)
SetFilter(filter) ==
  view.page = "licenses" /\ Narrow("filter", [view EXCEPT !.filter = filter])
SetSearch(search) ==
  /\ view.page \in {"licenses", "users"}
  /\ Narrow("search", [view EXCEPT !.search = search])

RefreshLogs ==
  /\ Click /\ view.page = "logs" /\ ~view.fetching /\ ctx.selected # None
  /\ view' = [view EXCEPT !.fetching = TRUE]
  /\ UNCHANGED <<storage, ctx>> /\ Sends(Request("list"))

(* The buttons of a row; a page without a list has no rows.                  *)
EditRow ==
  /\ Click /\ PageOf[view.page].rows # {} /\ view.shown # None
  /\ UNCHANGED <<storage, ctx, view>> /\ Sends(Request("edit"))
EditApp(call) ==
  /\ Click /\ view.page = "apps" /\ UNCHANGED <<storage, ctx, view>> /\ Sends(call)
TogglePauseApp(id) ==
  /\ id \in DOMAIN ctx.apps
  /\ EditApp([Request("pause") EXCEPT !.app = id, !.paused = ~ctx.apps[id].paused])
DeleteApp(id) ==
  id \in DOMAIN ctx.apps /\ EditApp([Request("deleteApp") EXCEPT !.app = id])
-----------------------------------------------------------------------------
(* Dialogs and forms.                                                        *)
Edits(v) == view' = v /\ UNCHANGED <<server, storage, ctx, calls, crossed>>
Displayed(form) ==   \* its fields and its submit button, not a result
  /\ form \in PageOf[view.page].forms
  /\ FormOf[form].dialog => view.dialog = form
  /\ FormOf[form].result => ~view.result

OpenDialog(form) ==
  /\ Click /\ form \in PageOf[view.page].forms /\ FormOf[form].dialog
  /\ form = "credits" => view.shown # None
  /\ Edits([view EXCEPT !.dialog = form, !.result = @ /\ form # "createApp"])
CloseDialog ==   \* also 1.5 s after a secret was copied; the delay is left out
  Can /\ view.dialog # None /\ Edits([view EXCEPT !.dialog = None])
Done ==
  /\ Can /\ view.dialog = "generate" /\ view.result
  /\ Edits([view EXCEPT !.dialog = None, !.result = FALSE])
Fill(form) ==   \* typing takes no click
  /\ clicks < MaxClicks /\ ctx.leaving = None /\ Shown /\ UNCHANGED clicks
  /\ Displayed(form) /\ form \notin view.filled
  /\ Edits([view EXCEPT !.filled = @ \cup {form}])

Submit_Enabled(form) ==   \* seeded fault
  /\ Can /\ Displayed(form) /\ form \in view.filled /\ form # "login"
  /\ form = "createApp" \/ ctx.selected # None
  /\ view' = [view EXCEPT !.busy = TRUE] /\ UNCHANGED <<server, storage, ctx, crossed>>
  /\ Sends([Request(form) EXCEPT !.app =
              IF form = "createApp" THEN None ELSE ctx.selected.id])
Submit(form) ==
  /\ Can /\ Displayed(form) /\ form \in view.filled /\ form # "login" /\ ~view.busy
  /\ form = "createApp" \/ ctx.selected # None
  /\ view' = [view EXCEPT !.busy = TRUE] /\ UNCHANGED <<server, storage, ctx, crossed>>
  /\ Sends([Request(form) EXCEPT !.app =
              IF form = "createApp" THEN None ELSE ctx.selected.id])
SubmitLogin(account) ==   \* to sign in or to register as account
  /\ Can /\ Displayed("login") /\ "login" \in view.filled /\ ~view.busy
  /\ view' = [view EXCEPT !.busy = TRUE] /\ UNCHANGED <<server, storage, ctx, crossed>>
  /\ Sends([Request("login") EXCEPT !.as = account])

(* Another tab of the same browser.                                          *)
OtherTab ==
  /\ Can /\ UNCHANGED <<server, ctx, view, calls>>
  /\ \/ \E account \in Accounts :
          /\ storage' = [storage EXCEPT !.token = account]
          /\ crossed' = (crossed \/ account # ctx.user)
     \/ storage' = [token |-> None, app |-> None] /\ UNCHANGED crossed
     \/ \E id \in AppIds : /\ storage' = [storage EXCEPT !.app = id]
                           /\ storage.token # None /\ UNCHANGED crossed
-----------------------------------------------------------------------------
(* The server: dashboard_handler.go.                                         *)
Without(i) == SubSeq(calls, 1, i - 1) \o SubSeq(calls, i + 1, Len(calls))

(* UpdateApp reads the row, takes the pause flag from the request if that    *)
(* names it,                                                                 *)
ReadRow(i) ==
  LET call == calls[i] IN
  /\ call.op \in {"pause", "webhook"} /\ call.got = "none" /\ call.as # None
  /\ call.app \in AppIds /\ server[call.app].live
  /\ calls' = [calls EXCEPT ![i].got = "read", ![i].paused =
                 IF call.op = "pause" THEN @ ELSE server[call.app].set.paused]
  /\ UNCHANGED <<server, storage, ctx, view, clicks, crossed>>

(* and writes all its columns, the download address and the webhook always.  *)
(* A row that is gone by then, like one that is deleted twice, stays gone.   *)
UpdateApp(call) ==
  /\ call.got = "read"
  /\ server' = [server EXCEPT ![call.app].set = IF ~server[call.app].live THEN @ ELSE
       [paused |-> call.paused, webhook |-> call.op = "webhook", download |-> FALSE]]
DeleteAppRow(call) == server' = [server EXCEPT ![call.app].live = FALSE]
CreateApp(call) ==   \* the ids that AppIds holds bound the creations
  \E a \in AppIds, webhook \in BOOLEAN :
    /\ server[a].owner = None
    /\ server' = [server EXCEPT ![a] =
         [owner |-> call.as, live |-> TRUE,
          set |-> [paused |-> FALSE, webhook |-> webhook, download |-> TRUE]]]

Carried(call) ==
  /\ call.as # None
  /\ \/ call.op \in {"pause", "webhook"} /\ UpdateApp(call)
     \/ call.op = "deleteApp" /\ DeleteAppRow(call)
     \/ call.op = "createApp" /\ CreateApp(call)
     \/ call.op = "refresh" /\ UNCHANGED server

ListApps(account) ==
  LET owned == {a \in AppIds : server[a].live /\ server[a].owner = account}
  IN [a \in owned |-> [paused |-> server[a].set.paused, webhook |-> server[a].set.webhook]]

Answered(i, got, list) ==
  calls' = IF calls[i].by = "gone" THEN Without(i)
           ELSE [calls EXCEPT ![i].got = got, ![i].list = list]

(* A request is carried out and answered, or its answer is lost; or it is    *)
(* refused, for its token or for anything else.                              *)
Serve(i) ==
  LET call == calls[i] IN
  /\ Unread(call) \/ (call.op = "refresh" /\ call.got = "none")
  /\ \/ Carried(call) /\ \E got \in {"ok", "error"} : Answered(i, got,
            IF call.op = "refresh" /\ got = "ok" THEN ListApps(call.as) ELSE <<>>)
     \/ UNCHANGED server /\ call.got = "none" /\ Answered(i, "401", <<>>)
     \/ UNCHANGED server /\ Answered(i, "error", <<>>)
  /\ UNCHANGED <<storage, ctx, view, clicks, crossed>>
-----------------------------------------------------------------------------
(* The answers, as the tab takes them.                                       *)
Outcomes(call) ==
  IF call.op \in AppEdits \cup {"refresh"} THEN {call.got} \ {"none", "read"}
  ELSE {"error", "401"} \cup IF call.as = None THEN {} ELSE {"ok"}

Holds(call) == call.op \in Forms \/ call.then = "busy"   \* the form's loading flag
Ends_NoFinally(call, v) ==   \* seeded fault
  IF call.by # "page" THEN v ELSE [v EXCEPT !.fetching = @ /\ call.op # "list"]
Ends(call, v) ==   \* the finally blocks of the page that sent it
  IF call.by # "page" THEN v
  ELSE [v EXCEPT !.busy = @ /\ ~Holds(call), !.fetching = @ /\ call.op # "list"]

(* A failure is logged or shown.  The API client signs out on a 401.         *)
Fail(i) ==
  LET call == calls[i] IN
  \E got \in Outcomes(call) \ {"ok"} :
    LET out == got = "401" /\ view.page # "login" IN
    /\ storage' = IF out THEN [storage EXCEPT !.token = None] ELSE storage
    /\ ctx' = [ctx EXCEPT !.leaving = IF out THEN "login" ELSE @,
                          !.isLoading = @ /\ call.then # "loading"]
    /\ view' = [Ends(call, view) EXCEPT !.stale =
                  @ \/ (call.op = "list" /\ call.by = "page")]
    /\ calls' = Without(i) /\ UNCHANGED <<server, clicks, crossed>>

Succeeds(i, op) == calls[i].op = op /\ "ok" \in Outcomes(calls[i])

(* fetchAppStats makes one request after the other; only the last one's      *)
(* answer, like that of the other lists, is displayed.                       *)
ListAnswered(i) ==
  LET call == calls[i] IN
  /\ Succeeds(i, "list") /\ UNCHANGED <<server, storage, ctx, clicks, crossed>>
  /\ IF call.more > 1
     THEN view' = view /\ calls' = Append(Without(i), ListOf(call.of, call.more - 1, call.by))
     ELSE /\ calls' = Without(i)
          /\ view' = IF call.by # "page" THEN view
                     ELSE [Ends(call, view) EXCEPT !.shown = call.of,
                             !.stale = call.of # Asks(ctx, view)]

(* The list is fetched again with the question of the render that sent the   *)
(* order, whatever is selected by now.                                       *)
FetchAgain(i, v) ==
  LET call == calls[i] IN
  /\ UNCHANGED <<server, storage, ctx, clicks, crossed>>
  /\ calls' = Append(Without(i), ListOf(call.of, call.more, call.by))
  /\ view' = [v EXCEPT !.fetching = @ \/ (call.by = "page" /\ PageOf[v.page].spinner)]

RowAnswered(i) == Succeeds(i, "edit") /\ FetchAgain(i, view)
FormAnswered(i, form) ==
  LET did == FormOf[form]
      v   == [Ends(calls[i], view) EXCEPT
                !.result = @ \/ did.result,
                !.dialog = IF did.closes /\ @ = form THEN None ELSE @,
                !.filled = IF did.emptied THEN @ \ {form} ELSE @] IN
  /\ form \notin {"login", "createApp", "webhook"} /\ Succeeds(i, form)
  /\ FetchAgain(i, IF calls[i].by = "page" THEN v ELSE view)

(* The operations on applications end with refreshApps.                      *)
AppAnswered(i) ==
  LET call == calls[i] IN
  /\ \E op \in AppEdits : Succeeds(i, op)
  /\ UNCHANGED <<server, storage, ctx, clicks, crossed>>
  /\ calls' = Append(Without(i), RefreshApps(call.of,
                 IF call.op \in Forms THEN "busy" ELSE "none", call.by))
  /\ view' = [view EXCEPT !.result = @ \/ (call.op = "createApp" /\ call.by = "page")]

(* refreshApps: the stored selection, else the first application if nothing  *)
(* was selected when it was called, else no change.                          *)
AppsAnswered(i) ==
  LET call == calls[i]
      apps == call.list
      c    == [ctx EXCEPT !.apps = apps, !.isLoading = @ /\ call.then # "loading"]
      Take(id) == /\ storage' = [storage EXCEPT !.app = id]
                  /\ Commit([c EXCEPT !.selected = AppObject(apps, id)],
                            Ends(call, view), Without(i), TRUE) IN
  /\ Succeeds(i, "refresh") /\ UNCHANGED <<server, clicks, crossed>>
  /\ \/ storage.app \in DOMAIN apps /\ Take(storage.app)
     \/ /\ storage.app \notin DOMAIN apps /\ call.of = None
        /\ \E id \in DOMAIN apps : Take(id)
     \/ /\ storage.app \notin DOMAIN apps /\ (call.of # None \/ apps = <<>>)
        /\ Commit([c EXCEPT !.selected =
                     IF @ = None THEN None ELSE [@ EXCEPT !.listed = FALSE]],
                  Ends(call, view), Without(i), FALSE)
        /\ UNCHANGED storage

(* login() of AuthProvider, then router.push('/').                           *)
LoginAnswered(i) ==
  LET account == calls[i].as IN
  /\ Succeeds(i, "login") /\ UNCHANGED <<server, clicks>>
  /\ storage' = [storage EXCEPT !.token = account]
  /\ crossed' = (crossed \/ ctx.user \notin {None, account})
  /\ Commit([ctx EXCEPT !.user = account], NewView("home"),
            Append(Left(Without(i)), RefreshApps(calls[i].of, "none", "left")), TRUE)

Settle(i) ==
  \/ ReadRow(i) \/ Serve(i) \/ Fail(i) \/ ListAnswered(i) \/ RowAnswered(i)
  \/ \E form \in Forms : FormAnswered(i, form)
  \/ AppAnswered(i) \/ AppsAnswered(i) \/ LoginAnswered(i)
-----------------------------------------------------------------------------
(* The home page sends a user it does not know to the login page.            *)
Redirect ==
  /\ view.page = "home" /\ ~ctx.isLoading /\ ctx.user = None
  /\ Commit(ctx, NewView("login"), Left(calls), TRUE)
  /\ UNCHANGED <<server, storage, clicks, crossed>>

(* window.location.href = '/login' takes effect; or the tab is opened.       *)
Unload_Push ==   \* seeded fault
  /\ ctx.leaving # None /\ UNCHANGED <<server, storage, clicks, crossed>>
  /\ Commit([ctx EXCEPT !.leaving = None], NewView("login"), Left(calls), TRUE)
Unload ==
  /\ ctx.leaving # None /\ UNCHANGED <<server, storage, clicks>>
  /\ Load(ctx.leaving, Gone(calls))

User ==
  \/ \E page \in Pages : Navigate(page)
  \/ Reload \/ Logout \/ OtherTab \/ RefreshLogs \/ EditRow
  \/ \E id \in AppIds : Select(id) \/ TogglePauseApp(id) \/ DeleteApp(id)
  \/ \E filter \in Filters : SetFilter(filter)
  \/ \E search \in Searches : SetSearch(search)
  \/ \E form \in Forms : OpenDialog(form) \/ Fill(form) \/ Submit(form)
  \/ CloseDialog \/ Done
  \/ \E account \in Accounts : SubmitLogin(account)

Next == User \/ Redirect \/ Unload \/ \E i \in DOMAIN calls : Settle(i)

(* The network and the server answer the oldest request, one way or another; *)
(* the browser follows redirects.                                            *)
Fairness == /\ WF_vars(calls # <<>> /\ Settle(1))
            /\ WF_vars(Redirect) /\ WF_vars(Unload)

Spec == Init /\ [][Next]_vars /\ Fairness
-----------------------------------------------------------------------------
(* PROPERTIES *)

(* The effects of the pages (licenses/page.tsx:36-40 and its like) fetch     *)
(* what the selection, the filter and the search ask for, and the webhook    *)
(* form follows the selection: when no list request of the page is in        *)
(* flight, what is displayed answers the present question.  The code does    *)
(* not guard against answers that arrive out of order, against a list        *)
(* fetched again with an old question, or against a failed request: stale    *)
(* says that one of these came last.                                         *)
ShownIsSelected ==
  LET listing == {i \in DOMAIN calls : calls[i].op = "list" /\ calls[i].by = "page"} IN
  Following(view.page) /\ ctx.selected # None /\ ~view.stale /\ listing = {}
    => view.shown = Asks(ctx, view)

(* A tab in which no other account has signed in over the first shows that   *)
(* account's applications only, through logouts, expired tokens and late     *)
(* answers (authContext.tsx:38-102, api.ts:33-46).                           *)
OneAccount ==
  ~crossed /\ ctx.leaving = None /\ ctx.user # None =>
    /\ \A a \in DOMAIN ctx.apps : server[a].owner = ctx.user
    /\ ctx.selected # None => server[ctx.selected.id].owner = ctx.user

(* The loading flag of a page and its disabled submit button: one order of   *)
(* the page at a time, the flag is set exactly while it is in progress, and  *)
(* no order is in progress behind the keys that an earlier one returned.     *)
OneOrder ==
  LET orders == {i \in DOMAIN calls : calls[i].by = "page" /\ Holds(calls[i])} IN
  /\ \A i, j \in orders : i = j
  /\ view.busy <=> orders # {}
  /\ view.result => \A i \in orders : calls[i].op = "refresh"

(* Whatever fails, the home page stops saying "Authenticating session..."    *)
(* (page.tsx:84-90) and a form that was submitted can be used again.         *)
SessionSettles ==
  /\ view.page = "home" /\ (ctx.isLoading \/ ctx.user = None)
       ~> ~(view.page = "home" /\ (ctx.isLoading \/ ctx.user = None))
  /\ view.busy ~> ~view.busy

(* docs/API_SPEC.md:98 says of PUT /dashboard/apps/:id "Update version,      *)
(* integrity hash, or pause state".  The console's callers name the pause    *)
(* flag (apps/page.tsx:54) or the webhook (webhooks/page.tsx:27) only: its   *)
(* calls should never change the other settings of an application.           *)
OnlyNamedSettings ==
  [][\A a \in AppIds : server[a].live =>
       /\ server'[a].set.download = server[a].set.download
       /\ server'[a].set.webhook # server[a].set.webhook =>
            \E i \in DOMAIN calls : calls[i].op = "webhook" /\ calls[i].app = a]_vars
=============================================================================
