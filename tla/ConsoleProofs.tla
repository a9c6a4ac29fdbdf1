---------------------------- MODULE ConsoleProofs ----------------------------
(* What one tab of the console keeps, for any number of accounts,            *)
(* applications, filters, clicks and requests in flight.                     *)
EXTENDS Console, SequenceTheorems, NaturalsInduction, FiniteSetTheorems, TLAPS

Server  == [AppIds -> [owner : Some(Accounts), live : BOOLEAN, set : Settings]]
Storage == [token : Some(Accounts), app : Some(AppIds)]
Call == [op : Ops, as : Some(Accounts), of : Some(Questions),
         by : {"page", "left", "gone"}, then : {"none", "loading", "busy"},
         more : 0 .. 3, app : Some(AppIds), paused : BOOLEAN,
         got : Gots, list : Lists]
Context == [user : Some(Accounts), apps : Lists,
            selected : Some([id : AppIds, webhook : BOOLEAN, listed : BOOLEAN]),
            isLoading : BOOLEAN, leaving : Some(Pages)]
View == [page : Pages, shown : Some(Questions), filter : Filters, search : Searches,
         dialog : Some(Forms), filled : SUBSET Forms, busy : BOOLEAN,
         fetching : BOOLEAN, result : BOOLEAN, stale : BOOLEAN]

(* A page that shows what the server answered has forms only whose results   *)
(* are shown that way.                                                       *)
ViewOK(v) ==
  /\ v \in View
  /\ v.dialog \in Some(PageOf[v.page].forms) /\ v.filled \subseteq PageOf[v.page].forms
  /\ v.result => \A f \in PageOf[v.page].forms : FormOf[f].result

(* The orders of the page, and its flags.                                    *)
IsOrder(e) == e.by = "page" /\ Holds(e)
OrdersOK(v, cs) ==
  /\ \A i, j \in DOMAIN cs : IsOrder(cs[i]) /\ IsOrder(cs[j]) => i = j
  /\ v.busy <=> \E i \in DOMAIN cs : IsOrder(cs[i])
  /\ \A i \in DOMAIN cs : IsOrder(cs[i]) =>
       /\ cs[i].op # "refresh" => cs[i].op \in PageOf[v.page].forms
       /\ v.result => cs[i].op = "refresh"

(* What is displayed answers the present question.                           *)
Listing(e) == e.op = "list" /\ e.by = "page"
ShownOK(c, v, cs) ==
  (/\ Following(v.page) /\ c.selected # None /\ ~v.stale
   /\ \A i \in DOMAIN cs : ~Listing(cs[i]))
    => v.shown = Asks(c, v)

(* A list of applications holds those of the account it was asked for with.  *)
ListOK(sv, e) ==
  e.op = "refresh" /\ e.got = "ok" =>
    e.as # None /\ \A a \in DOMAIN e.list : sv[a].owner = e.as

(* One account: the stored token, the lists asked for and the applications   *)
(* held are of the user, or of nobody.                                       *)
AccountOK(sv, st, c, cs, x) ==
  /\ \A i \in DOMAIN cs : ListOK(sv, cs[i])
  /\ ~x /\ c.leaving = None =>
       /\ st.token \in {None, c.user}
       /\ \A i \in DOMAIN cs : cs[i].op = "refresh" => cs[i].as \in {None, c.user}
       /\ \A a \in DOMAIN c.apps : sv[a].owner = c.user /\ c.user # None
       /\ c.selected # None => sv[c.selected.id].owner = c.user /\ c.user # None

Typed == /\ server \in Server /\ storage \in Storage /\ ctx \in Context
         /\ ViewOK(view) /\ calls \in Seq(Call)

ConsoleInv == /\ Typed /\ OrdersOK(view, calls) /\ ShownOK(ctx, view, calls)
              /\ AccountOK(server, storage, ctx, calls, crossed)
-----------------------------------------------------------------------------
(* SEQUENCES OF REQUESTS *)

(* The place in cs of the element j of cs without its element i.             *)
At(j, i) == IF j < i THEN j ELSE j + 1
Drop(cs, i) == SubSeq(cs, 1, i - 1) \o SubSeq(cs, i + 1, Len(cs))

LEMMA DropFacts ==
  ASSUME NEW S, NEW cs \in Seq(S), NEW i \in DOMAIN cs
  PROVE  /\ Drop(cs, i) \in Seq(S) /\ DOMAIN Drop(cs, i) = 1 .. Len(cs) - 1
         /\ \A j \in DOMAIN Drop(cs, i) : /\ At(j, i) \in DOMAIN cs /\ At(j, i) # i
                                          /\ Drop(cs, i)[j] = cs[At(j, i)]
         /\ \A k \in DOMAIN cs \ {i} : \E j \in DOMAIN Drop(cs, i) : At(j, i) = k
<1>1. i \in 1 .. Len(cs) /\ Len(cs) \in Nat /\ DOMAIN cs = 1 .. Len(cs)
  OBVIOUS
<1> DEFINE a == SubSeq(cs, 1, i - 1)
           b == SubSeq(cs, i + 1, Len(cs))
<1>2. /\ a \in Seq(S) /\ Len(a) = i - 1 /\ \A j \in 1 .. i - 1 : a[j] = cs[j]
      /\ b \in Seq(S) /\ Len(b) = Len(cs) - i
      /\ \A j \in 1 .. Len(cs) - i : b[j] = cs[i + j]
  BY <1>1, SMTT(30)
<1> HIDE DEF a, b
<1>3. /\ a \o b \in Seq(S) /\ Len(a \o b) = Len(cs) - 1
      /\ \A j \in 1 .. Len(cs) - 1 :
           (a \o b)[j] = IF j < i THEN a[j] ELSE b[j - (i - 1)]
  <2>1. a \o b \in Seq(S) /\ Len(a \o b) = Len(a) + Len(b)
    BY <1>2, ConcatProperties
  <2>2. Len(a) + Len(b) = Len(cs) - 1
    BY <1>1, <1>2
  <2>3. \A j \in 1 .. Len(a) + Len(b) :
          (a \o b)[j] = IF j <= Len(a) THEN a[j] ELSE b[j - Len(a)]
    BY <1>2, ConcatProperties
  <2>4. \A j \in 1 .. Len(cs) - 1 : j <= i - 1 <=> j < i
    BY <1>1
  <2> QED
    BY <1>2, <2>1, <2>2, <2>3, <2>4
<1>4. Drop(cs, i) = a \o b
  BY DEF Drop, a, b
<1>5. DOMAIN (a \o b) = 1 .. Len(cs) - 1
  BY <1>3
<1>6. ASSUME NEW j \in 1 .. Len(cs) - 1
      PROVE  /\ At(j, i) \in 1 .. Len(cs) /\ At(j, i) # i
             /\ (a \o b)[j] = cs[At(j, i)]
  <2>1. CASE j < i
    BY <1>1, <1>2, <1>3, <2>1 DEF At
  <2>2. CASE ~(j < i)
    <3>1. j - (i - 1) \in 1 .. Len(cs) - i /\ i + (j - (i - 1)) = j + 1
      BY <1>1, <2>2
    <3>2. b[j - (i - 1)] = cs[j + 1]
      BY <1>2, <3>1
    <3>3. (a \o b)[j] = cs[j + 1]
      BY <1>3, <2>2, <3>2
    <3>4. At(j, i) = j + 1 /\ j + 1 \in 1 .. Len(cs) /\ j + 1 # i
      BY <1>1, <2>2 DEF At
    <3> QED
      BY <3>3, <3>4
  <2> QED
    BY <1>1, <2>1, <2>2
<1>7. ASSUME NEW k \in 1 .. Len(cs), k # i
      PROVE  \E j \in 1 .. Len(cs) - 1 : At(j, i) = k
  <2> DEFINE j == IF k < i THEN k ELSE k - 1
  <2>1. j \in 1 .. Len(cs) - 1 /\ At(j, i) = k
    BY <1>1, <1>7 DEF At
  <2> QED
    BY <2>1
<1> QED
  BY <1>1, <1>3, <1>4, <1>5, <1>6, <1>7, Zenon

LEMMA AtInjective ==
  ASSUME NEW i \in Int, NEW j \in Int, NEW k \in Int, At(j, i) = At(k, i)
  PROVE  j = k
BY DEF At

LEMMA AppendFacts ==
  ASSUME NEW S, NEW cs \in Seq(S), NEW e \in S
  PROVE  /\ Append(cs, e) \in Seq(S) /\ Len(cs) + 1 \in DOMAIN Append(cs, e)
         /\ Append(cs, e)[Len(cs) + 1] = e
         /\ \A j \in DOMAIN cs : j \in DOMAIN Append(cs, e) /\ Append(cs, e)[j] = cs[j]
                                 /\ j # Len(cs) + 1
         /\ \A j \in DOMAIN Append(cs, e) : j \in DOMAIN cs \/ j = Len(cs) + 1
OBVIOUS

(* The n-th of finitely many numbers, counted from the smallest.             *)
Nth(K, n) == CHOOSE i \in K : Cardinality({j \in K : j <= i}) = n

LEMMA LeastNatural ==
  ASSUME NEW N \in SUBSET Nat, N # {}
  PROVE  \E m \in N : \A k \in N : m <= k
<1>1. PICK m \in N : \A k \in N : <<k, m>> \notin OpToRel(<, Nat)
  BY WFMin, NatLessThanWellFounded, Zenon
<1>2. \A k \in N : ~(k < m)
  BY <1>1, Zenon DEF OpToRel
<1> QED
  BY <1>2

LEMMA NthFacts ==
  ASSUME NEW len \in Nat, NEW K \in SUBSET (1 .. len), NEW n \in 1 .. Cardinality(K)
  PROVE  Nth(K, n) \in K
<1> DEFINE upto(i) == {j \in K : j <= i}
           N == {i \in Nat : Cardinality(upto(i)) >= n}
<1>1. IsFiniteSet(K) /\ Cardinality(K) \in Nat 
      /\ \A j \in K : j \in Nat /\ j <= len /\ j >= 1
  <2>1. IsFiniteSet(1 .. len) /\ \A j \in K : j \in 1 .. len
    BY FS_Interval
  <2>2. IsFiniteSet(K)
    BY <2>1, FS_Subset
  <2> QED
    BY <2>1, <2>2, FS_CardinalityType
<1>2. ASSUME NEW i \in Nat PROVE IsFiniteSet(upto(i)) /\ Cardinality(upto(i)) \in Nat
  BY <1>1, FS_Subset, FS_CardinalityType
<1>3. upto(len) = K
  BY <1>1
<1>4. N \in SUBSET Nat /\ N # {}
  BY <1>1, <1>3
<1>5. PICK i \in N : \A k \in N : i <= k
  <2> HIDE DEF N
  <2> QED
    BY <1>4, LeastNatural
<1>6. Cardinality(upto(i)) >= n /\ i \in Nat
  BY <1>5
<1>7. i # 0
  <2>1. upto(0) = {}
    <3>1. \A j \in K : ~(j <= 0)
      BY <1>1
    <3> QED
      BY <3>1
  <2>2. Cardinality({}) = 0
    BY FS_EmptySet
  <2>3. 0 < n
    BY <1>1
  <2> HIDE DEF upto, N
  <2>4. CASE i = 0
    BY <1>6, <2>1, <2>2, <2>3, <2>4
  <2> QED
    BY <2>4
<1>8. Cardinality(upto(i - 1)) < n
  <2>1. i - 1 \in Nat /\ i - 1 \notin N
    <3>1. i - 1 \in Nat /\ ~(i <= i - 1)
      BY <1>6, <1>7
    <3> HIDE DEF N
    <3> QED
      BY <1>5, <3>1
  <2>2. Cardinality(upto(i - 1)) \in Nat
    BY <1>2, <2>1
  <2>3. ~(Cardinality(upto(i - 1)) >= n)
    BY <2>1
  <2> HIDE DEF upto, N
  <2> QED
    BY <1>1, <2>2, <2>3
<1>9. i \in K
  <2> SUFFICES ASSUME i \notin K PROVE FALSE
    OBVIOUS
  <2>1. upto(i) = upto(i - 1)
    <3>1. \A j \in K : j <= i <=> j <= i - 1
      BY <1>1, <1>6
    <3> QED
      BY <3>1
  <2>2. Cardinality(upto(i)) < n /\ Cardinality(upto(i)) \in Nat
    BY <1>2, <1>6, <1>8, <2>1
  <2> HIDE DEF upto
  <2> QED
    BY <1>1, <1>6, <2>2
<1>10. Cardinality(upto(i)) = n
  <2>1. upto(i) = upto(i - 1) \cup {i} /\ i \notin upto(i - 1) /\ i - 1 \in Nat
    <3>1. \A j \in K : j <= i <=> j <= i - 1 \/ j = i
      BY <1>1, <1>6
    <3>2. ~(i <= i - 1) /\ i - 1 \in Nat /\ i <= i
      BY <1>6, <1>7
    <3> QED
      BY <1>9, <3>1, <3>2
  <2>2. IsFiniteSet(upto(i - 1)) /\ Cardinality(upto(i - 1)) \in Nat
    BY <1>2, <2>1
  <2> HIDE DEF upto
  <2>3. Cardinality(upto(i)) = Cardinality(upto(i - 1)) + 1
    BY <2>1, <2>2, FS_AddElement
  <2> QED
    BY <1>1, <1>6, <1>8, <2>2, <2>3
<1> QED
  BY <1>9, <1>10 DEF Nth

(* Loading a page leaves the orders on applications that the server has yet  *)
(* to carry out, and nothing of the page.                                    *)
LEMMA GoneFacts ==
  ASSUME NEW cs \in Seq(Call)
  PROVE  /\ Gone(cs) \in Seq(Call)
         /\ \A n \in DOMAIN Gone(cs) :
              Gone(cs)[n].by = "gone" /\ Gone(cs)[n].op \in AppEdits
<1> DEFINE K == {i \in DOMAIN cs : Unread(cs[i])}
           item(n) == [cs[Nth(K, n)] EXCEPT !.by = "gone"]
<1>1. Len(cs) \in Nat /\ K \in SUBSET (1 .. Len(cs))
  OBVIOUS
<1>2. Cardinality(K) \in Nat
  <2>1. IsFiniteSet(1 .. Len(cs))
    BY <1>1, FS_Interval
  <2> HIDE DEF K
  <2>2. IsFiniteSet(K)
    BY <1>1, <2>1, FS_Subset
  <2> QED
    BY <2>2, FS_CardinalityType
<1>3. Gone(cs) = [n \in 1 .. Cardinality(K) |-> item(n)]
  BY DEF Gone, Nth
<1>4. ASSUME NEW n \in 1 .. Cardinality(K)
      PROVE  item(n) \in Call /\ item(n).by = "gone" /\ item(n).op \in AppEdits
  <2>1. Nth(K, n) \in K
    <3> HIDE DEF K
    <3> QED
      BY <1>1, NthFacts
  <2> DEFINE e == cs[Nth(K, n)]
  <2>2. e \in Call /\ e.op \in AppEdits
    BY <2>1 DEF Unread
  <2> HIDE DEF e, K
  <2>3. [e EXCEPT !.by = "gone"] \in Call
    BY <2>2 DEF Call
  <2>4. [e EXCEPT !.by = "gone"].by = "gone" /\ [e EXCEPT !.by = "gone"].op = e.op
    BY <2>2 DEF Call
  <2> QED
    BY <2>2, <2>3, <2>4 DEF e
<1> HIDE DEF K, item
<1> QED
  BY <1>2, <1>3, <1>4

LEMMA LeftFacts ==
  ASSUME NEW cs \in Seq(Call)
  PROVE  /\ Left(cs) \in Seq(Call) /\ DOMAIN Left(cs) = DOMAIN cs
         /\ \A i \in DOMAIN cs : /\ Left(cs)[i].by = "left" /\ Left(cs)[i].op = cs[i].op
                                 /\ Left(cs)[i].as = cs[i].as
                                 /\ Left(cs)[i].got = cs[i].got
                                 /\ Left(cs)[i].list = cs[i].list
<1>1. Left(cs) = [i \in DOMAIN cs |-> [cs[i] EXCEPT !.by = "left"]]
  BY DEF Left
<1>2. DOMAIN cs = 1 .. Len(cs) /\ Len(cs) \in Nat
  OBVIOUS
<1>3. ASSUME NEW i \in DOMAIN cs
      PROVE  /\ [cs[i] EXCEPT !.by = "left"] \in Call
             /\ Left(cs)[i].by = "left" /\ Left(cs)[i].op = cs[i].op
             /\ Left(cs)[i].as = cs[i].as /\ Left(cs)[i].got = cs[i].got
             /\ Left(cs)[i].list = cs[i].list
  <2> DEFINE e == cs[i]
  <2>1. e \in Call /\ Left(cs)[i] = [e EXCEPT !.by = "left"]
    BY <1>1
  <2> HIDE DEF e
  <2>2. /\ [e EXCEPT !.by = "left"] \in Call /\ Left(cs)[i].by = "left"
        /\ Left(cs)[i].op = e.op /\ Left(cs)[i].as = e.as
        /\ Left(cs)[i].got = e.got /\ Left(cs)[i].list = e.list
    BY <2>1 DEF Call
  <2> QED
    BY <2>2 DEF e
<1> QED
  BY <1>1, <1>2, <1>3
-----------------------------------------------------------------------------
(* THE PAGES *)

LEMMA PageNames ==
  Pages = {"login", "home", "apps", "licenses", "users", "variables", "files",
           "webhooks", "resellers", "logs", "docs"}
BY DEF Pages, PageOf

LEMMA FormNames ==
  Forms = {"login", "generate", "createApp", "variable", "file", "reseller",
           "credits", "webhook"}
BY DEF Forms, FormOf

(* Only the forms that order a batch and create an application show what the *)
(* server answered.                                                          *)
LEMMA FormFacts ==
  ASSUME NEW f \in Forms
  PROVE  /\ FormOf[f].result <=> f \in {"generate", "createApp"}
         /\ FormOf[f].result \in BOOLEAN /\ FormOf[f].closes \in BOOLEAN
         /\ FormOf[f].emptied \in BOOLEAN /\ FormOf[f].filled \in BOOLEAN
<1> DEFINE Ok(g, result) == /\ g.result = result /\ g.closes \in BOOLEAN
                            /\ g.emptied \in BOOLEAN /\ g.filled \in BOOLEAN
<1>1. /\ Ok(LoginForm, FALSE)
      /\ Ok(LicenseForm, TRUE)
      /\ Ok(AppForm, TRUE)
      /\ Ok(VariableForm, FALSE)
      /\ Ok(FileForm, FALSE)
      /\ Ok(ResellerForm, FALSE)
      /\ Ok(CreditsForm, FALSE)
      /\ Ok(WebhookForm, FALSE)
  BY DEF Form, LoginForm, LicenseForm, AppForm, VariableForm, FileForm, ResellerForm,
     CreditsForm, WebhookForm
<1>2. /\ FormOf["login"] = LoginForm
      /\ FormOf["generate"] = LicenseForm
      /\ FormOf["createApp"] = AppForm
      /\ FormOf["variable"] = VariableForm
      /\ FormOf["file"] = FileForm
      /\ FormOf["reseller"] = ResellerForm
      /\ FormOf["credits"] = CreditsForm
      /\ FormOf["webhook"] = WebhookForm
  BY DEF FormOf
<1>3. CASE f \in {"generate", "createApp"}
  <2>1. Ok(FormOf[f], TRUE)
    BY <1>1, <1>2, <1>3
  <2> QED
    BY <1>3, <2>1, Zenon
<1>4. CASE f \notin {"generate", "createApp"}
  <2>1. Ok(FormOf[f], FALSE)
    BY <1>1, <1>2, <1>4, FormNames
  <2> QED
    BY <1>4, <2>1, Zenon
<1> QED
  BY <1>3, <1>4

LEMMA PageFacts ==
  ASSUME NEW p \in Pages
  PROVE  /\ PageOf[p].forms \subseteq Forms /\ PageOf[p].requests \in 0 .. 3
         /\ PageOf[p].spinner \in BOOLEAN
         /\ "generate" \in PageOf[p].forms => PageOf[p].forms = {"generate"}
         /\ "createApp" \in PageOf[p].forms => PageOf[p].forms = {"createApp"}
<1> DEFINE Ok(q) == /\ q.forms \subseteq Forms /\ q.requests \in 0 .. 3
                    /\ q.spinner \in BOOLEAN
                    /\ "generate" \in q.forms => q.forms = {"generate"}
                    /\ "createApp" \in q.forms => q.forms = {"createApp"}
<1>1. Ok(LoginPage)
  BY FormNames DEF LoginPage, Page
<1>2. Ok(HomePage)
  BY FormNames DEF HomePage, Page
<1>3. Ok(AppsPage)
  BY FormNames DEF AppsPage, Page
<1>4. Ok(LicensesPage)
  BY FormNames DEF LicensesPage, Page
<1>5. Ok(UsersPage)
  BY FormNames DEF UsersPage, Page
<1>6. Ok(VariablesPage)
  BY FormNames DEF VariablesPage, Page
<1>7. Ok(FilesPage)
  BY FormNames DEF FilesPage, Page
<1>8. Ok(WebhooksPage)
  BY FormNames DEF WebhooksPage, Page
<1>9. Ok(ResellersPage)
  BY FormNames DEF ResellersPage, Page
<1>10. Ok(LogsPage)
  BY FormNames DEF LogsPage, Page
<1>11. Ok(DocsPage)
  BY FormNames DEF DocsPage, Page
<1>12. /\ PageOf["login"] = LoginPage
       /\ PageOf["home"] = HomePage
       /\ PageOf["apps"] = AppsPage
       /\ PageOf["licenses"] = LicensesPage
       /\ PageOf["users"] = UsersPage
       /\ PageOf["variables"] = VariablesPage
       /\ PageOf["files"] = FilesPage
       /\ PageOf["webhooks"] = WebhooksPage
       /\ PageOf["resellers"] = ResellersPage
       /\ PageOf["logs"] = LogsPage
       /\ PageOf["docs"] = DocsPage
  BY DEF PageOf
<1>13. Ok(PageOf[p])
  <2> HIDE DEF Ok
  <2> QED
    BY <1>1, <1>2, <1>3, <1>4, <1>5, <1>6, <1>7, <1>8, <1>9, <1>10, <1>11, <1>12,
       PageNames
<1> QED
  BY <1>13

LEMMA WebhooksPageFacts ==
  /\ "webhooks" \in Pages /\ "webhook" \in PageOf["webhooks"].forms
  /\ "apps" \in Pages /\ "createApp" \in PageOf["apps"].forms
  /\ "licenses" \in Pages /\ PageOf["licenses"].deps = {"filter", "search"}
  /\ "users" \in Pages /\ PageOf["users"].deps = {"search"}
BY PageNames DEF PageOf, WebhooksPage, AppsPage, LicensesPage, UsersPage, Page

(* A page with a form whose result is shown has only such forms.             *)
LEMMA ResultForms ==
  ASSUME NEW p \in Pages, NEW f \in PageOf[p].forms, FormOf[f].result
  PROVE  \A g \in PageOf[p].forms : FormOf[g].result
BY PageFacts, FormFacts
-----------------------------------------------------------------------------
(* THE ORDERS OF THE PAGE *)

LEMMA HoldsBoolean == ASSUME NEW e PROVE IsOrder(e) \in BOOLEAN
BY DEF IsOrder, Holds

(* Another request goes out.                                                 *)
LEMMA OrdersAppend ==
  ASSUME NEW cs \in Seq(Call), NEW e \in Call, NEW v, OrdersOK(v, cs), ~IsOrder(e)
  PROVE  OrdersOK(v, Append(cs, e))
<1> DEFINE a == Append(cs, e)
<1>1. /\ \A j \in DOMAIN cs : j \in DOMAIN a /\ a[j] = cs[j]
      /\ \A j \in DOMAIN a : IsOrder(a[j]) => j \in DOMAIN cs
  BY AppendFacts
<1> HIDE DEF a
<1> QED
  BY <1>1 DEF OrdersOK

(* Nothing that the flags are about changes.                                 *)
LEMMA OrdersView ==
  ASSUME NEW cs, NEW v, NEW w, OrdersOK(v, cs), w.page = v.page, w.busy = v.busy,
         w.result => v.result
  PROVE  OrdersOK(w, cs)
BY DEF OrdersOK

(* No order of the page is in progress.                                      *)
LEMMA OrdersNone ==
  ASSUME NEW cs, NEW v, v.busy = FALSE, \A i \in DOMAIN cs : ~IsOrder(cs[i])
  PROVE  OrdersOK(v, cs)
BY DEF OrdersOK

(* A request that is no order is answered.                                   *)
LEMMA OrdersDrop ==
  ASSUME NEW cs \in Seq(Call), NEW i \in DOMAIN cs, NEW v, OrdersOK(v, cs),
         ~IsOrder(cs[i])
  PROVE  OrdersOK(v, Drop(cs, i))
<1> DEFINE d == Drop(cs, i)
<1>1. /\ \A j \in DOMAIN d : At(j, i) \in DOMAIN cs /\ d[j] = cs[At(j, i)]
      /\ \A k \in DOMAIN cs \ {i} : \E j \in DOMAIN d : At(j, i) = k
      /\ DOMAIN d = 1 .. Len(cs) - 1
  BY DropFacts
<1>2. i \in Int /\ \A j \in DOMAIN d : j \in Int
  BY <1>1
<1> HIDE DEF d
<1>3. ASSUME NEW j \in DOMAIN d, NEW k \in DOMAIN d, IsOrder(d[j]), IsOrder(d[k])
      PROVE  j = k
  <2>1. At(j, i) = At(k, i)
    BY <1>1, <1>3 DEF OrdersOK
  <2> QED
    BY <1>2, <2>1, AtInjective
<1>4. (\E j \in DOMAIN d : IsOrder(d[j])) <=> \E k \in DOMAIN cs : IsOrder(cs[k])
  <2>1. ASSUME NEW k \in DOMAIN cs, IsOrder(cs[k])
        PROVE  \E j \in DOMAIN d : IsOrder(d[j])
    <3>1. k \in DOMAIN cs \ {i}
      BY <2>1
    <3>2. PICK j \in DOMAIN d : At(j, i) = k
      BY <1>1, <3>1
    <3> QED
      BY <1>1, <2>1, <3>2
  <2> QED
    BY <1>1, <2>1
<1>5. ASSUME NEW j \in DOMAIN d, IsOrder(d[j])
      PROVE  /\ d[j].op # "refresh" => d[j].op \in PageOf[v.page].forms
             /\ v.result => d[j].op = "refresh"
  BY <1>1, <1>5 DEF OrdersOK
<1>6. v.busy <=> \E j \in DOMAIN d : IsOrder(d[j])
  BY <1>4 DEF OrdersOK
<1>7. OrdersOK(v, d)
  BY <1>3, <1>5, <1>6 DEF OrdersOK
<1> QED
  BY <1>7 DEF d

(* The order is over: none is left.                                          *)
LEMMA OrdersOver ==
  ASSUME NEW cs \in Seq(Call), NEW i \in DOMAIN cs, NEW v, OrdersOK(v, cs), IsOrder(cs[i])
  PROVE  \A j \in DOMAIN Drop(cs, i) : ~IsOrder(Drop(cs, i)[j])
BY DropFacts DEF OrdersOK

(* The finally blocks, when the request i is answered.                       *)
LEMMA OrdersEnd ==
  ASSUME NEW cs \in Seq(Call), NEW i \in DOMAIN cs, NEW v \in View, OrdersOK(v, cs)
  PROVE  OrdersOK(Ends(cs[i], v), Drop(cs, i))
<1>1. /\ Ends(cs[i], v).page = v.page /\ Ends(cs[i], v).result = v.result
      /\ Ends(cs[i], v).busy = IF cs[i].by = "page" /\ Holds(cs[i]) THEN FALSE ELSE v.busy
  BY DEF Ends, View, Holds
<1> DEFINE w == Ends(cs[i], v)
<1>2. CASE IsOrder(cs[i])
  <2>1. w.busy = FALSE
    BY <1>1, <1>2 DEF IsOrder
  <2> HIDE DEF w
  <2>2. OrdersOK(w, Drop(cs, i))
    BY <1>2, <2>1, OrdersOver, OrdersNone
  <2> QED
    BY <2>2 DEF w
<1>3. CASE ~IsOrder(cs[i])
  <2>1. w.busy = v.busy /\ w.page = v.page /\ w.result = v.result
    BY <1>1, <1>3 DEF IsOrder
  <2>2. OrdersOK(v, Drop(cs, i))
    BY <1>3, OrdersDrop
  <2> HIDE DEF w
  <2>3. OrdersOK(w, Drop(cs, i))
    BY <2>1, <2>2, OrdersView
  <2> QED
    BY <2>3 DEF w
<1> QED
  BY <1>2, <1>3

(* The page orders something while its flag is off.                          *)
LEMMA OrdersNew ==
  ASSUME NEW cs \in Seq(Call), NEW e \in Call, NEW v, NEW w, OrdersOK(v, cs), ~v.busy,
         w.busy, IsOrder(e), w.result => e.op = "refresh",
         e.op # "refresh" => e.op \in PageOf[w.page].forms
  PROVE  OrdersOK(w, Append(cs, e))
<1> DEFINE a == Append(cs, e)
           n == Len(cs) + 1
<1>1. /\ n \in DOMAIN a /\ a[n] = e
      /\ \A j \in DOMAIN a : j \in DOMAIN cs \/ j = n
      /\ \A j \in DOMAIN cs : a[j] = cs[j]
  BY AppendFacts
<1> HIDE DEF a, n
<1>2. \A j \in DOMAIN a : IsOrder(a[j]) => j = n
  BY <1>1 DEF OrdersOK
<1>3. \A i, j \in DOMAIN a : IsOrder(a[i]) /\ IsOrder(a[j]) => i = j
  BY <1>2
<1>4. \E j \in DOMAIN a : IsOrder(a[j])
  BY <1>1
<1>5. \A j \in DOMAIN a : IsOrder(a[j]) =>
        /\ a[j].op # "refresh" => a[j].op \in PageOf[w.page].forms
        /\ w.result => a[j].op = "refresh"
  BY <1>1, <1>2
<1>6. OrdersOK(w, a)
  BY <1>3, <1>4, <1>5 DEF OrdersOK
<1> QED
  BY <1>6 DEF a

(* Requests in flight, not the view, change in what the flags are not about. *)
LEMMA OrdersSame ==
  ASSUME NEW cs, NEW ds, NEW v, OrdersOK(v, cs), DOMAIN ds = DOMAIN cs,
         \A i \in DOMAIN cs : /\ ds[i].op = cs[i].op /\ ds[i].by = cs[i].by
                              /\ ds[i].then = cs[i].then
  PROVE  OrdersOK(v, ds)
<1>1. \A i \in DOMAIN cs : IsOrder(ds[i]) <=> IsOrder(cs[i])
  BY DEF IsOrder, Holds
<1> QED
  BY <1>1 DEF OrdersOK
-----------------------------------------------------------------------------
(* A REQUEST AND A COMMIT *)

LEMMA EmptyLists == <<>> \in Lists /\ DOMAIN <<>> = {}
<1>1. {} \in SUBSET AppIds /\ <<>> \in [{} -> Copies]
  OBVIOUS
<1> QED
  BY <1>1 DEF Lists

LEMMA AsksType ==
  ASSUME NEW c \in Context, NEW v \in View
  PROVE  Asks(c, v) \in Some(Questions)
BY DEF Context, View, Some, Questions, Asks

LEMMA RequestType ==
  ASSUME Typed, storage' \in Storage, NEW op \in Ops
  PROVE  /\ Request(op) \in Call /\ Request(op).op = op /\ Request(op).by = "page"
         /\ Request(op).then = "none" /\ Request(op).as = storage'.token
         /\ Request(op).got = "none"
<1>1. /\ Asks(ctx, view) \in Some(Questions) /\ PageOf[view.page].requests \in 0 .. 3
      /\ storage'.token \in Some(Accounts) /\ None \in Some(AppIds) /\ <<>> \in Lists
  BY AsksType, PageFacts, EmptyLists DEF Typed, ViewOK, View, Storage, Some
<1> QED
  BY <1>1 DEF Gots, Request, Call

LEMMA ListOfType ==
  ASSUME Typed, storage' \in Storage, NEW question \in Some(Questions),
         NEW requests \in 0 .. 3, NEW by \in {"page", "left", "gone"}
  PROVE  /\ ListOf(question, requests, by) \in Call
         /\ ListOf(question, requests, by).op = "list"
         /\ ListOf(question, requests, by).by = by
         /\ ~IsOrder(ListOf(question, requests, by))
<1> DEFINE e == ListOf(question, requests, by)
<1>1. "list" \in Ops /\ "list" \notin Forms
  BY FormNames DEF Ops
<1>2. e \in Call /\ e.op = "list" /\ e.by = by /\ e.then = "none"
  <2> DEFINE r == Request("list")
  <2>1. r \in Call /\ r.op = "list" /\ r.then = "none"
    BY <1>1, RequestType
  <2>2. e = [r EXCEPT !.of = question, !.more = requests, !.by = by]
    BY DEF ListOf
  <2> HIDE DEF r, e
  <2> QED
    BY <2>1, <2>2 DEF Call
<1> HIDE DEF e
<1>3. ~Holds(e)
  BY <1>1, <1>2 DEF Holds
<1> QED
  BY <1>2, <1>3 DEF e, IsOrder

LEMMA RefreshAppsType ==
  ASSUME Typed, storage' \in Storage, NEW closure \in Some(Questions),
         NEW then \in {"none", "loading", "busy"}, NEW by \in {"page", "left", "gone"}
  PROVE  /\ RefreshApps(closure, then, by) \in Call
         /\ RefreshApps(closure, then, by).op = "refresh"
         /\ RefreshApps(closure, then, by).by = by
         /\ RefreshApps(closure, then, by).as = storage'.token
         /\ RefreshApps(closure, then, by).got = "none"
         /\ IsOrder(RefreshApps(closure, then, by)) <=> by = "page" /\ then = "busy"
<1> DEFINE e == RefreshApps(closure, then, by)
<1>1. "refresh" \in Ops /\ "refresh" \notin Forms
  BY FormNames DEF Ops
<1>2. /\ e \in Call /\ e.op = "refresh" /\ e.by = by /\ e.then = then
      /\ e.as = storage'.token /\ e.got = "none"
  <2> DEFINE r == Request("refresh")
  <2>1. r \in Call /\ r.op = "refresh" /\ r.as = storage'.token /\ r.got = "none"
    BY <1>1, RequestType
  <2>2. e = [r EXCEPT !.of = closure, !.then = then, !.by = by, !.more = 0]
    BY DEF RefreshApps
  <2>3. 0 \in 0 .. 3
    OBVIOUS
  <2> DEFINE more == 0
  <2> HIDE DEF r, e, more
  <2>4. e \in Call
    <3>1. e = [r EXCEPT !.of = closure, !.then = then, !.by = by, !.more = more]
      BY <2>2 DEF more
    <3>2. more \in 0 .. 3
      BY <2>3 DEF more
    <3> QED
      BY <2>1, <3>1, <3>2 DEF Call
  <2>5. /\ e.op = "refresh" /\ e.by = by /\ e.then = then
        /\ e.as = storage'.token /\ e.got = "none"
    BY <2>1, <2>2 DEF Call
  <2> QED
    BY <2>4, <2>5
<1> HIDE DEF e
<1>3. Holds(e) <=> then = "busy"
  BY <1>1, <1>2 DEF Holds
<1>4. IsOrder(e) <=> by = "page" /\ then = "busy"
  BY <1>2, <1>3 DEF IsOrder
<1> QED
  BY <1>2, <1>4 DEF e
-----------------------------------------------------------------------------
LEMMA ShownKept ==
  ASSUME NEW c, NEW v, NEW cs, NEW d, NEW w, NEW ds, ShownOK(c, v, cs),
         w.page = v.page, w.shown = v.shown, v.stale => w.stale,
         d.selected # None => c.selected # None /\ Asks(d, w) = Asks(c, v),
         (\A i \in DOMAIN ds : ~Listing(ds[i])) => \A i \in DOMAIN cs : ~Listing(cs[i])
  PROVE  ShownOK(d, w, ds)
BY DEF ShownOK

LEMMA ListingAppend ==
  ASSUME NEW cs \in Seq(Call), NEW e \in Call,
         \A i \in DOMAIN Append(cs, e) : ~Listing(Append(cs, e)[i])
  PROVE  ~Listing(e) /\ \A i \in DOMAIN cs : ~Listing(cs[i])
<1> DEFINE a == Append(cs, e)
<1>1. /\ \A j \in DOMAIN cs : j \in DOMAIN a /\ a[j] = cs[j]
      /\ \E n \in DOMAIN a : a[n] = e
  BY AppendFacts
<1> HIDE DEF a
<1>2. \A i \in DOMAIN a : ~Listing(a[i])
  BY DEF a
<1> QED
  BY <1>1, <1>2

LEMMA ListingDrop ==
  ASSUME NEW cs \in Seq(Call), NEW i \in DOMAIN cs, ~Listing(cs[i]),
         \A j \in DOMAIN Drop(cs, i) : ~Listing(Drop(cs, i)[j])
  PROVE  \A k \in DOMAIN cs : ~Listing(cs[k])
<1> DEFINE d == Drop(cs, i)
<1>1. /\ \A j \in DOMAIN d : At(j, i) \in DOMAIN cs /\ d[j] = cs[At(j, i)]
      /\ \A k \in DOMAIN cs \ {i} : \E j \in DOMAIN d : At(j, i) = k
  BY DropFacts
<1> HIDE DEF d
<1>2. \A j \in DOMAIN d : ~Listing(d[j])
  BY DEF d
<1> QED
  BY <1>1, <1>2

(* The effects of the page, after its context or its view has changed.       *)
LEMMA CommitStep ==
  ASSUME Typed, storage' \in Storage, NEW c \in Context, NEW v, ViewOK(v),
         NEW cs \in Seq(Call), NEW changed \in BOOLEAN, OrdersOK(v, cs),
         changed \/ ShownOK(c, v, cs), Commit(c, v, cs, changed)
  PROVE  /\ ctx' = c /\ ViewOK(view') /\ calls' \in Seq(Call)
         /\ OrdersOK(view', calls') /\ ShownOK(c, view', calls')
         /\ \A j \in DOMAIN calls' : calls'[j].op = "refresh" =>
              j \in DOMAIN cs /\ calls'[j] = cs[j]
<1>1. ctx' = c
  BY DEF Commit
<1>2. CASE ~changed \/ c.selected = None \/ ~Following(v.page)
  <2>1. view' = v /\ calls' = cs
    BY <1>2 DEF Commit
  <2>2. ShownOK(c, v, cs)
    BY <1>2 DEF ShownOK
  <2> QED
    BY <1>1, <2>1, <2>2
<1>3. CASE ~(~changed \/ c.selected = None \/ ~Following(v.page)) /\ Fetching(v.page)
  <2> DEFINE e == ListOf(Asks(c, v), PageOf[v.page].requests, "page")
  <2>1. /\ view' = [v EXCEPT !.fetching = PageOf[v.page].spinner]
        /\ calls' = Append(cs, e)
    BY <1>3 DEF Commit
  <2>2. v \in View /\ PageOf[v.page].spinner \in BOOLEAN
        /\ PageOf[v.page].requests \in 0 .. 3
    BY PageFacts DEF ViewOK, View
  <2>3. e \in Call /\ e.op = "list" /\ e.by = "page" /\ ~IsOrder(e)
    BY <2>2, AsksType, ListOfType
  <2> HIDE DEF e
  <2>4. /\ view' \in View /\ view'.page = v.page /\ view'.busy = v.busy
        /\ view'.result = v.result /\ view'.dialog = v.dialog /\ view'.filled = v.filled
    BY <2>1, <2>2 DEF View
  <2>5. ViewOK(view')
    BY <2>4 DEF ViewOK
  <2>6. OrdersOK(view', cs)
    BY <2>4, OrdersView
  <2>7. calls' \in Seq(Call) /\ OrdersOK(view', calls')
    BY <2>1, <2>3, <2>6, OrdersAppend, AppendFacts
  <2>8. ShownOK(c, view', calls')
    BY <2>1, <2>3, ListingAppend DEF ShownOK, Listing
  <2>9. \A j \in DOMAIN calls' : calls'[j].op = "refresh" =>
          j \in DOMAIN cs /\ calls'[j] = cs[j]
    BY <2>1, <2>3, AppendFacts
  <2> QED
    BY <1>1, <2>5, <2>7, <2>8, <2>9
<1>4. CASE ~(~changed \/ c.selected = None \/ ~Following(v.page)) /\ ~Fetching(v.page)
  <2> DEFINE filled == IF c.selected.webhook THEN {"webhook"} ELSE {}
  <2>1. /\ view' = [v EXCEPT !.shown = Asks(c, v), !.filled = filled]
        /\ calls' = cs
    BY <1>4 DEF Commit
  <2>2. v \in View /\ v.page = "webhooks" /\ Asks(c, v) \in Some(Questions)
    BY <1>4, AsksType DEF ViewOK, Following
  <2>3. filled \subseteq PageOf[v.page].forms /\ filled \in SUBSET Forms
    BY <2>2, WebhooksPageFacts, FormNames
  <2> HIDE DEF filled
  <2>4. /\ view' \in View /\ view'.page = v.page /\ view'.busy = v.busy
        /\ view'.result = v.result /\ view'.dialog = v.dialog /\ view'.filled = filled
        /\ view'.shown = Asks(c, v) /\ view'.filter = v.filter /\ view'.search = v.search
    BY <2>1, <2>2, <2>3 DEF View
  <2>5. ViewOK(view')
    BY <2>3, <2>4 DEF ViewOK
  <2>6. OrdersOK(view', cs)
    BY <2>4, OrdersView
  <2>7. ShownOK(c, view', cs)
    BY <2>4 DEF ShownOK, Asks
  <2> QED
    BY <1>1, <2>1, <2>5, <2>6, <2>7
<1> QED
  BY <1>2, <1>3, <1>4
-----------------------------------------------------------------------------
(* ACCOUNTS *)

(* An application never changes hands.                                       *)
OwnersKept(sv, tv) == \A a \in AppIds : sv[a].owner # None => tv[a].owner = sv[a].owner

(* A request for the applications has just been sent, or it is one of cs.    *)
From(cs, e, token) ==
  e.op = "refresh" =>
    \/ e.got # "ok" /\ e.as = token
    \/ \E i \in DOMAIN cs : /\ cs[i].op = "refresh" /\ cs[i].as = e.as
                            /\ cs[i].got = e.got /\ cs[i].list = e.list

LEMMA ListDomain ==
  ASSUME NEW list \in Lists
  PROVE  DOMAIN list \subseteq AppIds
BY DEF Lists

LEMMA ListsKept ==
  ASSUME NEW sv, NEW tv, OwnersKept(sv, tv), NEW cs \in Seq(Call), NEW ds, NEW token,
         \A i \in DOMAIN cs : ListOK(sv, cs[i]),
         \A j \in DOMAIN ds : From(cs, ds[j], token)
  PROVE  \A j \in DOMAIN ds : ListOK(tv, ds[j])
<1> SUFFICES ASSUME NEW j \in DOMAIN ds, ds[j].op = "refresh", ds[j].got = "ok"
             PROVE  ds[j].as # None /\ \A a \in DOMAIN ds[j].list : tv[a].owner = ds[j].as
  BY DEF ListOK
<1>1. PICK i \in DOMAIN cs : /\ cs[i].op = "refresh" /\ cs[i].as = ds[j].as
                             /\ cs[i].got = ds[j].got /\ cs[i].list = ds[j].list
  BY DEF From
<1>2. cs[i].as # None /\ \A a \in DOMAIN cs[i].list : sv[a].owner = cs[i].as
  BY <1>1 DEF ListOK
<1>3. DOMAIN cs[i].list \subseteq AppIds
  <2>1. cs[i] \in Call
    OBVIOUS
  <2>2. cs[i].list \in Lists
    BY <2>1 DEF Call
  <2> QED
    BY <2>2, ListDomain
<1> QED
  BY <1>1, <1>2, <1>3 DEF OwnersKept

(* The account stays the same, or nobody's; what is held can only shrink or  *)
(* be selected.                                                              *)
LEMMA AccountKept ==
  ASSUME Typed, AccountOK(server, storage, ctx, calls, crossed),
         NEW tv, OwnersKept(server, tv), NEW st, st.token \in {None, storage.token},
         NEW d, d.user = ctx.user, DOMAIN d.apps \subseteq DOMAIN ctx.apps,
         d.selected # None => \/ ctx.selected # None /\ d.selected.id = ctx.selected.id
                              \/ d.selected.id \in DOMAIN ctx.apps,
         d.leaving # None \/ d.leaving = ctx.leaving,
         NEW ds, \A j \in DOMAIN ds : From(calls, ds[j], st.token)
  PROVE  AccountOK(tv, st, d, ds, crossed)
<1>1. \A j \in DOMAIN ds : ListOK(tv, ds[j])
  BY ListsKept DEF Typed, AccountOK
<1>2. ASSUME ~crossed, d.leaving = None
      PROVE  /\ st.token \in {None, d.user}
             /\ \A j \in DOMAIN ds : ds[j].op = "refresh" => ds[j].as \in {None, d.user}
             /\ \A a \in DOMAIN d.apps : tv[a].owner = d.user /\ d.user # None
             /\ d.selected # None => tv[d.selected.id].owner = d.user /\ d.user # None
  <2>1. /\ storage.token \in {None, ctx.user}
        /\ \A i \in DOMAIN calls : calls[i].op = "refresh" =>
             calls[i].as \in {None, ctx.user}
        /\ \A a \in DOMAIN ctx.apps : server[a].owner = ctx.user /\ ctx.user # None
        /\ ctx.selected # None =>
             server[ctx.selected.id].owner = ctx.user /\ ctx.user # None
    BY <1>2 DEF AccountOK
  <2>2. st.token \in {None, d.user}
    BY <2>1
  <2>3. \A j \in DOMAIN ds : ds[j].op = "refresh" => ds[j].as \in {None, d.user}
    BY <2>1, <2>2 DEF From
  <2>4. DOMAIN ctx.apps \subseteq AppIds
        /\ (ctx.selected # None => ctx.selected.id \in AppIds)
    BY ListDomain DEF Typed, Context, Some
  <2>5. \A a \in DOMAIN d.apps : tv[a].owner = d.user /\ d.user # None
    BY <2>1, <2>4 DEF OwnersKept
  <2>6. d.selected # None => tv[d.selected.id].owner = d.user /\ d.user # None
    BY <2>1, <2>4 DEF OwnersKept
  <2> QED
    BY <2>2, <2>3, <2>5, <2>6
<1> QED
  BY <1>1, <1>2 DEF AccountOK

LEMMA OwnersSame == ASSUME NEW sv PROVE OwnersKept(sv, sv)
BY DEF OwnersKept

(* Only the requests change.                                                 *)
LEMMA AccountCalls ==
  ASSUME Typed, AccountOK(server, storage, ctx, calls, crossed),
         NEW ds, \A j \in DOMAIN ds : From(calls, ds[j], storage.token)
  PROVE  AccountOK(server, storage, ctx, ds, crossed)
BY OwnersSame, AccountKept

LEMMA FromSame ==
  ASSUME NEW cs, NEW i \in DOMAIN cs, NEW token
  PROVE  From(cs, cs[i], token)
BY DEF From

LEMMA FromAppend ==
  ASSUME NEW bs, NEW cs \in Seq(Call), NEW e \in Call, NEW token,
         \A j \in DOMAIN cs : From(bs, cs[j], token), From(bs, e, token)
  PROVE  \A j \in DOMAIN Append(cs, e) : From(bs, Append(cs, e)[j], token)
<1> DEFINE a == Append(cs, e)
<1>1. /\ \A j \in DOMAIN a : j \in DOMAIN cs \/ j = Len(cs) + 1
      /\ \A j \in DOMAIN cs : a[j] = cs[j]
      /\ a[Len(cs) + 1] = e
  BY AppendFacts
<1> HIDE DEF a
<1>2. \A j \in DOMAIN a : From(bs, a[j], token)
  BY <1>1
<1> QED
  BY <1>2 DEF a

LEMMA FromDrop ==
  ASSUME NEW cs \in Seq(Call), NEW i \in DOMAIN cs, NEW token
  PROVE  \A j \in DOMAIN Drop(cs, i) : From(cs, Drop(cs, i)[j], token)
BY DropFacts, FromSame

LEMMA FromLeft ==
  ASSUME NEW cs \in Seq(Call), NEW token
  PROVE  \A j \in DOMAIN Left(cs) : From(cs, Left(cs)[j], token)
BY LeftFacts DEF From
LEMMA FromSome ==
  ASSUME NEW cs, NEW ds, NEW es, NEW token,
         \A j \in DOMAIN es : From(cs, es[j], token),
         \A j \in DOMAIN ds : ds[j].op = "refresh" => j \in DOMAIN es /\ ds[j] = es[j]
  PROVE  \A j \in DOMAIN ds : From(cs, ds[j], token)
<1> SUFFICES ASSUME NEW j \in DOMAIN ds, ds[j].op = "refresh"
             PROVE  From(cs, ds[j], token)
  BY DEF From
<1>1. j \in DOMAIN es /\ ds[j] = es[j]
  OBVIOUS
<1>2. From(cs, es[j], token)
  BY <1>1
<1> QED
  BY <1>1, <1>2
-----------------------------------------------------------------------------
(* THE ACTIONS *)

LEMMA NewViewOK ==
  ASSUME NEW p \in Pages
  PROVE  ViewOK(NewView(p)) /\ NewView(p).busy = FALSE
<1> DEFINE filled == {f \in PageOf[p].forms : FormOf[f].filled}
           all == "all"
           empty == ""
           v == NewView(p)
<1>1. filled \subseteq PageOf[p].forms /\ filled \in SUBSET Forms
  BY PageFacts
<1>2. all \in Filters /\ empty \in Searches
  BY FiltersType, Zenon
<1>3. v = [page |-> p, shown |-> None, filter |-> all, search |-> empty,
           dialog |-> None, filled |-> filled, busy |-> FALSE, fetching |-> FALSE,
           result |-> FALSE, stale |-> FALSE]
  BY DEF NewView
<1> HIDE DEF filled, all, empty, v
<1>4. /\ v.page = p /\ v.dialog = None /\ v.filled = filled /\ v.result = FALSE
      /\ v.busy = FALSE
  BY <1>3
<1>5. v \in View
  BY <1>1, <1>2, <1>3 DEF View, Some
<1>6. ViewOK(v)
  BY <1>1, <1>4, <1>5 DEF ViewOK, Some
<1> QED
  BY <1>4, <1>6 DEF v

(* A link, or a redirect, to another page.                                   *)
LEMMA LeaveStep ==
  ASSUME ConsoleInv, NEW p \in Pages, Commit(ctx, NewView(p), Left(calls), TRUE),
         UNCHANGED <<server, storage, crossed>>
  PROVE  ConsoleInv'
<1> USE DEF ConsoleInv
<1>1. /\ Left(calls) \in Seq(Call) /\ ViewOK(NewView(p)) /\ storage' \in Storage
      /\ ctx \in Context /\ calls \in Seq(Call)
  BY LeftFacts, NewViewOK DEF Typed
<1>2. OrdersOK(NewView(p), Left(calls))
  BY <1>1, LeftFacts, NewViewOK, OrdersNone DEF IsOrder
<1>3. /\ ctx' = ctx /\ ViewOK(view') /\ calls' \in Seq(Call)
      /\ OrdersOK(view', calls') /\ ShownOK(ctx, view', calls')
      /\ \A j \in DOMAIN calls' : calls'[j].op = "refresh" =>
           j \in DOMAIN Left(calls) /\ calls'[j] = Left(calls)[j]
  BY <1>1, <1>2, CommitStep
<1>4. Typed'
  BY <1>3 DEF Typed
<1>5. \A j \in DOMAIN calls' : From(calls, calls'[j], storage.token)
  BY <1>1, <1>3, FromLeft, FromSome
<1>6. AccountOK(server, storage, ctx, calls', crossed)
  BY <1>5, AccountCalls
<1> QED
  BY <1>3, <1>4, <1>6
(* A page is loaded: what the tab held is gone.                              *)
LEMMA LoadStep ==
  ASSUME ConsoleInv, NEW p \in Pages, Load(p, Gone(calls)), UNCHANGED <<server, storage>>
  PROVE  ConsoleInv'
<1> USE DEF ConsoleInv
<1> DEFINE cs == Gone(calls)
           e == RefreshApps(None, "loading", "left")
<1>1. /\ cs \in Seq(Call) 
      /\ \A n \in DOMAIN cs : cs[n].by = "gone" /\ cs[n].op \in AppEdits
      /\ storage' \in Storage /\ ViewOK(NewView(p)) /\ NewView(p).busy = FALSE
  BY GoneFacts, NewViewOK DEF Typed
<1>2. /\ e \in Call /\ e.op = "refresh" /\ e.by = "left" /\ e.as = storage'.token
      /\ e.got = "none"
  BY <1>1, RefreshAppsType DEF Some
<1>3. /\ ctx' = FreshContext /\ view' = NewView(p) /\ crossed' = FALSE
      /\ calls' = IF storage'.token = None THEN cs ELSE Append(cs, e)
  BY DEF Load
<1> HIDE DEF cs, e
<1>4. /\ ctx' \in Context /\ ctx'.user = storage'.token /\ ctx'.apps = <<>>
      /\ ctx'.selected = None
  <2>1. /\ storage'.token \in Some(Accounts) /\ <<>> \in Lists
        /\ (storage'.token # None) \in BOOLEAN
    BY <1>1, EmptyLists DEF Storage
  <2> DEFINE loading == storage'.token # None
             none == <<>>
  <2>2. ctx' = [user |-> storage'.token, apps |-> none, selected |-> None,
                isLoading |-> loading, leaving |-> None]
    BY <1>3 DEF FreshContext
  <2>3. none \in Lists /\ loading \in BOOLEAN
    BY <2>1
  <2> HIDE DEF none, loading
  <2>4. ctx' \in Context /\ ctx'.user = storage'.token /\ ctx'.apps = none
        /\ ctx'.selected = None
    BY <2>1, <2>2, <2>3 DEF Context, Some
  <2> QED
    BY <2>4 DEF none
<1>5. /\ calls' \in Seq(Call)
      /\ \A j \in DOMAIN calls' :
           calls'[j] = e \/ (calls'[j].by = "gone" /\ calls'[j].op \in AppEdits)
  <2>1. CASE storage'.token = None
    BY <1>1, <1>3, <2>1
  <2>2. CASE storage'.token # None
    BY <1>1, <1>2, <1>3, <2>2, AppendFacts
  <2> QED
    BY <2>1, <2>2
<1>6. Typed'
  BY <1>1, <1>3, <1>4, <1>5 DEF Typed
<1>7. OrdersOK(view', calls')
  BY <1>1, <1>2, <1>3, <1>5, OrdersNone DEF IsOrder
<1>8. ShownOK(ctx', view', calls')
  BY <1>4 DEF ShownOK
<1>9. "refresh" \notin AppEdits
  BY DEF AppEdits
<1>10. AccountOK(server', storage', ctx', calls', crossed')
  BY <1>2, <1>4, <1>5, <1>9, EmptyLists DEF AccountOK, ListOK
<1> QED
  BY <1>6, <1>7, <1>8, <1>10

LEMMA LogoutStep ==
  ASSUME ConsoleInv, Logout
  PROVE  ConsoleInv'
<1> USE DEF ConsoleInv
<1>1. /\ storage' = [token |-> None, app |-> None]
      /\ ctx' = [ctx EXCEPT !.user = None, !.apps = <<>>, !.selected = None,
                            !.leaving = "login"]
      /\ UNCHANGED <<server, view, calls, crossed>>
  BY DEF Logout, Click
<1> DEFINE none == <<>>
           login == "login"
<1>2. none \in Lists /\ login \in Pages /\ login # None /\ ctx \in Context
  BY EmptyLists, PageNames, NoneType DEF Typed
<1>3. ctx' = [ctx EXCEPT !.user = None, !.apps = none, !.selected = None,
                         !.leaving = login]
  BY <1>1
<1> HIDE DEF none, login
<1>4. ctx' \in Context /\ ctx'.selected = None /\ ctx'.leaving # None
  BY <1>2, <1>3 DEF Context, Some
<1>5. storage' \in Storage
  BY <1>1 DEF Storage, Some
<1>6. Typed'
  BY <1>1, <1>4, <1>5 DEF Typed
<1>7. OrdersOK(view', calls')
  BY <1>1
<1>8. ShownOK(ctx', view', calls')
  BY <1>4 DEF ShownOK
<1>9. AccountOK(server', storage', ctx', calls', crossed')
  BY <1>1, <1>4 DEF AccountOK
<1> QED
  BY <1>6, <1>7, <1>8, <1>9

LEMMA AppObjectType ==
  ASSUME NEW apps \in Lists, NEW id \in DOMAIN apps
  PROVE  /\ AppObject(apps, id) \in [id : AppIds, webhook : BOOLEAN, listed : BOOLEAN]
         /\ AppObject(apps, id).id = id
<1>1. apps[id] \in Copies /\ id \in AppIds
  BY DEF Lists
<1>2. apps[id].webhook \in BOOLEAN
  BY <1>1 DEF Copies
<1> QED
  BY <1>1, <1>2 DEF AppObject

LEMMA SelectStep ==
  ASSUME ConsoleInv, NEW id \in AppIds, Select(id)
  PROVE  ConsoleInv'
<1> USE DEF ConsoleInv
<1> DEFINE app == AppObject(ctx.apps, id)
           c == [ctx EXCEPT !.selected = app]
<1>1. /\ id \in DOMAIN ctx.apps /\ storage' = [storage EXCEPT !.app = id]
      /\ Commit(c, view, calls, ctx.selected # app)
      /\ UNCHANGED <<server, crossed>>
  BY DEF Select, Click
<1>2. ctx \in Context /\ ctx.apps \in Lists /\ storage \in Storage /\ view \in View
  BY DEF Typed, Context, ViewOK
<1>3. app \in [id : AppIds, webhook : BOOLEAN, listed : BOOLEAN] /\ app.id = id
  BY <1>1, <1>2, AppObjectType
<1>4. storage' \in Storage /\ storage'.token = storage.token
  BY <1>1, <1>2 DEF Storage, Some
<1> HIDE DEF app
<1>5. /\ c \in Context /\ c.user = ctx.user /\ c.apps = ctx.apps /\ c.selected = app
      /\ c.leaving = ctx.leaving
  BY <1>2, <1>3 DEF Context, Some
<1>6. ctx.selected # app \/ c = ctx
  BY <1>2 DEF Context
<1> DEFINE changed == ctx.selected # app
<1>7. changed \in BOOLEAN /\ (changed \/ ShownOK(c, view, calls))
      /\ Commit(c, view, calls, changed)
  BY <1>1, <1>6
<1> HIDE DEF c, changed
<1>8. /\ ctx' = c /\ ViewOK(view') /\ calls' \in Seq(Call)
      /\ OrdersOK(view', calls') /\ ShownOK(c, view', calls')
      /\ \A j \in DOMAIN calls' : calls'[j].op = "refresh" =>
           j \in DOMAIN calls /\ calls'[j] = calls[j]
  BY <1>4, <1>5, <1>7, CommitStep DEF Typed
<1>9. Typed'
  BY <1>1, <1>4, <1>5, <1>8 DEF Typed
<1>10. \A j \in DOMAIN calls' : From(calls, calls'[j], storage'.token)
  BY <1>8, FromSame, FromSome
<1>11. /\ DOMAIN c.apps \subseteq DOMAIN ctx.apps /\ c.selected.id \in DOMAIN ctx.apps
       /\ storage'.token \in {None, storage.token} /\ OwnersKept(server, server)
  BY <1>1, <1>3, <1>4, <1>5, OwnersSame
<1>12. AccountOK(server, storage', c, calls', crossed)
  BY <1>5, <1>10, <1>11, AccountKept
<1> QED
  BY <1>1, <1>8, <1>9, <1>12

(* The page's question changes, or nothing that it depends on does.          *)
LEMMA NarrowStep ==
  ASSUME ConsoleInv, NEW dep, NEW v, Narrow(dep, v), ViewOK(v), OrdersOK(v, calls),
         dep \in PageOf[view.page].deps \/ ShownOK(ctx, v, calls)
  PROVE  ConsoleInv'
<1> USE DEF ConsoleInv
<1> DEFINE changed == dep \in PageOf[view.page].deps
<1>1. Commit(ctx, v, calls, changed) /\ UNCHANGED <<server, storage, crossed>>
  BY DEF Narrow, Click
<1>2. /\ storage' \in Storage /\ ctx \in Context /\ calls \in Seq(Call)
      /\ changed \in BOOLEAN /\ (changed \/ ShownOK(ctx, v, calls))
  BY <1>1 DEF Typed
<1> HIDE DEF changed
<1>3. /\ ctx' = ctx /\ ViewOK(view') /\ calls' \in Seq(Call)
      /\ OrdersOK(view', calls') /\ ShownOK(ctx, view', calls')
      /\ \A j \in DOMAIN calls' : calls'[j].op = "refresh" =>
           j \in DOMAIN calls /\ calls'[j] = calls[j]
  BY <1>1, <1>2, CommitStep
<1>4. Typed'
  BY <1>1, <1>3 DEF Typed
<1>5. \A j \in DOMAIN calls' : From(calls, calls'[j], storage.token)
  BY <1>3, FromSame, FromSome
<1>6. AccountOK(server, storage, ctx, calls', crossed)
  BY <1>5, AccountCalls
<1> QED
  BY <1>1, <1>3, <1>4, <1>6

LEMMA SetFilterStep ==
  ASSUME ConsoleInv, NEW filter \in Filters, SetFilter(filter)
  PROVE  ConsoleInv'
<1> USE DEF ConsoleInv
<1> DEFINE v == [view EXCEPT !.filter = filter]
           dep == "filter"
<1>1. view.page = "licenses" /\ Narrow(dep, v)
  BY DEF SetFilter
<1>2. ViewOK(view) /\ view \in View
  BY DEF Typed, ViewOK
<1>3. /\ v \in View /\ v.page = view.page /\ v.dialog = view.dialog
      /\ v.filled = view.filled
      /\ v.result = view.result /\ v.busy = view.busy
  BY <1>2 DEF View
<1> HIDE DEF v
<1>4. ViewOK(v)
  BY <1>2, <1>3 DEF ViewOK
<1>5. OrdersOK(v, calls)
  BY <1>3, OrdersView
<1>6. dep \in PageOf[view.page].deps
  BY <1>1, WebhooksPageFacts
<1> HIDE DEF dep
<1> QED
  BY <1>1, <1>4, <1>5, <1>6, NarrowStep

LEMMA SetSearchStep ==
  ASSUME ConsoleInv, NEW search \in Searches, SetSearch(search)
  PROVE  ConsoleInv'
<1> USE DEF ConsoleInv
<1> DEFINE v == [view EXCEPT !.search = search]
           dep == "search"
<1>1. view.page \in {"licenses", "users"} /\ Narrow(dep, v)
  BY DEF SetSearch
<1>2. ViewOK(view) /\ view \in View
  BY DEF Typed, ViewOK
<1>3. /\ v \in View /\ v.page = view.page /\ v.dialog = view.dialog
      /\ v.filled = view.filled
      /\ v.result = view.result /\ v.busy = view.busy
  BY <1>2 DEF View
<1> HIDE DEF v
<1>4. ViewOK(v)
  BY <1>2, <1>3 DEF ViewOK
<1>5. OrdersOK(v, calls)
  BY <1>3, OrdersView
<1>6. dep \in PageOf[view.page].deps
  BY <1>1, WebhooksPageFacts
<1> HIDE DEF dep
<1> QED
  BY <1>1, <1>4, <1>5, <1>6, NarrowStep
(* A request goes out that is no order of the page.                          *)
LEMMA SendStep ==
  ASSUME ConsoleInv, NEW e \in Call, ~IsOrder(e), e.op # "refresh",
         view' = view \/ view' = [view EXCEPT !.fetching = TRUE],
         calls' = Append(calls, e), UNCHANGED <<server, storage, ctx, crossed>>
  PROVE  ConsoleInv'
<1> USE DEF ConsoleInv
<1>1. view \in View /\ ViewOK(view) /\ calls \in Seq(Call)
  BY DEF Typed, ViewOK
<1>2. /\ view' \in View /\ view'.page = view.page /\ view'.dialog = view.dialog
      /\ view'.filled = view.filled /\ view'.result = view.result
      /\ view'.busy = view.busy
      /\ view'.shown = view.shown /\ view'.stale = view.stale
      /\ view'.filter = view.filter /\ view'.search = view.search
  <2>1. CASE view' = view
    BY <1>1, <2>1
  <2>2. CASE view' = [view EXCEPT !.fetching = TRUE]
    BY <1>1, <2>2 DEF View
  <2> QED
    BY <2>1, <2>2
<1>3. ViewOK(view')
  BY <1>1, <1>2 DEF ViewOK
<1>4. OrdersOK(view', calls)
  BY <1>2, OrdersView
<1>5. calls' \in Seq(Call) /\ OrdersOK(view', calls')
  BY <1>1, <1>4, OrdersAppend, AppendFacts
<1>6. Typed'
  BY <1>3, <1>5 DEF Typed
<1>7. ShownOK(ctx, view', calls')
  <2>1. Asks(ctx, view') = Asks(ctx, view)
    BY <1>2 DEF Asks
  <2>2. (\A i \in DOMAIN calls' : ~Listing(calls'[i])) =>
          \A i \in DOMAIN calls : ~Listing(calls[i])
    BY <1>1, ListingAppend
  <2> QED
    BY <1>2, <2>1, <2>2, ShownKept
<1>8. \A j \in DOMAIN calls' : From(calls, calls'[j], storage.token)
  <2>1. From(calls, e, storage.token)
        /\ \A j \in DOMAIN calls : From(calls, calls[j], storage.token)
    BY FromSame DEF From
  <2> QED
    BY <1>1, <2>1, FromAppend
<1>9. AccountOK(server, storage, ctx, calls', crossed)
  BY <1>8, AccountCalls
<1> QED
  BY <1>5, <1>6, <1>7, <1>9

LEMMA RefreshLogsStep ==
  ASSUME ConsoleInv, RefreshLogs
  PROVE  ConsoleInv'
<1> DEFINE e == Request("list")
<1>1. /\ view' = [view EXCEPT !.fetching = TRUE] /\ calls' = Append(calls, e)
      /\ UNCHANGED <<server, storage, ctx, crossed>>
  BY DEF RefreshLogs, Click, Sends
<1>2. "list" \in Ops /\ "list" \notin Forms /\ Typed /\ storage' \in Storage
  BY <1>1, FormNames DEF Ops, ConsoleInv, Typed
<1>3. e \in Call /\ e.op = "list" /\ e.then = "none"
  BY <1>2, RequestType
<1> HIDE DEF e
<1>4. ~IsOrder(e) /\ e.op # "refresh"
  BY <1>2, <1>3 DEF IsOrder, Holds
<1> QED
  BY <1>1, <1>3, <1>4, SendStep

LEMMA EditRowStep ==
  ASSUME ConsoleInv, EditRow
  PROVE  ConsoleInv'
<1> DEFINE e == Request("edit")
<1>1. /\ view' = view /\ calls' = Append(calls, e)
      /\ UNCHANGED <<server, storage, ctx, crossed>>
  BY DEF EditRow, Click, Sends
<1>2. "edit" \in Ops /\ "edit" \notin Forms /\ Typed /\ storage' \in Storage
  BY <1>1, FormNames DEF Ops, ConsoleInv, Typed
<1>3. e \in Call /\ e.op = "edit" /\ e.then = "none"
  BY <1>2, RequestType
<1> HIDE DEF e
<1>4. ~IsOrder(e) /\ e.op # "refresh"
  BY <1>2, <1>3 DEF IsOrder, Holds
<1> QED
  BY <1>1, <1>3, <1>4, SendStep

LEMMA EditAppStep ==
  ASSUME ConsoleInv, NEW id \in AppIds, TogglePauseApp(id) \/ DeleteApp(id)
  PROVE  ConsoleInv'
<1>1. Typed /\ ctx.apps \in Lists
  BY DEF ConsoleInv, Typed, Context
<1>2. CASE TogglePauseApp(id)
  <2> DEFINE r == Request("pause")
             paused == ~ctx.apps[id].paused
             e == [r EXCEPT !.app = id, !.paused = paused]
  <2>1. /\ view' = view /\ calls' = Append(calls, e) /\ paused \in BOOLEAN
        /\ UNCHANGED <<server, storage, ctx, crossed>>
    BY <1>2 DEF TogglePauseApp, EditApp, Click, Sends
  <2>2. "pause" \in Ops /\ "pause" \notin Forms /\ storage' \in Storage
    BY <1>1, <2>1, FormNames DEF Ops, AppEdits, Typed
  <2>3. r \in Call /\ r.op = "pause" /\ r.then = "none"
    BY <1>1, <2>2, RequestType
  <2> HIDE DEF r, paused
  <2>4. e \in Call /\ e.op = "pause" /\ e.then = "none"
    BY <2>1, <2>3 DEF Call, Some
  <2> HIDE DEF e
  <2>5. ~IsOrder(e) /\ e.op # "refresh"
    BY <2>2, <2>4 DEF IsOrder, Holds
  <2> QED
    BY <2>1, <2>4, <2>5, SendStep
<1>3. CASE DeleteApp(id)
  <2> DEFINE r == Request("deleteApp")
             e == [r EXCEPT !.app = id]
  <2>1. /\ view' = view /\ calls' = Append(calls, e)
        /\ UNCHANGED <<server, storage, ctx, crossed>>
    BY <1>3 DEF DeleteApp, EditApp, Click, Sends
  <2>2. "deleteApp" \in Ops /\ "deleteApp" \notin Forms /\ storage' \in Storage
    BY <1>1, <2>1, FormNames DEF Ops, AppEdits, Typed
  <2>3. r \in Call /\ r.op = "deleteApp" /\ r.then = "none"
    BY <1>1, <2>2, RequestType
  <2> HIDE DEF r
  <2>4. e \in Call /\ e.op = "deleteApp" /\ e.then = "none"
    BY <2>3 DEF Call, Some
  <2> HIDE DEF e
  <2>5. ~IsOrder(e) /\ e.op # "refresh"
    BY <2>2, <2>4 DEF IsOrder, Holds
  <2> QED
    BY <2>1, <2>4, <2>5, SendStep
<1> QED
  BY <1>2, <1>3

(* Dialogs and fields.                                                       *)
LEMMA EditsStep ==
  ASSUME ConsoleInv, NEW v, Edits(v), ViewOK(v), v.page = view.page, v.busy = view.busy,
         v.result => view.result, v.shown = view.shown, v.stale = view.stale,
         v.filter = view.filter, v.search = view.search
  PROVE  ConsoleInv'
<1> USE DEF ConsoleInv
<1>1. view' = v /\ UNCHANGED <<server, storage, ctx, calls, crossed>>
  BY DEF Edits
<1>2. Typed'
  BY <1>1 DEF Typed
<1>3. OrdersOK(v, calls)
  BY OrdersView
<1>4. ShownOK(ctx, v, calls)
  <2>1. Asks(ctx, v) = Asks(ctx, view)
    BY DEF Asks
  <2> QED
    BY <2>1, ShownKept
<1> QED
  BY <1>1, <1>2, <1>3, <1>4

LEMMA FormsStep ==
  ASSUME ConsoleInv,
         (\E form \in Forms : OpenDialog(form) \/ Fill(form)) \/ CloseDialog \/ Done
  PROVE  ConsoleInv'
<1>1. ViewOK(view) /\ view \in View
  BY DEF ConsoleInv, Typed, ViewOK
<1>2. ASSUME NEW form \in Forms, OpenDialog(form)
      PROVE  ConsoleInv'
  <2> DEFINE result == view.result /\ form # "createApp"
             v == [view EXCEPT !.dialog = form, !.result = result]
  <2>1. form \in PageOf[view.page].forms /\ Edits(v)
    BY <1>2 DEF OpenDialog
  <2>2. result \in BOOLEAN /\ (result => view.result)
    BY <1>1 DEF View
  <2> HIDE DEF result
  <2>3. /\ v \in View /\ v.page = view.page /\ v.busy = view.busy /\ v.result = result
        /\ v.shown = view.shown /\ v.stale = view.stale /\ v.filter = view.filter
        /\ v.search = view.search /\ v.dialog = form /\ v.filled = view.filled
    BY <1>1, <2>2 DEF View, Some
  <2> HIDE DEF v
  <2>4. ViewOK(v)
    BY <1>1, <2>1, <2>2, <2>3 DEF ViewOK, Some
  <2> QED
    BY <2>1, <2>2, <2>3, <2>4, EditsStep
<1>3. ASSUME NEW form \in Forms, Fill(form)
      PROVE  ConsoleInv'
  <2> DEFINE filled == view.filled \cup {form}
             v == [view EXCEPT !.filled = filled]
  <2>1. form \in PageOf[view.page].forms /\ Edits(v)
    BY <1>3 DEF Fill, Displayed
  <2>2. filled \in SUBSET Forms /\ filled \subseteq PageOf[view.page].forms
    BY <1>1, <2>1 DEF View, ViewOK
  <2> HIDE DEF filled
  <2>3. /\ v \in View /\ v.page = view.page /\ v.busy = view.busy
        /\ v.result = view.result
        /\ v.shown = view.shown /\ v.stale = view.stale /\ v.filter = view.filter
        /\ v.search = view.search /\ v.dialog = view.dialog /\ v.filled = filled
    BY <1>1, <2>2 DEF View
  <2> HIDE DEF v
  <2>4. ViewOK(v)
    BY <1>1, <2>2, <2>3 DEF ViewOK
  <2> QED
    BY <2>1, <2>3, <2>4, EditsStep
<1>4. CASE CloseDialog \/ Done
  <2>1. PICK result \in BOOLEAN :
          (result => view.result)
          /\ Edits([view EXCEPT !.dialog = None, !.result = result])
    <3>1. CASE CloseDialog
      <4>1. Edits([view EXCEPT !.dialog = None])
        BY <3>1 DEF CloseDialog
      <4>2. [view EXCEPT !.dialog = None] =
              [view EXCEPT !.dialog = None, !.result = view.result]
        BY <1>1 DEF View
      <4>3. view.result \in BOOLEAN
        BY <1>1 DEF View
      <4> QED
        BY <4>1, <4>2, <4>3
    <3>2. CASE Done
      BY <3>2 DEF Done
    <3> QED
      BY <1>4, <3>1, <3>2
  <2> DEFINE v == [view EXCEPT !.dialog = None, !.result = result]
  <2>2. /\ v \in View /\ v.page = view.page /\ v.busy = view.busy /\ v.result = result
        /\ v.shown = view.shown /\ v.stale = view.stale /\ v.filter = view.filter
        /\ v.search = view.search /\ v.dialog = None /\ v.filled = view.filled
    BY <1>1 DEF View, Some
  <2>3. Edits(v)
    BY <2>1
  <2> HIDE DEF v
  <2>4. ViewOK(v)
    BY <1>1, <2>1, <2>2 DEF ViewOK, Some
  <2> QED
    BY <2>1, <2>2, <2>3, <2>4, EditsStep
<1> QED
  BY <1>2, <1>3, <1>4
(* A form of the page is submitted.                                          *)
LEMMA OrderStep ==
  ASSUME ConsoleInv, NEW form \in Forms, Displayed(form), ~view.busy,
         NEW e \in Call, e.op = form, e.by = "page",
         view' = [view EXCEPT !.busy = TRUE], calls' = Append(calls, e),
         UNCHANGED <<server, storage, ctx, crossed>>
  PROVE  ConsoleInv'
<1> USE DEF ConsoleInv
<1>1. view \in View /\ ViewOK(view) /\ calls \in Seq(Call) /\ view.page \in Pages
  BY DEF Typed, ViewOK, View
<1>2. /\ view' \in View /\ view'.page = view.page /\ view'.dialog = view.dialog
      /\ view'.filled = view.filled /\ view'.result = view.result /\ view'.busy
      /\ view'.shown = view.shown /\ view'.stale = view.stale
      /\ view'.filter = view.filter /\ view'.search = view.search
  BY <1>1 DEF View
<1>3. ViewOK(view')
  BY <1>1, <1>2 DEF ViewOK
<1>4. form \in PageOf[view.page].forms /\ (FormOf[form].result => ~view.result)
  BY DEF Displayed
<1>5. ~view'.result
  BY <1>1, <1>2, <1>4 DEF ViewOK
<1>6. IsOrder(e) /\ e.op # "refresh"
  BY FormNames DEF IsOrder, Holds
<1>7. calls' \in Seq(Call) /\ OrdersOK(view', calls')
  BY <1>1, <1>2, <1>4, <1>5, <1>6, OrdersNew, AppendFacts
<1>8. Typed'
  BY <1>3, <1>7 DEF Typed
<1>9. ShownOK(ctx, view', calls')
  <2>1. Asks(ctx, view') = Asks(ctx, view)
    BY <1>2 DEF Asks
  <2>2. (\A i \in DOMAIN calls' : ~Listing(calls'[i])) =>
          \A i \in DOMAIN calls : ~Listing(calls[i])
    BY <1>1, ListingAppend
  <2> QED
    BY <1>2, <2>1, <2>2, ShownKept
<1>10. \A j \in DOMAIN calls' : From(calls, calls'[j], storage.token)
  <2>1. From(calls, e, storage.token)
        /\ \A j \in DOMAIN calls : From(calls, calls[j], storage.token)
    BY <1>6, FromSame DEF From
  <2> QED
    BY <1>1, <2>1, FromAppend
<1>11. AccountOK(server, storage, ctx, calls', crossed)
  BY <1>10, AccountCalls
<1> QED
  BY <1>7, <1>8, <1>9, <1>11

LEMMA SubmitStep ==
  ASSUME ConsoleInv, NEW form \in Forms, Submit(form)
  PROVE  ConsoleInv'
<1> DEFINE r == Request(form)
           app == IF form = "createApp" THEN None ELSE ctx.selected.id
           e == [r EXCEPT !.app = app]
<1>1. /\ Displayed(form) /\ ~view.busy /\ view' = [view EXCEPT !.busy = TRUE]
      /\ calls' = Append(calls, e) /\ UNCHANGED <<server, storage, ctx, crossed>>
      /\ form = "createApp" \/ ctx.selected # None
  BY DEF Submit, Sends
<1>2. Typed /\ storage' \in Storage /\ form \in Ops /\ ctx \in Context
  BY <1>1 DEF ConsoleInv, Typed, Ops
<1>3. r \in Call /\ r.op = form /\ r.by = "page"
  BY <1>2, RequestType
<1>4. app \in Some(AppIds)
  BY <1>1, <1>2 DEF Context, Some
<1> HIDE DEF r, app
<1>5. e \in Call /\ e.op = form /\ e.by = "page"
  BY <1>3, <1>4 DEF Call
<1> HIDE DEF e
<1> QED
  BY <1>1, <1>5, OrderStep

LEMMA SubmitLoginStep ==
  ASSUME ConsoleInv, NEW account \in Accounts, SubmitLogin(account)
  PROVE  ConsoleInv'
<1> DEFINE r == Request("login")
           e == [r EXCEPT !.as = account]
           form == "login"
<1>1. /\ Displayed(form) /\ ~view.busy /\ view' = [view EXCEPT !.busy = TRUE]
      /\ calls' = Append(calls, e) /\ UNCHANGED <<server, storage, ctx, crossed>>
  BY DEF SubmitLogin, Sends
<1>2. Typed /\ storage' \in Storage /\ form \in Ops /\ form \in Forms
  BY <1>1, FormNames DEF ConsoleInv, Typed, Ops
<1>3. r \in Call /\ r.op = form /\ r.by = "page"
  BY <1>2, RequestType
<1> HIDE DEF r, form
<1>4. e \in Call /\ e.op = form /\ e.by = "page"
  BY <1>3 DEF Call, Some
<1> HIDE DEF e
<1> QED
  BY <1>1, <1>2, <1>4, OrderStep

LEMMA OtherTabStep ==
  ASSUME ConsoleInv, OtherTab
  PROVE  ConsoleInv'
<1> USE DEF ConsoleInv
<1>1. UNCHANGED <<server, ctx, view, calls>>
  BY DEF OtherTab
<1>2. CASE \E account \in Accounts : /\ storage' = [storage EXCEPT !.token = account]
                                     /\ crossed' = (crossed \/ account # ctx.user)
  <2>1. PICK account \in Accounts : /\ storage' = [storage EXCEPT !.token = account]
                                    /\ crossed' = (crossed \/ account # ctx.user)
    BY <1>2
  <2>2. storage' \in Storage /\ storage'.token = account
    BY <2>1 DEF Typed, Storage, Some
  <2>3. Typed'
    BY <1>1, <2>2 DEF Typed
  <2>4. ~crossed' => ~crossed /\ storage'.token = ctx.user
    BY <2>1, <2>2
  <2>5. AccountOK(server, storage', ctx, calls, crossed')
    BY <2>4 DEF AccountOK
  <2> QED
    BY <1>1, <2>3, <2>5
<1>3. CASE UNCHANGED crossed /\ storage' \in Storage
           /\ storage'.token \in {None, storage.token}
  <2>1. Typed'
    BY <1>1, <1>3 DEF Typed
  <2>2. AccountOK(server, storage', ctx, calls, crossed)
    BY <1>3 DEF AccountOK
  <2> QED
    BY <1>1, <1>3, <2>1, <2>2
<1>4. \/ \E account \in Accounts : /\ storage' = [storage EXCEPT !.token = account]
                                   /\ crossed' = (crossed \/ account # ctx.user)
      \/ UNCHANGED crossed /\ storage' \in Storage
          /\ storage'.token \in {None, storage.token}
  <2>1. CASE storage' = [token |-> None, app |-> None] /\ UNCHANGED crossed
    BY <2>1 DEF Storage, Some
  <2>2. ASSUME NEW id \in AppIds, storage' = [storage EXCEPT !.app = id],
               UNCHANGED crossed
        PROVE  storage' \in Storage /\ storage'.token = storage.token
    BY <2>2 DEF Typed, Storage, Some
  <2> QED
    BY <2>1, <2>2 DEF OtherTab
<1> QED
  BY <1>2, <1>3, <1>4
-----------------------------------------------------------------------------
(* The server. *)

LEMMA ServerStep ==
  ASSUME server \in Server, NEW call \in Call, Carried(call)
  PROVE  server' \in Server /\ OwnersKept(server, server')
<1>1. CASE UNCHANGED server
  BY <1>1 DEF OwnersKept
<1>2. CASE UpdateApp(call)
  <2> DEFINE a == call.app
             set == IF ~server[a].live THEN server[a].set
                    ELSE [paused |-> call.paused, webhook |-> call.op = "webhook",
                          download |-> FALSE]
  <2>1. server' = [server EXCEPT ![a].set = set]
    BY <1>2, Zenon DEF UpdateApp
  <2>2. a \in AppIds => set \in Settings
    BY DEF Call, Server, Settings
  <2> HIDE DEF a, set
  <2> QED
    BY <2>1, <2>2 DEF Server, OwnersKept
<1>3. CASE DeleteAppRow(call)
  <2> DEFINE a == call.app
  <2>1. server' = [server EXCEPT ![a].live = FALSE]
    BY <1>3 DEF DeleteAppRow
  <2> HIDE DEF a
  <2> QED
    BY <2>1 DEF Server, OwnersKept
<1>4. CASE CreateApp(call) /\ call.as # None
  <2>1. PICK a \in AppIds, webhook \in BOOLEAN :
          /\ server[a].owner = None
          /\ server' = [server EXCEPT ![a] =
               [owner |-> call.as, live |-> TRUE,
                set |-> [paused |-> FALSE, webhook |-> webhook, download |-> TRUE]]]
    BY <1>4 DEF CreateApp
  <2> DEFINE row == [owner |-> call.as, live |-> TRUE,
                     set |-> [paused |-> FALSE, webhook |-> webhook, download |-> TRUE]]
  <2>2. row \in [owner : Some(Accounts), live : BOOLEAN, set : Settings]
    BY DEF Call, Settings
  <2>3. server' = [server EXCEPT ![a] = row]
    BY <2>1
  <2> HIDE DEF row
  <2> QED
    BY <2>1, <2>2, <2>3 DEF Server, OwnersKept
<1> QED
  BY <1>1, <1>2, <1>3, <1>4 DEF Carried

LEMMA ListAppsFacts ==
  ASSUME server \in Server, NEW account
  PROVE  /\ ListApps(account) \in Lists
         /\ \A a \in DOMAIN ListApps(account) : server[a].owner = account
<1> DEFINE owned == {a \in AppIds : server[a].live /\ server[a].owner = account}
           copy(a) == [paused |-> server[a].set.paused, webhook |-> server[a].set.webhook]
<1>1. \A a \in AppIds : copy(a) \in Copies
  BY DEF Server, Settings, Copies
<1>2. owned \in SUBSET AppIds /\ \A a \in owned : server[a].owner = account
  OBVIOUS
<1>3. ListApps(account) = [a \in owned |-> copy(a)]
  BY DEF ListApps
<1> HIDE DEF owned, copy
<1>4. [a \in owned |-> copy(a)] \in [owned -> Copies]
      /\ DOMAIN [a \in owned |-> copy(a)] = owned
  BY <1>1, <1>2
<1> QED
  BY <1>2, <1>3, <1>4 DEF Lists

(* A request stays where it is, with an answer or as the server has read it. *)
LEMMA InPlaceStep ==
  ASSUME ConsoleInv, NEW i \in DOMAIN calls, NEW e \in Call,
         e.op = calls[i].op, e.by = calls[i].by, e.then = calls[i].then,
         e.as = calls[i].as, calls' = [calls EXCEPT ![i] = e],
         server' \in Server, OwnersKept(server, server'), ListOK(server', e),
         calls[i].op # "list", UNCHANGED <<storage, ctx, view, crossed>>
  PROVE  ConsoleInv'
<1> USE DEF ConsoleInv
<1>1. calls \in Seq(Call) /\ calls[i] \in Call
  BY DEF Typed
<1>2. /\ calls' \in Seq(Call) /\ DOMAIN calls' = DOMAIN calls /\ calls'[i] = e
      /\ \A j \in DOMAIN calls : j # i => calls'[j] = calls[j]
  BY <1>1
<1>3. \A j \in DOMAIN calls :
        /\ calls'[j].op = calls[j].op /\ calls'[j].by = calls[j].by
        /\ calls'[j].then = calls[j].then /\ calls'[j].as = calls[j].as
  BY <1>2
<1>4. Typed'
  BY <1>2 DEF Typed
<1>5. OrdersOK(view, calls')
  BY <1>2, <1>3, OrdersSame
<1>6. ShownOK(ctx, view, calls')
  BY <1>2, <1>3 DEF ShownOK, Listing
<1>7. AccountOK(server', storage, ctx, calls', crossed)
  <2>1. AccountOK(server', storage, ctx, calls, crossed)
    <3>1. \A j \in DOMAIN calls : From(calls, calls[j], storage.token)
      BY FromSame
    <3> QED
      BY <3>1, AccountKept
  <2>2. \A j \in DOMAIN calls' : ListOK(server', calls'[j])
    BY <1>2, <2>1 DEF AccountOK
  <2> QED
    BY <1>2, <1>3, <2>1, <2>2 DEF AccountOK
<1> QED
  BY <1>4, <1>5, <1>6, <1>7

(* The answer got is put where the request is, or nobody waits for it.       *)
LEMMA AnsweredStep ==
  ASSUME ConsoleInv, NEW i \in DOMAIN calls, NEW got \in {"ok", "error", "401"},
         NEW list \in Lists, Answered(i, got, list), server' \in Server,
         OwnersKept(server, server'), calls[i].op # "list",
         calls[i].op = "refresh" /\ got = "ok" =>
           calls[i].as # None /\ \A a \in DOMAIN list : server'[a].owner = calls[i].as,
         UNCHANGED <<storage, ctx, view, crossed>>
  PROVE  ConsoleInv'
<1> USE DEF ConsoleInv
<1>1. calls \in Seq(Call) /\ calls[i] \in Call
  BY DEF Typed
<1>2. CASE calls[i].by = "gone"
  <2>1. calls' = Drop(calls, i)
    BY <1>2 DEF Answered, Without, Drop
  <2>2. calls' \in Seq(Call)
    BY <1>1, <2>1, DropFacts
  <2>3. Typed'
    BY <2>2 DEF Typed
  <2>4. ~IsOrder(calls[i]) /\ ~Listing(calls[i])
    BY <1>2 DEF IsOrder, Listing
  <2>5. OrdersOK(view, calls')
    BY <1>1, <2>1, <2>4, OrdersDrop
  <2>6. ShownOK(ctx, view, calls')
    BY <1>1, <2>1, <2>4, ListingDrop, ShownKept
  <2>7. \A j \in DOMAIN calls' : From(calls, calls'[j], storage.token)
    BY <1>1, <2>1, FromDrop
  <2>8. AccountOK(server', storage, ctx, calls', crossed)
    BY <2>7, AccountKept
  <2> QED
    BY <2>3, <2>5, <2>6, <2>8
<1>3. CASE calls[i].by # "gone"
  <2> DEFINE e == [calls[i] EXCEPT !.got = got, !.list = list]
  <2>1. calls' = [calls EXCEPT ![i].got = got, ![i].list = list] /\ got \in Gots
    BY <1>3 DEF Answered, Gots
  <2>2. /\ e \in Call /\ e.op = calls[i].op /\ e.by = calls[i].by
        /\ e.then = calls[i].then
        /\ e.as = calls[i].as /\ e.got = got /\ e.list = list
    BY <1>1, <2>1 DEF Call
  <2>3. calls' = [calls EXCEPT ![i] = e]
    BY <1>1, <2>1
  <2> HIDE DEF e
  <2>4. ListOK(server', e)
    BY <2>2 DEF ListOK
  <2> QED
    BY <2>2, <2>3, <2>4, InPlaceStep
<1> QED
  BY <1>2, <1>3

(* The server reads the row that an order is about to change.                *)
LEMMA ReadRowStep ==
  ASSUME ConsoleInv, NEW i \in DOMAIN calls, ReadRow(i)
  PROVE  ConsoleInv'
<1> DEFINE flag == IF calls[i].op = "pause" THEN calls[i].paused
                   ELSE server[calls[i].app].set.paused
           e == [calls[i] EXCEPT !.got = "read", !.paused = flag]
<1>1. /\ calls \in Seq(Call) /\ calls[i] \in Call /\ server \in Server
      /\ calls[i].op \in {"pause", "webhook"} /\ server[calls[i].app].live
      /\ UNCHANGED <<server, storage, ctx, view, crossed>>
  BY DEF ConsoleInv, Typed, ReadRow
<1>2. calls' = [calls EXCEPT ![i] = e]
  BY <1>1 DEF ReadRow
<1>3. flag \in BOOLEAN
  BY <1>1 DEF ReadRow, Call, Server, Settings
<1> HIDE DEF flag
<1>4. /\ e \in Call /\ e.op = calls[i].op /\ e.by = calls[i].by
      /\ e.then = calls[i].then /\ e.as = calls[i].as /\ e.got = "read"
  BY <1>1, <1>3 DEF Call, Gots
<1> HIDE DEF e
<1>5. ListOK(server', e)
  BY <1>4 DEF ListOK
<1>6. server' \in Server /\ OwnersKept(server, server')
  BY <1>1, OwnersSame
<1> QED
  BY <1>1, <1>2, <1>4, <1>5, <1>6, InPlaceStep

LEMMA ServeStep ==
  ASSUME ConsoleInv, NEW i \in DOMAIN calls, Serve(i)
  PROVE  ConsoleInv'
<1>1. /\ server \in Server /\ calls[i] \in Call /\ <<>> \in Lists /\ calls[i].op # "list"
      /\ UNCHANGED <<storage, ctx, view, crossed>>
  BY EmptyLists DEF ConsoleInv, Typed, Serve, Unread, AppEdits
<1>2. ASSUME Carried(calls[i]), NEW got \in {"ok", "error"},
             Answered(i, got, IF calls[i].op = "refresh" /\ got = "ok"
                              THEN ListApps(calls[i].as) ELSE <<>>)
      PROVE  ConsoleInv'
  <2> DEFINE list == IF calls[i].op = "refresh" /\ got = "ok"
                     THEN ListApps(calls[i].as) ELSE <<>>
  <2>1. server' \in Server /\ OwnersKept(server, server') /\ calls[i].as # None
    BY <1>1, <1>2, ServerStep DEF Carried
  <2>2. calls[i].op = "refresh" => UNCHANGED server
    BY <1>2 DEF Carried
  <2>3. list \in Lists
    BY <1>1, ListAppsFacts
  <2>4. calls[i].op = "refresh" /\ got = "ok" =>
          \A a \in DOMAIN list : server'[a].owner = calls[i].as
    BY <1>1, <2>2, ListAppsFacts
  <2>5. Answered(i, got, list)
    BY <1>2
  <2> HIDE DEF list
  <2> QED
    BY <1>1, <2>1, <2>3, <2>4, <2>5, AnsweredStep
<1>3. ASSUME UNCHANGED server, NEW got \in {"error", "401"}, Answered(i, got, <<>>)
      PROVE  ConsoleInv'
  <2>1. server' \in Server /\ OwnersKept(server, server')
    BY <1>1, <1>3, OwnersSame
  <2> QED
    BY <1>1, <1>3, <2>1, AnsweredStep
<1> QED
  BY <1>2, <1>3 DEF Serve
-----------------------------------------------------------------------------
(* The answers. *)

LEMMA EndsFacts ==
  ASSUME NEW v, ViewOK(v), NEW call
  PROVE  /\ ViewOK(Ends(call, v)) /\ Ends(call, v).page = v.page
         /\ Ends(call, v).shown = v.shown /\ Ends(call, v).stale = v.stale
         /\ Ends(call, v).filter = v.filter /\ Ends(call, v).search = v.search
         /\ Ends(call, v).result = v.result /\ Ends(call, v).dialog = v.dialog
         /\ Ends(call, v).filled = v.filled
<1>1. v \in View
  BY DEF ViewOK
<1>2. CASE call.by # "page"
  BY <1>2 DEF Ends
<1>3. CASE call.by = "page"
  <2> DEFINE busy == v.busy /\ ~Holds(call)
             fetching == v.fetching /\ call.op # "list"
             w == [v EXCEPT !.busy = busy, !.fetching = fetching]
  <2>1. Ends(call, v) = w
    BY <1>3 DEF Ends
  <2>2. busy \in BOOLEAN /\ fetching \in BOOLEAN
    BY <1>1 DEF View, Holds
  <2> HIDE DEF busy, fetching
  <2>3. /\ w \in View /\ w.page = v.page /\ w.shown = v.shown /\ w.stale = v.stale
        /\ w.filter = v.filter /\ w.search = v.search
        /\ w.result = v.result /\ w.dialog = v.dialog /\ w.filled = v.filled
    BY <1>1, <2>2 DEF View
  <2> HIDE DEF w
  <2>4. ViewOK(w)
    BY <2>3 DEF ViewOK
  <2> QED
    BY <2>1, <2>3, <2>4
<1> QED
  BY <1>2, <1>3

LEMMA NotOrder ==
  ASSUME ConsoleInv, NEW i \in DOMAIN calls, calls[i].op \notin Forms \cup {"refresh"}
  PROVE  ~IsOrder(calls[i])
<1>1. PageOf[view.page].forms \subseteq Forms
  BY PageFacts DEF ConsoleInv, Typed, ViewOK, View
<1> QED
  BY <1>1 DEF ConsoleInv, OrdersOK

LEMMA FailStep ==
  ASSUME ConsoleInv, NEW i \in DOMAIN calls, Fail(i)
  PROVE  ConsoleInv'
<1> USE DEF ConsoleInv
<1> DEFINE call == calls[i]
           u == Ends(call, view)
<1>1. PICK out \in BOOLEAN :
        /\ storage' = IF out THEN [storage EXCEPT !.token = None] ELSE storage
        /\ ctx' = [ctx EXCEPT !.leaving = IF out THEN "login" ELSE @,
                              !.isLoading = @ /\ call.then # "loading"]
        /\ view' = [u EXCEPT !.stale = @ \/ (call.op = "list" /\ call.by = "page")]
        /\ calls' = Without(i) /\ UNCHANGED <<server, clicks, crossed>>
  BY DEF Fail
<1>2. /\ calls \in Seq(Call) /\ storage \in Storage /\ ctx \in Context /\ ViewOK(view)
      /\ view \in View /\ calls' = Drop(calls, i)
  BY <1>1 DEF Typed, ViewOK, Without, Drop
<1>3. /\ storage' \in Storage /\ storage'.token \in {None, storage.token}
  BY <1>1, <1>2 DEF Storage, Some
<1>4. /\ ctx' \in Context /\ ctx'.user = ctx.user /\ ctx'.apps = ctx.apps
      /\ ctx'.selected = ctx.selected
      /\ (ctx'.leaving # None \/ ctx'.leaving = ctx.leaving)
  <2> DEFINE leaving == IF out THEN "login" ELSE ctx.leaving
             loading == ctx.isLoading /\ call.then # "loading"
  <2>1. /\ leaving \in Some(Pages) /\ loading \in BOOLEAN
        /\ (leaving # None \/ leaving = ctx.leaving)
    BY <1>2, PageNames, NoneType DEF Context, Some
  <2>2. ctx' = [ctx EXCEPT !.leaving = leaving, !.isLoading = loading]
    BY <1>1
  <2> HIDE DEF leaving, loading
  <2> QED
    BY <1>2, <2>1, <2>2 DEF Context
<1>5. /\ ViewOK(u) /\ u.page = view.page /\ u.shown = view.shown /\ u.stale = view.stale
      /\ u.filter = view.filter /\ u.search = view.search
  BY <1>2, EndsFacts
<1>6. OrdersOK(u, Drop(calls, i))
  BY <1>2, OrdersEnd
<1> DEFINE stale == view.stale \/ Listing(call)
<1>7. view' = [u EXCEPT !.stale = stale] /\ stale \in BOOLEAN
  BY <1>1, <1>2, <1>5 DEF View, Listing
<1> HIDE DEF call, u, stale
<1>8. /\ view' \in View /\ view'.page = u.page /\ view'.shown = u.shown
      /\ view'.filter = u.filter /\ view'.search = u.search /\ view'.dialog = u.dialog
      /\ view'.filled = u.filled /\ view'.result = u.result /\ view'.busy = u.busy
      /\ view'.stale = stale
  BY <1>5, <1>7 DEF ViewOK, View
<1>9. ViewOK(view')
  BY <1>5, <1>8 DEF ViewOK
<1>10. calls' \in Seq(Call) /\ OrdersOK(view', calls')
  BY <1>2, <1>6, <1>8, OrdersView, DropFacts
<1>11. Typed'
  BY <1>1, <1>3, <1>4, <1>9, <1>10 DEF Typed
<1>12. ShownOK(ctx', view', calls')
  <2>1. CASE Listing(call)
    BY <1>8, <2>1 DEF ShownOK, stale
  <2>2. CASE ~Listing(call)
    <3>1. (\A j \in DOMAIN calls' : ~Listing(calls'[j])) =>
            \A j \in DOMAIN calls : ~Listing(calls[j])
      BY <1>2, <2>2, ListingDrop DEF call
    <3>2. Asks(ctx', view') = Asks(ctx, view)
      BY <1>4, <1>5, <1>8 DEF Asks
    <3> QED
      BY <1>4, <1>5, <1>8, <3>1, <3>2, ShownKept DEF stale
  <2> QED
    BY <2>1, <2>2
<1>13. \A j \in DOMAIN calls' : From(calls, calls'[j], storage'.token)
  BY <1>2, FromDrop
<1>14. OwnersKept(server, server) /\ UNCHANGED <<server, crossed>>
  BY <1>1, OwnersSame
<1>15. AccountOK(server, storage', ctx', calls', crossed)
  BY <1>3, <1>4, <1>13, <1>14, AccountKept
<1> QED
  BY <1>10, <1>11, <1>12, <1>14, <1>15

(* A request of the tab is answered and another one sent: the list is        *)
(* fetched, or the rest of it.                                               *)
LEMMA FetchStep ==
  ASSUME ConsoleInv, NEW i \in DOMAIN calls, NEW v, NEW requests \in 0 .. 3,
         ViewOK(v), OrdersOK(v, Drop(calls, i)),
         v.page = view.page, v.shown = view.shown, v.stale = view.stale,
         v.filter = view.filter, v.search = view.search,
         view' = v,
         calls' = Append(Without(i), ListOf(calls[i].of, requests, calls[i].by)),
         UNCHANGED <<server, storage, ctx, crossed>>
  PROVE  ConsoleInv'
<1> USE DEF ConsoleInv
<1> DEFINE e == ListOf(calls[i].of, requests, calls[i].by)
           d == Drop(calls, i)
<1>1. /\ calls \in Seq(Call) /\ calls[i] \in Call /\ storage' \in Storage /\ Typed
      /\ d \in Seq(Call) /\ calls' = Append(d, e)
  BY DropFacts DEF Typed, Without, Drop
<1>2. calls[i].of \in Some(Questions) /\ calls[i].by \in {"page", "left", "gone"}
  BY <1>1 DEF Call
<1>3. e \in Call /\ e.op = "list" /\ e.by = calls[i].by /\ ~IsOrder(e)
  BY <1>1, <1>2, ListOfType
<1>4. \A j \in DOMAIN d : From(calls, d[j], storage.token)
  BY <1>1, FromDrop
<1>5. (\A j \in DOMAIN d : ~Listing(d[j])) /\ ~Listing(calls[i]) =>
         \A j \in DOMAIN calls : ~Listing(calls[j])
  BY <1>1, ListingDrop
<1>6. OrdersOK(v, d)
  OBVIOUS
<1> HIDE DEF d, e
<1>7. calls' \in Seq(Call) /\ OrdersOK(view', calls')
  BY <1>1, <1>3, <1>6, OrdersAppend, AppendFacts
<1>8. Typed'
  BY <1>1, <1>7 DEF Typed
<1>9. ShownOK(ctx, view', calls')
  <2>1. (\A j \in DOMAIN calls' : ~Listing(calls'[j])) =>
          \A j \in DOMAIN calls : ~Listing(calls[j])
    BY <1>1, <1>3, <1>5, ListingAppend DEF Listing
  <2>2. Asks(ctx, v) = Asks(ctx, view)
    BY DEF Asks
  <2>3. ShownOK(ctx, v, calls')
    BY <2>1, <2>2 DEF ShownOK
  <2> QED
    BY <2>3
<1>10. \A j \in DOMAIN calls' : From(calls, calls'[j], storage.token)
  <2>1. From(calls, e, storage.token)
    BY <1>3 DEF From
  <2> QED
    BY <1>1, <1>3, <1>4, <2>1, FromAppend
<1>11. AccountOK(server, storage, ctx, calls', crossed)
  BY <1>10, AccountCalls
<1> QED
  BY <1>7, <1>8, <1>9, <1>11

LEMMA ListAnsweredStep ==
  ASSUME ConsoleInv, NEW i \in DOMAIN calls, ListAnswered(i)
  PROVE  ConsoleInv'
<1> USE DEF ConsoleInv
<1>1. /\ calls[i].op = "list" /\ UNCHANGED <<server, storage, ctx, crossed>>
  BY DEF ListAnswered, Succeeds
<1>2. /\ calls \in Seq(Call) /\ calls[i] \in Call /\ ctx \in Context
      /\ ViewOK(view) /\ view \in View /\ Without(i) = Drop(calls, i)
      /\ Drop(calls, i) \in Seq(Call)
  BY DropFacts DEF Typed, ViewOK, Without, Drop
<1>3. calls[i].of \in Some(Questions) /\ calls[i].more \in 0 .. 3
  BY <1>2 DEF Call
<1>4. ~IsOrder(calls[i])
  BY <1>1, FormNames, NotOrder
<1>5. OrdersOK(view, Drop(calls, i))
  BY <1>2, <1>4, OrdersDrop
<1>6. CASE calls[i].more > 1
  <2> DEFINE more == calls[i].more - 1
  <2>1. /\ view' = view
        /\ calls' = Append(Without(i), ListOf(calls[i].of, more, calls[i].by))
    BY <1>6 DEF ListAnswered
  <2>2. more \in 0 .. 3
    BY <1>3, <1>6
  <2> HIDE DEF more
  <2> QED
    BY <1>1, <1>2, <1>5, <2>1, <2>2, FetchStep
<1>7. CASE ~(calls[i].more > 1)
  <2> DEFINE u == Ends(calls[i], view)
             stale == calls[i].of # Asks(ctx, view)
  <2>1. /\ calls' = Drop(calls, i)
        /\ view' = IF calls[i].by # "page" THEN view
                   ELSE [u EXCEPT !.shown = calls[i].of, !.stale = stale]
    BY <1>2, <1>7 DEF ListAnswered
  <2>2. /\ ViewOK(u) /\ u.page = view.page
        /\ u.filter = view.filter /\ u.search = view.search
    BY <1>2, EndsFacts
  <2>3. OrdersOK(u, Drop(calls, i)) /\ stale \in BOOLEAN
    BY <1>2, OrdersEnd
  <2>4. calls' \in Seq(Call)
        /\ \A j \in DOMAIN calls' : From(calls, calls'[j], storage.token)
    BY <1>2, <2>1, FromDrop
  <2>5. AccountOK(server, storage, ctx, calls', crossed)
    BY <2>4, AccountCalls
  <2>6. CASE calls[i].by # "page"
    <3>1. view' = view /\ ~Listing(calls[i])
      BY <2>1, <2>6 DEF Listing
    <3>2. Typed'
      BY <1>1, <2>4, <3>1 DEF Typed
    <3>3. ShownOK(ctx, view, calls')
      BY <1>2, <2>1, <3>1, ListingDrop, ShownKept
    <3> QED
      BY <1>1, <1>5, <2>1, <2>5, <3>1, <3>2, <3>3
  <2>7. CASE calls[i].by = "page"
    <3>1. view' = [u EXCEPT !.shown = calls[i].of, !.stale = stale]
      BY <2>1, <2>7
    <3> HIDE DEF u
    <3>2. stale <=> calls[i].of # Asks(ctx, view)
      OBVIOUS
    <3> HIDE DEF stale
    <3>3. /\ view' \in View /\ view'.page = u.page /\ view'.shown = calls[i].of
          /\ view'.filter = u.filter /\ view'.search = u.search /\ view'.dialog = u.dialog
          /\ view'.filled = u.filled /\ view'.result = u.result /\ view'.busy = u.busy
          /\ view'.stale = stale
      BY <1>3, <2>2, <2>3, <3>1 DEF ViewOK, View
    <3>4. ViewOK(view')
      BY <2>2, <3>3 DEF ViewOK
    <3>5. OrdersOK(view', calls')
      BY <2>1, <2>3, <3>3, OrdersView, ZenonT(40)
    <3>6. Asks(ctx, view') = Asks(ctx, view)
      BY <2>2, <3>3 DEF Asks
    <3>7. ShownOK(ctx, view', calls')
      BY <3>2, <3>3, <3>6 DEF ShownOK
    <3>8. Typed'
      BY <1>1, <2>4, <3>4 DEF Typed
    <3> QED
      BY <1>1, <2>5, <3>5, <3>7, <3>8
  <2> QED
    BY <2>6, <2>7
<1> QED
  BY <1>6, <1>7
LEMMA FetchingView ==
  ASSUME NEW v, ViewOK(v), NEW fetching \in BOOLEAN, NEW w,
         w = [v EXCEPT !.fetching = fetching]
  PROVE  /\ ViewOK(w) /\ w.page = v.page /\ w.shown = v.shown /\ w.stale = v.stale
         /\ w.filter = v.filter /\ w.search = v.search /\ w.result = v.result
         /\ w.busy = v.busy
<1>1. v \in View
  BY DEF ViewOK
<1>2. /\ w \in View /\ w.page = v.page /\ w.shown = v.shown /\ w.stale = v.stale
      /\ w.filter = v.filter /\ w.search = v.search /\ w.result = v.result
      /\ w.busy = v.busy /\ w.dialog = v.dialog /\ w.filled = v.filled
  BY <1>1 DEF View
<1> QED
  BY <1>2 DEF ViewOK

LEMMA FetchAgainStep ==
  ASSUME ConsoleInv, NEW i \in DOMAIN calls, NEW v, FetchAgain(i, v),
         ViewOK(v), OrdersOK(v, Drop(calls, i)),
         v.page = view.page, v.shown = view.shown, v.stale = view.stale,
         v.filter = view.filter, v.search = view.search
  PROVE  ConsoleInv'
<1> DEFINE fetching == v.fetching \/ (calls[i].by = "page" /\ PageOf[v.page].spinner)
           w == [v EXCEPT !.fetching = fetching]
<1>1. /\ UNCHANGED <<server, storage, ctx, crossed>> /\ view' = w
      /\ calls' = Append(Without(i), ListOf(calls[i].of, calls[i].more, calls[i].by))
  BY DEF FetchAgain
<1>2. fetching \in BOOLEAN
  BY PageFacts DEF ViewOK, View
<1>3. calls[i].more \in 0 .. 3
  <2>1. calls[i] \in Call
    BY DEF ConsoleInv, Typed
  <2> QED
    BY <2>1 DEF Call
<1> HIDE DEF fetching
<1> DEFINE more == calls[i].more
<1>4. more \in 0 .. 3
      /\ calls' = Append(Without(i), ListOf(calls[i].of, more, calls[i].by))
  BY <1>1, <1>3
<1>5. w = [v EXCEPT !.fetching = fetching]
  OBVIOUS
<1> HIDE DEF w, more
<1>6. /\ ViewOK(w) /\ w.page = v.page /\ w.shown = v.shown /\ w.stale = v.stale
      /\ w.filter = v.filter /\ w.search = v.search /\ w.result = v.result
      /\ w.busy = v.busy
  BY <1>2, <1>5, FetchingView
<1>7. OrdersOK(w, Drop(calls, i))
  BY <1>6, OrdersView
<1>8. /\ w.page = view.page /\ w.shown = view.shown /\ w.stale = view.stale
      /\ w.filter = view.filter /\ w.search = view.search
  BY <1>6
<1> QED
  BY <1>1, <1>4, <1>6, <1>7, <1>8, FetchStep

LEMMA RowAnsweredStep ==
  ASSUME ConsoleInv, NEW i \in DOMAIN calls, RowAnswered(i)
  PROVE  ConsoleInv'
<1>1. FetchAgain(i, view) /\ calls[i].op = "edit"
  BY DEF RowAnswered, Succeeds
<1>2. ~IsOrder(calls[i])
  BY <1>1, FormNames, NotOrder
<1>3. ViewOK(view) /\ OrdersOK(view, Drop(calls, i))
  BY <1>2, OrdersDrop DEF ConsoleInv, Typed
<1> QED
  BY <1>1, <1>3, FetchAgainStep

LEMMA FormAnsweredStep ==
  ASSUME ConsoleInv, NEW i \in DOMAIN calls, NEW form \in Forms, FormAnswered(i, form)
  PROVE  ConsoleInv'
<1>1. ViewOK(view) /\ OrdersOK(view, calls) /\ calls \in Seq(Call) /\ calls[i].op = form
  BY DEF ConsoleInv, Typed, FormAnswered, Succeeds
<1>2. CASE calls[i].by # "page"
  <2>1. FetchAgain(i, view)
    BY <1>2 DEF FormAnswered
  <2>2. OrdersOK(view, Drop(calls, i))
    BY <1>1, <1>2, OrdersDrop DEF IsOrder
  <2> QED
    BY <1>1, <2>1, <2>2, FetchAgainStep
<1>3. CASE calls[i].by = "page"
  <2> DEFINE u == Ends(calls[i], view)
             did == FormOf[form]
             result == u.result \/ did.result
             dialog == IF did.closes /\ u.dialog = form THEN None ELSE u.dialog
             filled == IF did.emptied THEN u.filled \ {form} ELSE u.filled
             v == [u EXCEPT !.result = result, !.dialog = dialog, !.filled = filled]
  <2>1. FetchAgain(i, v)
    BY <1>3 DEF FormAnswered
  <2>2. IsOrder(calls[i])
    BY <1>1, <1>3 DEF IsOrder, Holds
  <2>3. form \in PageOf[view.page].forms /\ view.page \in Pages
    BY <1>1, <2>2, FormNames DEF OrdersOK, ViewOK, View
  <2>4. /\ ViewOK(u) /\ u.page = view.page /\ u.shown = view.shown /\ u.stale = view.stale
        /\ u.filter = view.filter /\ u.search = view.search
    BY <1>1, EndsFacts
  <2>5. u.busy = FALSE
    BY <1>1, <1>3, <2>2 DEF Ends, ViewOK, View, IsOrder
  <2>6. did.result => \A f \in PageOf[view.page].forms : FormOf[f].result
    BY <2>3, ResultForms
  <2>7. did.result \in BOOLEAN /\ u \in View
    BY <2>4, FormFacts DEF ViewOK
  <2> HIDE DEF u, did
  <2>8. result \in BOOLEAN
        /\ (result => \A f \in PageOf[view.page].forms : FormOf[f].result)
    BY <2>4, <2>6, <2>7 DEF ViewOK, View
  <2>9. dialog \in Some(PageOf[view.page].forms) /\ dialog \in Some(Forms)
    BY <2>4, <2>7 DEF ViewOK, View, Some
  <2>10. filled \subseteq PageOf[view.page].forms /\ filled \in SUBSET Forms
    BY <2>4, <2>7 DEF ViewOK, View
  <2> HIDE DEF result, dialog, filled
  <2>11. /\ v \in View /\ v.page = u.page /\ v.shown = u.shown /\ v.stale = u.stale
         /\ v.filter = u.filter /\ v.search = u.search /\ v.busy = u.busy
         /\ v.result = result /\ v.dialog = dialog /\ v.filled = filled
    BY <2>7, <2>8, <2>9, <2>10 DEF View
  <2> HIDE DEF v
  <2>12. ViewOK(v)
    BY <2>4, <2>8, <2>9, <2>10, <2>11 DEF ViewOK
  <2>13. OrdersOK(v, Drop(calls, i))
    <3>1. v.busy = FALSE
      BY <2>5, <2>11
    <3> QED
      BY <1>1, <2>2, <3>1, OrdersOver, OrdersNone
  <2> QED
    BY <2>1, <2>4, <2>11, <2>12, <2>13, FetchAgainStep
<1> QED
  BY <1>2, <1>3

(* The order goes on as another request of the page.                         *)
LEMMA OrdersGoOn ==
  ASSUME NEW cs \in Seq(Call), NEW e \in Call, NEW v \in View, v.busy,
         \A i \in DOMAIN cs : ~IsOrder(cs[i]), IsOrder(e), e.op = "refresh"
  PROVE  OrdersOK(v, Append(cs, e))
<1> DEFINE u == [v EXCEPT !.busy = FALSE]
<1>1. u.busy = FALSE
  BY DEF View
<1> HIDE DEF u
<1>2. OrdersOK(u, cs)
  BY <1>1, OrdersNone
<1> QED
  BY <1>1, <1>2, OrdersNew

LEMMA AppAnsweredStep ==
  ASSUME ConsoleInv, NEW i \in DOMAIN calls, AppAnswered(i)
  PROVE  ConsoleInv'
<1> USE DEF ConsoleInv
<1> DEFINE then == IF calls[i].op \in Forms THEN "busy" ELSE "none"
           e == RefreshApps(calls[i].of, then, calls[i].by)
           d == Drop(calls, i)
           created == calls[i].op = "createApp" /\ calls[i].by = "page"
           result == view.result \/ created
<1>1. /\ calls[i].op \in AppEdits /\ UNCHANGED <<server, storage, ctx, crossed>>
      /\ calls' = Append(d, e) /\ view' = [view EXCEPT !.result = result]
  BY DEF AppAnswered, Succeeds, Without, Drop
<1>2. /\ Typed /\ calls \in Seq(Call) /\ calls[i] \in Call /\ storage' \in Storage
      /\ ctx \in Context /\ ViewOK(view) /\ view \in View /\ d \in Seq(Call)
      /\ view.page \in Pages
  BY <1>1, DropFacts DEF Typed, ViewOK, View
<1>3. /\ calls[i].of \in Some(Questions) /\ calls[i].by \in {"page", "left", "gone"}
      /\ then \in {"none", "loading", "busy"} /\ (then = "busy" <=> calls[i].op \in Forms)
  BY <1>2 DEF Call
<1>4. calls[i].op # "list" /\ calls[i].op # "refresh"
  BY <1>1 DEF AppEdits
<1>5. IsOrder(calls[i]) <=> calls[i].by = "page" /\ calls[i].op \in Forms
  BY <1>4, NotOrder DEF IsOrder, Holds
<1> HIDE DEF then
<1>6. /\ e \in Call /\ e.op = "refresh" /\ e.as = storage'.token /\ e.got = "none"
      /\ (IsOrder(e) <=> IsOrder(calls[i]))
  BY <1>2, <1>3, <1>5, RefreshAppsType
<1>7. \A j \in DOMAIN d : From(calls, d[j], storage.token)
  BY <1>2, FromDrop
<1>8. (\A j \in DOMAIN d : ~Listing(d[j])) => \A j \in DOMAIN calls : ~Listing(calls[j])
  BY <1>2, <1>4, ListingDrop DEF Listing
<1>9. created =>
        /\ IsOrder(calls[i])
        /\ \A f \in PageOf[view.page].forms : FormOf[f].result
  <2>1. SUFFICES ASSUME created
                 PROVE  /\ IsOrder(calls[i])
                        /\ \A f \in PageOf[view.page].forms : FormOf[f].result
    OBVIOUS
  <2>2. IsOrder(calls[i]) /\ "createApp" \in Forms
    BY <1>5, <2>1, FormNames
  <2>3. "createApp" \in PageOf[view.page].forms
    BY <1>4, <2>1, <2>2 DEF OrdersOK
  <2>4. FormOf["createApp"].result
    BY <2>2, FormFacts
  <2> QED
    BY <1>2, <2>2, <2>3, <2>4, ResultForms
<1>10. /\ result \in BOOLEAN
       /\ (result => \A f \in PageOf[view.page].forms : FormOf[f].result)
       /\ (result => view.result \/ IsOrder(calls[i]))
  BY <1>2, <1>9 DEF ViewOK, View
<1> HIDE DEF created, result
<1>11. /\ view' \in View /\ view'.page = view.page /\ view'.shown = view.shown
       /\ view'.stale = view.stale /\ view'.filter = view.filter
       /\ view'.search = view.search /\ view'.busy = view.busy /\ view'.result = result
       /\ view'.dialog = view.dialog /\ view'.filled = view.filled
  BY <1>1, <1>2, <1>10 DEF View
<1>12. ViewOK(view')
  BY <1>2, <1>10, <1>11 DEF ViewOK
<1>13. OrdersOK(view', calls')
  <2>1. CASE IsOrder(calls[i])
    <3>1. \A j \in DOMAIN d : ~IsOrder(d[j])
      BY <1>2, <2>1, OrdersOver
    <3>2. view'.busy
      BY <1>11, <2>1 DEF OrdersOK
    <3> HIDE DEF d, e
    <3> QED
      BY <1>1, <1>2, <1>6, <1>11, <2>1, <3>1, <3>2, OrdersGoOn
  <2>2. CASE ~IsOrder(calls[i])
    <3>1. OrdersOK(view, d)
      BY <1>2, <2>2, OrdersDrop
    <3> HIDE DEF d, e
    <3>2. OrdersOK(view', d)
      BY <1>10, <1>11, <2>2, <3>1, OrdersView
    <3> QED
      BY <1>1, <1>2, <1>6, <2>2, <3>2, OrdersAppend
  <2> QED
    BY <2>1, <2>2
<1> HIDE DEF d, e
<1>14. calls' \in Seq(Call)
  BY <1>1, <1>2, <1>6, AppendFacts
<1>15. Typed'
  BY <1>1, <1>12, <1>14 DEF Typed
<1>16. ShownOK(ctx, view', calls')
  <2>1. (\A j \in DOMAIN calls' : ~Listing(calls'[j])) =>
          \A j \in DOMAIN calls : ~Listing(calls[j])
    BY <1>1, <1>2, <1>6, <1>8, ListingAppend
  <2>2. Asks(ctx, view') = Asks(ctx, view)
    BY <1>11 DEF Asks
  <2> QED
    BY <1>11, <2>1, <2>2 DEF ShownOK
<1>17. \A j \in DOMAIN calls' : From(calls, calls'[j], storage.token)
  <2>1. From(calls, e, storage.token)
    BY <1>1, <1>6 DEF From
  <2> QED
    BY <1>1, <1>2, <1>6, <1>7, <2>1, FromAppend
<1>18. AccountOK(server, storage, ctx, calls', crossed)
  BY <1>17, AccountCalls
<1> QED
  BY <1>1, <1>13, <1>15, <1>16, <1>18

(* What the tab holds once the list of call has come.                        *)
LEMMA AccountTaken ==
  ASSUME ConsoleInv, NEW i \in DOMAIN calls, calls[i].op = "refresh", calls[i].got = "ok",
         NEW d, d.user = ctx.user, d.apps = calls[i].list, d.leaving = ctx.leaving,
         d.selected # None => \/ ctx.selected # None /\ d.selected.id = ctx.selected.id
                              \/ d.selected.id \in DOMAIN calls[i].list,
         NEW st, st.token = storage.token,
         NEW ds, \A j \in DOMAIN ds : From(calls, ds[j], storage.token)
  PROVE  AccountOK(server, st, d, ds, crossed)
<1> USE DEF ConsoleInv
<1>1. calls[i].as # None /\ \A a \in DOMAIN calls[i].list : server[a].owner = calls[i].as
  BY DEF AccountOK, ListOK
<1>2. AccountOK(server, storage, ctx, ds, crossed)
  BY AccountCalls
<1>3. ~crossed /\ ctx.leaving = None => calls[i].as = ctx.user
  BY <1>1 DEF AccountOK
<1> QED
  BY <1>1, <1>2, <1>3 DEF AccountOK

LEMMA AppsAnsweredStep ==
  ASSUME ConsoleInv, NEW i \in DOMAIN calls, AppsAnswered(i)
  PROVE  ConsoleInv'
<1> USE DEF ConsoleInv
<1> DEFINE apps == calls[i].list
           loading == ctx.isLoading /\ calls[i].then # "loading"
           c == [ctx EXCEPT !.apps = apps, !.isLoading = loading]
           d == Drop(calls, i)
           u == Ends(calls[i], view)
           kept == IF ctx.selected = None THEN None
                   ELSE [ctx.selected EXCEPT !.listed = FALSE]
           k == [c EXCEPT !.selected = kept]
           taken(id) == [c EXCEPT !.selected = AppObject(apps, id)]
<1>1. /\ calls[i].op = "refresh" /\ calls[i].got = "ok" /\ UNCHANGED <<server, crossed>>
      /\ Without(i) = d
  BY DEF AppsAnswered, Succeeds, Outcomes, Without, Drop
<1>2. /\ Typed /\ calls \in Seq(Call) /\ calls[i] \in Call /\ storage \in Storage
      /\ ctx \in Context /\ ViewOK(view) /\ view \in View /\ d \in Seq(Call)
  BY DropFacts DEF Typed, ViewOK
<1>3. apps \in Lists /\ loading \in BOOLEAN
  BY <1>2 DEF Call, Context
<1>4. /\ ViewOK(u) /\ u.page = view.page /\ u.shown = view.shown /\ u.stale = view.stale
      /\ u.filter = view.filter /\ u.search = view.search
  BY <1>2, EndsFacts
<1>5. OrdersOK(u, d)
  BY <1>2, OrdersEnd
<1>6. \A j \in DOMAIN d : From(calls, d[j], storage.token)
  BY <1>2, FromDrop
<1>7. (\A j \in DOMAIN d : ~Listing(d[j])) => \A j \in DOMAIN calls : ~Listing(calls[j])
  BY <1>1, <1>2, ListingDrop DEF Listing
<1>8. ctx.selected = None
      \/ ctx.selected \in [id : AppIds, webhook : BOOLEAN, listed : BOOLEAN]
  BY <1>2 DEF Context, Some
<1>9. /\ kept \in Some([id : AppIds, webhook : BOOLEAN, listed : BOOLEAN])
      /\ kept # None => ctx.selected # None /\ kept.id = ctx.selected.id
  BY <1>8 DEF Some
<1>10. \/ \E id \in DOMAIN apps : /\ storage' = [storage EXCEPT !.app = id]
                                  /\ Commit(taken(id), u, d, TRUE)
       \/ Commit(k, u, d, FALSE) /\ UNCHANGED storage
  <2>1. CASE storage.app \in DOMAIN apps
    BY <1>1, <2>1 DEF AppsAnswered
  <2>2. CASE storage.app \notin DOMAIN apps
    BY <1>1, <2>2 DEF AppsAnswered
  <2> QED
    BY <2>1, <2>2
<1> HIDE DEF apps, loading, d, u, kept
<1>11. /\ c \in Context /\ c.user = ctx.user /\ c.apps = apps /\ c.leaving = ctx.leaving
  BY <1>2, <1>3 DEF Context
<1> HIDE DEF c
<1>12. ASSUME NEW id \in DOMAIN apps, storage' = [storage EXCEPT !.app = id],
              Commit(taken(id), u, d, TRUE)
       PROVE  ConsoleInv'
  <2> DEFINE app == AppObject(apps, id)
             s == [c EXCEPT !.selected = app]
  <2>1. app \in [id : AppIds, webhook : BOOLEAN, listed : BOOLEAN] /\ app.id = id
        /\ id \in AppIds
    BY <1>3, AppObjectType, ListDomain
  <2> HIDE DEF app
  <2>2. /\ s \in Context /\ s.user = ctx.user /\ s.apps = apps /\ s.leaving = ctx.leaving
        /\ s.selected = app
    BY <1>11, <2>1 DEF Context, Some
  <2>3. storage' \in Storage /\ storage'.token = storage.token
    BY <1>2, <1>12, <2>1 DEF Storage, Some
  <2>4. Commit(s, u, d, TRUE)
    BY <1>12 DEF app
  <2> HIDE DEF s
  <2>5. /\ ctx' = s /\ ViewOK(view') /\ calls' \in Seq(Call)
        /\ OrdersOK(view', calls') /\ ShownOK(s, view', calls')
        /\ \A j \in DOMAIN calls' : calls'[j].op = "refresh" =>
             j \in DOMAIN d /\ calls'[j] = d[j]
    BY <1>2, <1>4, <1>5, <2>2, <2>3, <2>4, CommitStep
  <2>6. Typed'
    BY <1>1, <1>2, <2>2, <2>3, <2>5 DEF Typed
  <2>7. \A j \in DOMAIN calls' : From(calls, calls'[j], storage.token)
    BY <1>6, <2>5, FromSome
  <2>8. s.selected # None => s.selected.id \in DOMAIN calls[i].list
    BY <2>1, <2>2 DEF apps
  <2>9. AccountOK(server, storage', s, calls', crossed)
    BY <1>1, <2>2, <2>3, <2>7, <2>8, AccountTaken DEF apps
  <2> QED
    BY <1>1, <2>5, <2>6, <2>9
<1>13. CASE Commit(k, u, d, FALSE) /\ UNCHANGED storage
  <2>1. /\ k \in Context /\ k.user = ctx.user /\ k.apps = apps /\ k.leaving = ctx.leaving
        /\ k.selected = kept
    BY <1>9, <1>11 DEF Context
  <2> HIDE DEF k
  <2>2. ShownOK(k, u, d)
    <3>1. k.selected # None => ctx.selected # None /\ Asks(k, u) = Asks(ctx, view)
      BY <1>4, <1>9, <2>1 DEF Asks
    <3> QED
      BY <1>4, <1>7, <3>1, ShownKept
  <2>3. /\ ctx' = k /\ ViewOK(view') /\ calls' \in Seq(Call)
        /\ OrdersOK(view', calls') /\ ShownOK(k, view', calls')
        /\ \A j \in DOMAIN calls' : calls'[j].op = "refresh" =>
             j \in DOMAIN d /\ calls'[j] = d[j]
    BY <1>2, <1>4, <1>5, <1>13, <2>1, <2>2, CommitStep
  <2>4. Typed'
    BY <1>1, <1>2, <1>13, <2>1, <2>3 DEF Typed
  <2>5. \A j \in DOMAIN calls' : From(calls, calls'[j], storage.token)
    BY <1>6, <2>3, FromSome
  <2>6. AccountOK(server, storage, k, calls', crossed)
    BY <1>1, <1>9, <2>1, <2>5, AccountTaken DEF apps
  <2> QED
    BY <1>1, <1>13, <2>3, <2>4, <2>6
<1> QED
  BY <1>10, <1>12, <1>13
LEMMA LoginAnsweredStep ==
  ASSUME ConsoleInv, NEW i \in DOMAIN calls, LoginAnswered(i)
  PROVE  ConsoleInv'
<1> USE DEF ConsoleInv
<1> DEFINE account == calls[i].as
           c == [ctx EXCEPT !.user = account]
           l == Left(Drop(calls, i))
           e == RefreshApps(calls[i].of, "none", "left")
           cs == Append(l, e)
           home == NewView("home")
<1>1. /\ storage' = [storage EXCEPT !.token = account] /\ UNCHANGED server
      /\ crossed' = (crossed \/ ctx.user \notin {None, account})
      /\ Commit(c, home, cs, TRUE)
  BY DEF LoginAnswered, Without, Drop
<1>2. /\ Typed /\ calls \in Seq(Call) /\ calls[i] \in Call /\ storage \in Storage
      /\ ctx \in Context /\ Drop(calls, i) \in Seq(Call)
  BY DropFacts DEF Typed
<1>3. account \in Some(Accounts) /\ calls[i].of \in Some(Questions)
  BY <1>2 DEF Call
<1>4. storage' \in Storage /\ storage'.token = account
  BY <1>1, <1>2, <1>3 DEF Storage
<1>5. /\ c \in Context /\ c.user = account /\ c.apps = ctx.apps /\ c.leaving = ctx.leaving
      /\ c.selected = ctx.selected
  BY <1>2, <1>3 DEF Context
<1>6. ViewOK(home) /\ home.busy = FALSE
  BY PageNames, NewViewOK
<1>7. /\ e \in Call /\ e.op = "refresh" /\ e.by = "left" /\ e.as = account
      /\ e.got = "none"
  BY <1>2, <1>3, <1>4, RefreshAppsType
<1>8. l \in Seq(Call) /\ \A j \in DOMAIN l : l[j].by = "left"
  BY <1>2, LeftFacts
<1>9. \A j \in DOMAIN l : From(calls, l[j], account)
  <2> DEFINE d == Drop(calls, i)
  <2>1. \A j \in DOMAIN d : From(calls, d[j], account)
    BY <1>2, FromDrop
  <2> HIDE DEF d
  <2>2. /\ DOMAIN Left(d) = DOMAIN d
        /\ \A j \in DOMAIN d : /\ Left(d)[j].op = d[j].op /\ Left(d)[j].as = d[j].as
                               /\ Left(d)[j].got = d[j].got /\ Left(d)[j].list = d[j].list
    BY <1>2, LeftFacts DEF d
  <2>3. \A j \in DOMAIN Left(d) : From(calls, Left(d)[j], account)
    BY <2>1, <2>2 DEF From
  <2> QED
    BY <2>3 DEF d
<1> HIDE DEF account, c, l, e, home
<1>10. cs \in Seq(Call) /\ \A j \in DOMAIN cs : cs[j].by = "left"
  BY <1>7, <1>8, AppendFacts
<1>11. OrdersOK(home, cs)
  BY <1>6, <1>10, OrdersNone DEF IsOrder
<1>12. \A j \in DOMAIN cs : From(calls, cs[j], account)
  <2>1. From(calls, e, account)
    BY <1>7 DEF From
  <2> QED
    BY <1>7, <1>8, <1>9, <2>1, FromAppend
<1> HIDE DEF cs
<1>13. /\ ctx' = c /\ ViewOK(view') /\ calls' \in Seq(Call)
       /\ OrdersOK(view', calls') /\ ShownOK(c, view', calls')
       /\ \A j \in DOMAIN calls' : calls'[j].op = "refresh" =>
            j \in DOMAIN cs /\ calls'[j] = cs[j]
  BY <1>1, <1>2, <1>4, <1>5, <1>6, <1>10, <1>11, CommitStep
<1>14. Typed'
  BY <1>1, <1>2, <1>4, <1>5, <1>13 DEF Typed
<1>15. \A j \in DOMAIN calls' : From(calls, calls'[j], account)
  BY <1>12, <1>13, FromSome
<1>16. AccountOK(server, storage', c, calls', crossed')
  <2>1. \A j \in DOMAIN calls' : ListOK(server, calls'[j])
    BY <1>2, <1>15, OwnersSame, ListsKept DEF AccountOK
  <2>2. ASSUME ~crossed', c.leaving = None
        PROVE  /\ storage'.token \in {None, c.user}
               /\ \A j \in DOMAIN calls' : calls'[j].op = "refresh" =>
                    calls'[j].as \in {None, c.user}
               /\ \A a \in DOMAIN c.apps : server[a].owner = c.user /\ c.user # None
               /\ c.selected # None =>
                    server[c.selected.id].owner = c.user /\ c.user # None
    <3>1. ~crossed /\ ctx.user \in {None, account} /\ ctx.leaving = None
      BY <1>1, <1>5, <2>2
    <3>2. /\ \A k \in DOMAIN calls : calls[k].op = "refresh" =>
               calls[k].as \in {None, ctx.user}
          /\ \A a \in DOMAIN ctx.apps : server[a].owner = ctx.user /\ ctx.user # None
          /\ ctx.selected # None =>
               server[ctx.selected.id].owner = ctx.user /\ ctx.user # None
      BY <3>1 DEF AccountOK
    <3>3. \A j \in DOMAIN calls' : calls'[j].op = "refresh" =>
            calls'[j].as \in {None, account}
      BY <1>15, <3>1, <3>2 DEF From
    <3> QED
      BY <1>4, <1>5, <3>1, <3>2, <3>3
  <2> QED
    BY <2>1, <2>2 DEF AccountOK
<1> QED
  BY <1>1, <1>13, <1>14, <1>16
-----------------------------------------------------------------------------
(* THE SPECIFICATION *)

LEMMA ConsoleInit == Init => ConsoleInv
<1> SUFFICES ASSUME Init PROVE ConsoleInv
  OBVIOUS
<1>1. PICK owner \in Starts : server =
        [a \in AppIds |-> [owner |-> owner[a], live |-> owner[a] # None,
         set |-> [paused |-> FALSE, webhook |-> TRUE, download |-> TRUE]]]
  BY DEF Init
<1>2. PICK page \in Pages : view = NewView(page)
  BY DEF Init
<1>3. server \in Server
  <2> DEFINE row(a) == [owner |-> owner[a], live |-> owner[a] # None,
                        set |-> [paused |-> FALSE, webhook |-> TRUE, download |-> TRUE]]
  <2>1. \A a \in AppIds :
          row(a) \in [owner : Some(Accounts), live : BOOLEAN, set : Settings]
    BY StartsType DEF Some, Settings
  <2>2. server = [a \in AppIds |-> row(a)]
    BY <1>1
  <2> HIDE DEF row
  <2> QED
    BY <2>1, <2>2 DEF Server
<1>4. ViewOK(view) /\ view.busy = FALSE /\ view.page \in Pages
  BY <1>2, NewViewOK DEF ViewOK, View
<1>5. ctx \in Context /\ ctx.selected = None /\ ctx.apps = <<>>
  <2> DEFINE none == <<>>
  <2>1. ctx = [user |-> None, apps |-> none, selected |-> None, isLoading |-> FALSE,
               leaving |-> view.page]
    BY DEF Init
  <2>2. none \in Lists
    BY EmptyLists
  <2> HIDE DEF none
  <2>3. ctx \in Context /\ ctx.selected = None /\ ctx.apps = none
    BY <1>4, <2>1, <2>2 DEF Context, Some
  <2> QED
    BY <2>3 DEF none
<1>6. ctx.leaving # None
  BY <1>4, NoneType DEF Init
<1>7. storage \in Storage /\ calls = <<>>
  BY DEF Init, Storage
<1>8. calls \in Seq(Call) /\ DOMAIN calls = {}
  BY <1>7, EmptyLists
<1>9. Typed
  BY <1>3, <1>4, <1>5, <1>7, <1>8 DEF Typed
<1>10. OrdersOK(view, calls)
  BY <1>4, <1>8, OrdersNone
<1>11. ShownOK(ctx, view, calls)
  BY <1>5 DEF ShownOK
<1>12. AccountOK(server, storage, ctx, calls, crossed)
  BY <1>6, <1>8 DEF AccountOK
<1> QED
  BY <1>9, <1>10, <1>11, <1>12 DEF ConsoleInv

LEMMA UserStep ==
  ASSUME ConsoleInv, User
  PROVE  ConsoleInv'
<1>1. ASSUME NEW page \in Pages, Navigate(page)
      PROVE  ConsoleInv'
  BY <1>1, LeaveStep DEF Navigate, Click
<1>2. CASE Reload
  <2>1. view.page \in Pages
    BY DEF ConsoleInv, Typed, ViewOK, View
  <2> QED
    BY <1>2, <2>1, LoadStep DEF Reload
<1>3. CASE Logout
  BY <1>3, LogoutStep
<1>4. CASE OtherTab
  BY <1>4, OtherTabStep
<1>5. CASE RefreshLogs
  BY <1>5, RefreshLogsStep
<1>6. CASE EditRow
  BY <1>6, EditRowStep
<1>7. ASSUME NEW id \in AppIds, Select(id) \/ TogglePauseApp(id) \/ DeleteApp(id)
      PROVE  ConsoleInv'
  BY <1>7, SelectStep, EditAppStep
<1>8. ASSUME NEW filter \in Filters, SetFilter(filter)
      PROVE  ConsoleInv'
  BY <1>8, SetFilterStep
<1>9. ASSUME NEW search \in Searches, SetSearch(search)
      PROVE  ConsoleInv'
  BY <1>9, SetSearchStep
<1>10. ASSUME NEW form \in Forms, OpenDialog(form) \/ Fill(form)
       PROVE  ConsoleInv'
  BY <1>10, FormsStep
<1>11. ASSUME NEW form \in Forms, Submit(form)
       PROVE  ConsoleInv'
  BY <1>11, SubmitStep
<1>12. CASE CloseDialog \/ Done
  BY <1>12, FormsStep
<1>13. ASSUME NEW account \in Accounts, SubmitLogin(account)
       PROVE  ConsoleInv'
  BY <1>13, SubmitLoginStep
<1> QED
  BY <1>1, <1>2, <1>3, <1>4, <1>5, <1>6, <1>7, <1>8, <1>9, <1>10, <1>11, <1>12,
     <1>13 DEF User

LEMMA ConsoleStep == ConsoleInv /\ [Next]_vars => ConsoleInv'
<1> SUFFICES ASSUME ConsoleInv, [Next]_vars PROVE ConsoleInv'
  OBVIOUS
<1>1. CASE User
  BY <1>1, UserStep
<1>2. CASE Redirect
  BY <1>2, PageNames, LeaveStep DEF Redirect
<1>3. CASE Unload
  <2>1. ctx.leaving \in Pages /\ Load(ctx.leaving, Gone(calls))
        /\ UNCHANGED <<server, storage>>
    BY <1>3 DEF Unload, ConsoleInv, Typed, Context, Some
  <2> QED
    BY <2>1, LoadStep
<1>4. ASSUME NEW i \in DOMAIN calls, Settle(i)
      PROVE  ConsoleInv'
  BY <1>4, ReadRowStep, ServeStep, FailStep, ListAnsweredStep, RowAnsweredStep, FormAnsweredStep,
     AppAnsweredStep, AppsAnsweredStep, LoginAnsweredStep DEF Settle
<1>5. CASE UNCHANGED vars
  BY <1>5 DEF vars, ConsoleInv, Typed
<1> QED
  BY <1>1, <1>2, <1>3, <1>4, <1>5 DEF Next

(* The whole of what a tab keeps: its flags and its orders agree, what it    *)
(* shows answers the present question, and it holds one account's            *)
(* applications (authContext.tsx:38-102, api.ts:33-46 and the pages).        *)
THEOREM ConsoleSafe == Spec => []ConsoleInv
<1>1. Init => ConsoleInv
  BY ConsoleInit
<1>2. ConsoleInv /\ [Next]_vars => ConsoleInv'
  BY ConsoleStep
<1> QED
  BY <1>1, <1>2, PTL DEF Spec

(* Every variable has its type, whatever the pages and the server do.        *)
THEOREM TypeCorrect == Spec => []TypeOK
<1>1. ConsoleInv => TypeOK
  <2> SUFFICES ASSUME ConsoleInv PROVE TypeOK
    OBVIOUS
  <2>1. /\ server \in Server /\ storage \in Storage /\ ctx \in Context /\ view \in View
        /\ ViewOK(view) /\ calls \in Seq(Call)
    BY DEF ConsoleInv, Typed, ViewOK
  <2>2. /\ ctx.user \in Some(Accounts) /\ ctx.apps \in Lists
        /\ ctx.selected \in Some([id : AppIds, webhook : BOOLEAN, listed : BOOLEAN])
        /\ ctx.isLoading \in BOOLEAN /\ ctx.leaving \in Some(Pages)
    BY <2>1 DEF Context
  <2>3. /\ view.page \in Pages /\ view.shown \in Some(Questions)
        /\ view.filter \in Filters /\ view.search \in Searches
        /\ {view.busy, view.fetching, view.result, view.stale} \subseteq BOOLEAN
    BY <2>1 DEF View
  <2>4. /\ view.dialog \in Some(PageOf[view.page].forms)
        /\ view.filled \subseteq PageOf[view.page].forms
    BY <2>1 DEF ViewOK
  <2>5. ASSUME NEW i \in DOMAIN calls
        PROVE  /\ calls[i].op \in Ops /\ calls[i].as \in Some(Accounts)
               /\ calls[i].of \in Some(Questions)
               /\ calls[i].by \in {"page", "left", "gone"}
               /\ calls[i].then \in {"none", "loading", "busy"}
               /\ calls[i].more \in 0 .. 3
               /\ calls[i].app \in Some(AppIds) /\ calls[i].paused \in BOOLEAN
               /\ calls[i].got \in Gots
               /\ calls[i].list \in Lists
    <3>1. calls[i] \in Call
      BY <2>1
    <3> QED
      BY <3>1 DEF Call
  <2> QED
    BY <2>1, <2>2, <2>3, <2>4, <2>5 DEF TypeOK, Server, Storage
<1> QED
  BY <1>1, ConsoleSafe, PTL

(* A tab in which no other account has signed in over the first shows that   *)
(* account's applications only, through logouts, expired tokens and late     *)
(* answers (authContext.tsx:38-102, api.ts:33-46).                           *)
THEOREM TabOfOneAccount == Spec => []OneAccount
<1>1. ConsoleInv => OneAccount
  BY DEF ConsoleInv, AccountOK, OneAccount
<1> QED
  BY <1>1, ConsoleSafe, PTL

(* The loading flag is set exactly while one order of the page is in         *)
(* progress; a page that shows a result has none but a refresh.              *)
THEOREM OrdersOneByOne == Spec => []OneOrder
<1>1. ConsoleInv => OneOrder
  BY DEF ConsoleInv, OrdersOK, IsOrder, OneOrder
<1> QED
  BY <1>1, ConsoleSafe, PTL

(* When no list request of the page is in flight and none failed or came     *)
(* late, what is displayed answers the present selection, filter and search  *)
(* (licenses/page.tsx:36-40 and its like).                                   *)
THEOREM ShownFollows == Spec => []ShownIsSelected
<1>1. ConsoleInv => ShownIsSelected
  BY DEF ConsoleInv, ShownOK, Listing, ShownIsSelected
<1> QED
  BY <1>1, ConsoleSafe, PTL
==============================================================================
