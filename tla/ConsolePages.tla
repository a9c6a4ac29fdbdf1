---------------------------- MODULE ConsolePages ----------------------------
(* The pages of the web console (frontend/src/app): what each one fetches,   *)
(* which of its controls send a request, and how its forms behave.  Console  *)
(* runs them.  Wording and layout are left out.                              *)
EXTENDS Naturals

(* A form can be submitted when its required fields are filled and it is not *)
(* disabled; it opens with its defaults, and a success empties the fields it *)
(* clears.  A dialog is opened by a button and may close on success; or it   *)
(* shows what the server answered, and the form is hidden behind the result. *)
Form(required, defaults, clears, dialog, closes, result) ==
  [filled |-> required \subseteq defaults, emptied |-> required \cap clears # {},
   dialog |-> dialog, closes |-> closes, result |-> result]

LoginForm    == Form({"username", "password"}, {}, {}, FALSE, FALSE, FALSE)
LicenseForm  == Form({"mask", "count", "maxHWIDs"}, {"mask", "count", "maxHWIDs"},
                     {}, TRUE, FALSE, TRUE)
AppForm      == Form({"name"}, {"version"}, {}, TRUE, FALSE, TRUE)
VariableForm == Form({"varKey", "varValue"}, {"minTier"}, {"varKey", "varValue"},
                     TRUE, TRUE, FALSE)
FileForm     == Form({"fileName", "storageKey", "sha256Hash"}, {"minTier"},
                     {"fileName", "storageKey", "sha256Hash"}, TRUE, TRUE, FALSE)
ResellerForm == Form({"username", "password"}, {"credits"},
                     {"username", "password"}, TRUE, TRUE, FALSE)
CreditsForm  == Form({"creditAdjustment"}, {"creditAdjustment"}, {}, TRUE, TRUE, FALSE)
WebhookForm  == Form({"webhookURL"}, {}, {}, FALSE, FALSE, FALSE)

FormOf == [login |-> LoginForm, generate |-> LicenseForm, createApp |-> AppForm,
           variable |-> VariableForm, file |-> FileForm, reseller |-> ResellerForm,
           credits |-> CreditsForm, webhook |-> WebhookForm]

(* What a row of a page's table can be told to do; each of these sends one   *)
(* request and then fetches the list again.                                  *)
LicenseRow  == {"resetHWID", "updateStatus", "deleteLicense"}
UserRow     == {"toggleBan", "deleteUser"}
VariableRow == {"deleteVariable"}
FileRow     == {"deleteFile"}

(* A page: its forms, the requests it makes for what it shows (one after the *)
(* other), what they depend on besides the selected application, whether its *)
(* loading flag is about them, and its row operations.                       *)
Page(forms, requests, deps, spinner, rows) ==
  [forms |-> forms, requests |-> requests, deps |-> deps, spinner |-> spinner,
   rows |-> rows]

LoginPage     == Page({"login"}, 0, {}, FALSE, {})
HomePage      == Page({"generate"}, 3, {}, FALSE, {})
AppsPage      == Page({"createApp"}, 0, {}, FALSE, {})
LicensesPage_NoSearch ==   \* seeded fault
  Page({"generate"}, 1, {"filter"}, TRUE, LicenseRow)
LicensesPage  == Page({"generate"}, 1, {"filter", "search"}, TRUE, LicenseRow)
UsersPage     == Page({}, 1, {"search"}, TRUE, UserRow)
VariablesPage == Page({"variable"}, 1, {}, FALSE, VariableRow)
FilesPage     == Page({"file"}, 1, {}, FALSE, FileRow)
WebhooksPage  == Page({"webhook"}, 0, {}, FALSE, {})
ResellersPage == Page({"reseller", "credits"}, 1, {}, FALSE, {})
LogsPage      == Page({}, 1, {}, TRUE, {})
DocsPage      == Page({}, 0, {}, FALSE, {})

PageOf == [login |-> LoginPage, home |-> HomePage, apps |-> AppsPage,
           licenses |-> LicensesPage, users |-> UsersPage,
           variables |-> VariablesPage, files |-> FilesPage,
           webhooks |-> WebhooksPage, resellers |-> ResellersPage,
           logs |-> LogsPage, docs |-> DocsPage]

Pages  == DOMAIN PageOf
Linked == {"home", "apps", "licenses", "users", "variables", "files", "webhooks",
           "resellers", "logs", "docs"}   \* by the Sidebar

Following_Everywhere(page) == TRUE   \* seeded fault
Fetching(page)  == PageOf[page].requests > 0
(* shows the selected application's data                                     *)
Following(page) == Fetching(page) \/ page = "webhooks"

=============================================================================
