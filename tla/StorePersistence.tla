-------------------------- MODULE StorePersistence --------------------------
(* MemoryStore and its file: every operation that writes changes the maps    *)
(* under the lock and then replaces the whole file, which is truncated       *)
(* before it is written.  The server may stop at any instant; it loads the   *)
(* file when it starts and creates the default administrator if there is     *)
(* none.                                                                     *)
CONSTANTS
  Rows,     \* what the maps may hold
  Admin,    \* the developer the server creates
  Namesake  \* another developer, with the administrator's e-mail address

Accounts == {Admin, Namesake}

ASSUME AccountsAreRows == Accounts \subseteq Rows

VARIABLES
  phase,   \* "down", "starting", "serving", or in saveToFile: "open", "write"
  mem,     \* the maps
  file,    \* volq_data.json: whole, or cut short; absent is cut short as well
  known,   \* history: the maps when the last operation returned
  lost,    \* history: the maps when the server last stopped
  intact   \* history: no save has failed since one last succeeded

history == <<known, lost, intact>>
vars    == <<phase, mem, file, history>>

Whole(rows) == [whole |-> TRUE, rows |-> rows]
CutShort    == [whole |-> FALSE, rows |-> {}]

TypeOK == /\ phase \in {"down", "starting", "serving", "open", "write"}
          /\ mem \in SUBSET Rows /\ known \in SUBSET Rows /\ lost \in SUBSET Rows
          /\ file \in {CutShort} \cup {Whole(rows) : rows \in SUBSET Rows}
          /\ intact \in BOOLEAN

(* There may be a file of an earlier configuration, with another name for    *)
(* the administrator.                                                        *)
Init == /\ phase = "down" /\ mem = {} /\ intact = TRUE
        /\ file \in {CutShort} \cup {Whole(rows) : rows \in SUBSET (Rows \ {Admin})}
        /\ known = file.rows /\ lost = file.rows
-----------------------------------------------------------------------------
(* loadFromFile: a prefix of the text does not parse, and leaves the maps    *)
(* empty without a word.                                                     *)
Load == /\ phase = "down" /\ phase' = "starting"
        /\ mem' = IF file.whole THEN file.rows ELSE {}
        /\ known' = mem' /\ intact' = TRUE
        /\ UNCHANGED <<file, lost>>

(* seedDefaultAdmin, before the server listens.  CreateDeveloper refuses an  *)
(* e-mail address that is taken; nobody looks at its answer.                 *)
SeedDefaultAdmin_CutOnly ==   \* seeded fault: only after a file cut short
  /\ phase = "starting"
  /\ IF file.whole THEN phase' = "serving" /\ UNCHANGED mem
     ELSE phase' = "open" /\ mem' = mem \cup {Admin}
  /\ UNCHANGED <<file, history>>
SeedDefaultAdmin ==
  /\ phase = "starting"
  /\ IF mem \cap Accounts # {} THEN phase' = "serving" /\ UNCHANGED mem
     ELSE phase' = "open" /\ mem' = mem \cup {Admin}
  /\ UNCHANGED <<file, history>>

(* Any operation of a repository that writes; none touches these developers. *)
Operate_Unsaved(rows) ==   \* seeded fault: a deletion that is not saved
  /\ phase = "serving" /\ rows \cap Accounts = mem \cap Accounts
  /\ mem' = rows
  /\ IF rows \subseteq mem THEN phase' = "serving" /\ known' = rows
     ELSE phase' = "open" /\ UNCHANGED known
  /\ UNCHANGED <<file, lost, intact>>
Operate(rows) ==
  /\ phase = "serving" /\ rows \cap Accounts = mem \cap Accounts
  /\ phase' = "open" /\ mem' = rows
  /\ UNCHANGED <<file, history>>

(* os.WriteFile opens and truncates the file, then writes it.  An error of   *)
(* either is dropped, and the operation reports success.                     *)
Open ==
  /\ phase = "open"
  /\ \/ phase' = "write" /\ file' = CutShort /\ UNCHANGED <<known, intact>>
     \/ phase' = "serving" /\ known' = mem /\ intact' = FALSE /\ UNCHANGED file
  /\ UNCHANGED <<mem, lost>>

Write_Early ==   \* seeded fault: the text is of the maps before the operation
  /\ phase = "write" /\ phase' = "serving" /\ known' = mem
  /\ \/ file' = Whole(known) /\ intact' = TRUE
     \/ intact' = FALSE /\ UNCHANGED file
  /\ UNCHANGED <<mem, lost>>
Write ==
  /\ phase = "write" /\ phase' = "serving" /\ known' = mem
  /\ \/ file' = Whole(mem) /\ intact' = TRUE
     \/ intact' = FALSE /\ UNCHANGED file
  /\ UNCHANGED <<mem, lost>>

(* The server stops, if in Write before or after the text reached the file.  *)
Stop == /\ phase # "down" /\ phase' = "down" /\ mem' = {} /\ lost' = mem
        /\ file' = file \/ (phase = "write" /\ file' = Whole(mem))
        /\ UNCHANGED <<known, intact>>

Next == \/ Load \/ SeedDefaultAdmin \/ Open \/ Write \/ Stop
        \/ \E rows \in SUBSET Rows : Operate(rows)
Spec == Init /\ [][Next]_vars
-----------------------------------------------------------------------------
(* PROPERTIES *)

(* While nothing is being saved, and unless the last save failed, the file   *)
(* holds what the server holds.                                              *)
FileIsCurrent == phase = "serving" /\ intact => file = Whole(mem)

(* The server never serves without its administrator, or the developer who   *)
(* has the administrator's address, whatever it loaded.                      *)
AdminServes == phase = "serving" => mem \cap Accounts # {}

(* Unless a save had failed, what a start loads is all the server knew when  *)
(* it stopped, or all of what the unfinished operation made of it, or, of a  *)
(* file cut short, nothing: never a part, and nothing that was deleted.      *)
AllOrNothing ==
  [][phase = "down" /\ intact =>
       mem' \in {known, lost} \/ (~file.whole /\ mem' = {})]_vars
=============================================================================
