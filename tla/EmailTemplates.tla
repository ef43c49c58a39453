--------------------------- MODULE EmailTemplates ---------------------------
(***************************************************************************)
(* Where the words of a mail come from: the theme and the copy in the        *)
(* database, the copy of both that each server keeps for CACHE_MS            *)
(* (email-templates.service.ts), and the editor page that changes them.      *)
(* A text is the number of the edit that made it; 0 is the built-in one.     *)
(*                                                                          *)
(* An edit is a write, then the server forgets its cache. A load is two      *)
(* reads on connections of their own, then the server stores what it read,   *)
(* the defaults if a read failed.                                           *)
(***************************************************************************)
EXTENDS Naturals

CONSTANTS
  Servers,     \* instances of the backend
  Renders,     \* mails being rendered and pages being listed
  MaxEdits     \* bound on the edits of the theme and of the copy

ASSUME TemplatesAssumption == MaxEdits \in Nat

Texts == 0..MaxEdits
Wording == [theme : Texts, copy : Texts]
BuiltIn == [theme |-> 0, copy |-> 0]

VARIABLES
  stored,      \* the tables: theme and copy
  tplCache,    \* the cache of each server
  render,      \* the loads in flight
  tplEdit,     \* the request of the editor page
  editor,      \* the editor page: the copy it was filled from, and what was typed
  answered     \* history: the newest edits each server has confirmed

templatesVars == <<stored, tplCache, render, tplEdit, editor, answered>>

NoCache == [kept |-> FALSE]
Caches == [kept : {TRUE}, fresh : BOOLEAN, config : Wording,
           failed : BOOLEAN,        \* history: it holds the defaults since a read failed
           overlapped : BOOLEAN]    \* history: an edit ended here while it was read
NoLoad == [pc |-> "idle"]
Loads == [pc : {"read"}, server : Servers, config : Wording,
          todo : SUBSET {"theme", "copy"}, failed : BOOLEAN, overlapped : BOOLEAN]
NoEdit == [pc |-> "idle"]
Edits == [pc : {"write", "forget", "done"}, server : Servers, field : {"theme", "copy"}]

TemplatesTypeOK ==
  /\ stored \in Wording
  /\ tplCache \in [Servers -> Caches \cup {NoCache}]
  /\ render \in [Renders -> Loads \cup {NoLoad}]
  /\ tplEdit \in Edits \cup {NoEdit}
  /\ editor \in [shown : Texts, typed : BOOLEAN]
  /\ answered \in [Servers -> Wording]

TemplatesInit ==
  /\ stored = BuiltIn
  /\ tplCache = [s \in Servers |-> NoCache]
  /\ render = [r \in Renders |-> NoLoad]
  /\ tplEdit = NoEdit
  /\ editor = [shown |-> 0, typed |-> FALSE]
  /\ answered = [s \in Servers |-> BuiltIn]

-----------------------------------------------------------------------------
(* config() and its callers render, themeFor, list and preview: nothing to   *)
(* do where the cache is fresh. render asks twice, for the copy and then for *)
(* the theme, so its two answers may be of different loads.                 *)
BeginLoad(r, s) ==
  /\ render[r] = NoLoad
  /\ ~(tplCache[s].kept /\ tplCache[s].fresh)
  /\ render' = [render EXCEPT ![r] =
       [pc |-> "read", server |-> s, config |-> BuiltIn, todo |-> {"theme", "copy"},
        failed |-> FALSE, overlapped |-> FALSE]]
  /\ UNCHANGED <<stored, tplCache, tplEdit, editor, answered>>

ReadField(r, field) ==
  /\ render[r].pc = "read" /\ field \in render[r].todo
  /\ render' = [render EXCEPT ![r].config[field] = stored[field], ![r].todo = @ \ {field}]
  /\ UNCHANGED <<stored, tplCache, tplEdit, editor, answered>>

StoreCache(r, config, failed) ==
  /\ tplCache' = [tplCache EXCEPT ![render[r].server] =
       [kept |-> TRUE, fresh |-> TRUE, config |-> config, failed |-> failed,
        overlapped |-> render[r].overlapped]]
  /\ render' = [render EXCEPT ![r] = NoLoad]
  /\ UNCHANGED <<stored, tplEdit, editor, answered>>

EndLoad(r) == render[r].pc = "read" /\ render[r].todo = {} /\ StoreCache(r, render[r].config, FALSE)

(* The error is logged and the defaults are cached like any other result. *)
FailLoad(r) == render[r].pc = "read" /\ render[r].todo # {} /\ StoreCache(r, BuiltIn, TRUE)

CacheAges(s) ==
  /\ tplCache[s].kept /\ tplCache[s].fresh
  /\ tplCache' = [tplCache EXCEPT ![s].fresh = FALSE]
  /\ UNCHANGED <<stored, render, tplEdit, editor, answered>>

Restart(s) ==
  /\ tplCache' = [tplCache EXCEPT ![s] = NoCache]
  /\ render' = [r \in Renders |-> IF render[r] # NoLoad /\ render[r].server = s
                                  THEN NoLoad ELSE render[r]]
  /\ tplEdit' = IF tplEdit # NoEdit /\ tplEdit.server = s THEN NoEdit ELSE tplEdit
  /\ UNCHANGED <<stored, editor, answered>>

-----------------------------------------------------------------------------
(* setTheme, save and reset: one write, then invalidate() and the answer. *)
SendEdit(s, field) ==
  /\ tplEdit = NoEdit /\ stored[field] < MaxEdits
  /\ tplEdit' = [pc |-> "write", server |-> s, field |-> field]
  /\ UNCHANGED <<stored, tplCache, render, editor, answered>>

WriteEdit ==
  /\ tplEdit.pc = "write"
  /\ stored' = [stored EXCEPT ![tplEdit.field] = @ + 1]
  /\ tplEdit' = [tplEdit EXCEPT !.pc = "forget"]
  /\ UNCHANGED <<tplCache, render, editor, answered>>

(* Mutant: the copy is saved without dropping the cache. *)
MutForget ==
  /\ tplEdit.pc = "forget"
  /\ tplCache' = IF tplEdit.field = "copy" THEN tplCache
                 ELSE [tplCache EXCEPT ![tplEdit.server] = NoCache]
  /\ render' = [r \in Renders |->
       IF render[r] # NoLoad /\ render[r].server = tplEdit.server
       THEN [render[r] EXCEPT !.overlapped = TRUE] ELSE render[r]]
  /\ answered' = [answered EXCEPT ![tplEdit.server][tplEdit.field] = stored[tplEdit.field]]
  /\ tplEdit' = [tplEdit EXCEPT !.pc = "done"]
  /\ UNCHANGED <<stored, editor>>

Forget ==
  /\ tplEdit.pc = "forget"
  /\ tplCache' = [tplCache EXCEPT ![tplEdit.server] = NoCache]
  /\ render' = [r \in Renders |->
       IF render[r] # NoLoad /\ render[r].server = tplEdit.server
       THEN [render[r] EXCEPT !.overlapped = TRUE] ELSE render[r]]
  /\ answered' = [answered EXCEPT ![tplEdit.server][tplEdit.field] = stored[tplEdit.field]]
  /\ tplEdit' = [tplEdit EXCEPT !.pc = "done"]
  /\ UNCHANGED <<stored, editor>>

-----------------------------------------------------------------------------
(* The page. Its own load of the list is one of the loads above. *)

TypeCopy ==
  /\ editor' = [editor EXCEPT !.typed = TRUE]
  /\ UNCHANGED <<stored, tplCache, render, tplEdit, answered>>

DiscardCopy ==
  /\ editor' = [editor EXCEPT !.typed = FALSE]
  /\ UNCHANGED <<stored, tplCache, render, tplEdit, answered>>

SaveClicked(s) == SendEdit(s, "copy")
ResetClicked(s) == SendEdit(s, "copy")
ThemeCard(s) == SendEdit(s, "theme")

(* Save and Discard need a change of the text, Reset a text that is not the *)
(* built-in one.                                                           *)
Editor(s) ==
  \/ ~editor.typed /\ TypeCopy
  \/ editor.typed /\ (SaveClicked(s) \/ DiscardCopy)
  \/ editor.shown > 0 /\ ResetClicked(s)

(* The list comes from the tables, not from the cache. The form is filled    *)
(* again whenever the row of its type has changed, over what is being typed. *)
Listed ==
  /\ editor' = IF editor.shown = stored.copy THEN editor
               ELSE [shown |-> stored.copy, typed |-> FALSE]
  /\ tplEdit' = IF tplEdit.pc = "done" THEN NoEdit ELSE tplEdit
  /\ UNCHANGED <<stored, tplCache, render, answered>>

TemplatesNext ==
  \/ \E r \in Renders :
       \/ \E s \in Servers : BeginLoad(r, s)
       \/ \E field \in {"theme", "copy"} : ReadField(r, field)
       \/ EndLoad(r) \/ FailLoad(r)
  \/ \E s \in Servers : CacheAges(s) \/ Restart(s) \/ Editor(s) \/ ThemeCard(s)
  \/ WriteEdit \/ Forget \/ Listed

-----------------------------------------------------------------------------
(* A server that has confirmed an edit never renders an older text from its  *)
(* cache, unless the load that filled it was under way when the edit ended   *)
(* or could not read the tables. "An edit applies straight away"             *)
(* (email-templates.service.ts:39) holds with these two exceptions, and only *)
(* on the server that took the edit.                                        *)
ConfirmedEditsShow ==
  \A s \in Servers : tplCache[s].kept =>
    \/ tplCache[s].failed \/ tplCache[s].overlapped
    \/ \A field \in {"theme", "copy"} : tplCache[s].config[field] >= answered[s][field]
=============================================================================
