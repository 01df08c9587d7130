------------------------- MODULE WorkspaceBranding -------------------------
(***************************************************************************)
(* The logo of one workspace: the panel that changes it                    *)
(* (WorkspaceBrandingSettings), the handlers of WorkspaceService that do,  *)
(* the row, the objects in MinIO, and the copy of the workspace that       *)
(* React Query keeps for the panel.                                        *)
(*                                                                         *)
(* The panel sends a request on every change, each keystroke in the        *)
(* address field included, and does not wait for the one before: a handler *)
(* is split where it reads the row, puts the object, writes the row and    *)
(* removes the object.                                                     *)
(***************************************************************************)
EXTENDS Naturals

CONSTANTS
    LogoRequests,  \* the requests in flight
    Extensions,    \* the extensions of the image files
    Addresses,     \* the addresses typed into the field
    MaxSends       \* bound: the requests the panel sends

ASSUME BrandingAssumption == MaxSends \in Nat

VARIABLES
    logoUrl,  \* workspaces.logo_url
    objects,  \* the logos in MinIO: the key is fixed but for the extension
    call,     \* the requests in flight
    shown,    \* logoUrl in the panel's copy of the workspace
    fetch,    \* the query ["workspace", "detail", id] in flight
    panel,    \* the state of the component
    sends,    \* how many requests the panel has sent
    past      \* history: what has happened that makes less hold

brandingVars == <<logoUrl, objects, call, shown, fetch, panel, sends, past>>

-----------------------------------------------------------------------------
(* The values of a logo                                                    *)

Logo == [kind : {"none"}] \cup [kind : {"address"}, of : Addresses]
                          \cup [kind : {"key", "presigned"}, of : Extensions]

NoLogo     == [kind |-> "none"]
Address(a) == [kind |-> "address", of |-> a]
Key(e)     == [kind |-> "key", of |-> e]

\* getWorkspaceById: an object key is presigned, an address is left as it is.
Presign(value) == IF value.kind = "key" THEN [value EXCEPT !.kind = "presigned"] ELSE value

\* The requests are sent, go through the steps of their handler, and are
\* answered.
Steps == {"update", "upload", "write", "delete", "clear", "remove", "answer", "ok", "error"}

LogoCall == [step : Steps, new : Logo, old : Logo, undo : BOOLEAN]
NoLogoCall == [step |-> "none", new |-> NoLogo, old |-> NoLogo, undo |-> FALSE]

InStep(r, step) == call[r].step = step
Step(r, step)   == call' = [call EXCEPT ![r].step = step]
InCourse        == {r \in LogoRequests : ~ InStep(r, "none")}

\* overlap: two requests in flight at once; failed: a request or a query failed;
\* replaced: an update wrote over the key of a stored logo
Past == {"overlap", "failed", "replaced"}

-----------------------------------------------------------------------------
(* The panel                                                               *)

\* What it offers: the buttons are there only then.
OffersDismiss == ~ panel.removed /\ (panel.file \/ panel.text # NoLogo)
OffersRemove  == panel.file
OffersClear   == panel.text # NoLogo
OffersDelete  == shown # NoLogo /\ ~ panel.removed /\ ~ panel.file /\ panel.text = NoLogo
OffersUndo    == panel.removed

Sends(r, step, new, undo) ==
    /\ InStep(r, "none")
    /\ sends < MaxSends
    /\ sends' = sends + 1
    /\ call' = [call EXCEPT ![r] = [step |-> step, new |-> new, old |-> NoLogo,
                                    undo |-> undo]]
    /\ past' = past \cup (IF InCourse = {} THEN {} ELSE {"overlap"})
    /\ UNCHANGED <<logoUrl, objects, shown, fetch>>

\* handleFileChange
ChooseFile(r, e) ==
    /\ Sends(r, "update", Key(e), FALSE)
    /\ panel' = [file |-> TRUE, text |-> NoLogo, removed |-> FALSE]

\* handleLogoUrlChange, for every change of the field
TypeAddress(r, a) ==
    /\ Sends(r, "update", Address(a), FALSE)
    /\ panel' = [file |-> FALSE, text |-> Address(a), removed |-> FALSE]

\* handleLogoUrlChange, when the field is emptied: the chosen file stays.
EmptyAddress(r) ==
    /\ panel.text # NoLogo
    /\ Sends(r, "update", NoLogo, FALSE)
    /\ panel' = [panel EXCEPT !.text = NoLogo, !.removed = FALSE]

\* handleRemoveUploadedLogo
RemoveUploaded(r) ==
    /\ OffersRemove
    /\ Sends(r, "delete", NoLogo, FALSE)
    /\ panel' = [panel EXCEPT !.file = FALSE]

\* handleDeleteLogo
DeleteCurrent(r) ==
    /\ OffersDelete
    /\ Sends(r, "delete", NoLogo, FALSE)
    /\ panel' = [file |-> FALSE, text |-> NoLogo, removed |-> TRUE]

\* handleUndoDelete sends the logo the panel shows, as an address.
UndoDelete(r) ==
    /\ OffersUndo
    /\ Sends(r, "update", shown, TRUE)
    /\ panel' = [panel EXCEPT !.removed = FALSE]

\* handleClearLogoUrl
ClearAddress(r) ==
    /\ OffersClear
    /\ Sends(r, "delete", NoLogo, FALSE)
    /\ panel' = [panel EXCEPT !.text = NoLogo]

\* The cross on the preview forgets the choice and sends nothing.
DismissPreview ==
    /\ OffersDismiss
    /\ panel' = [panel EXCEPT !.file = FALSE, !.text = NoLogo]
    /\ UNCHANGED <<logoUrl, objects, call, shown, fetch, sends, past>>

-----------------------------------------------------------------------------
(* updateWorkspaceLogo                                                     *)

\* Mutant of UpdateRead: the row is written before the object is there.
UpdateSkipsUpload(r) ==
    /\ InStep(r, "update")
    /\ call' = [call EXCEPT ![r].old = logoUrl,
                            ![r].step = IF call[r].new = NoLogo THEN "error" ELSE "write"]
    /\ UNCHANGED <<logoUrl, objects, shown, fetch, panel, sends, past>>

\* The row is read, and the owner checked.  Without a file or an address the
\* handler ends with logoRequired.
UpdateRead(r) ==
    /\ InStep(r, "update")
    /\ call' = [call EXCEPT ![r].old = logoUrl,
                            ![r].step = CASE call[r].new = NoLogo     -> "error"
                                          [] call[r].new.kind = "key" -> "upload"
                                          [] OTHER                    -> "write"]
    /\ UNCHANGED <<logoUrl, objects, shown, fetch, panel, sends, past>>

\* uploadFile overwrites an object of the same key.
Upload(r) ==
    /\ InStep(r, "upload")
    /\ objects' = objects \cup {call[r].new.of}
    /\ Step(r, "write")
    /\ UNCHANGED <<logoUrl, shown, fetch, panel, sends, past>>

\* The row is written.  The removal of the old object that follows removes
\* nothing: the last two parts of a logo's key are not the key of an object.
WriteLogo(r) ==
    /\ InStep(r, "write")
    /\ logoUrl' = call[r].new
    /\ Step(r, "answer")
    /\ past' = past \cup (IF call[r].old.kind = "key" /\ call[r].old # call[r].new
                             THEN {"replaced"} ELSE {})
    /\ UNCHANGED <<objects, shown, fetch, panel, sends>>

-----------------------------------------------------------------------------
(* deleteWorkspaceLogo                                                     *)

DeleteRead(r) ==
    /\ InStep(r, "delete")
    /\ call' = [call EXCEPT ![r].old = logoUrl, ![r].step = "clear"]
    /\ UNCHANGED <<logoUrl, objects, shown, fetch, panel, sends, past>>

ClearLogo(r) ==
    /\ InStep(r, "clear")
    /\ logoUrl' = NoLogo
    /\ Step(r, "remove")
    /\ UNCHANGED <<objects, shown, fetch, panel, sends, past>>

\* The object the row named when it was read, unless it was an address.
RemoveObject(r) ==
    /\ InStep(r, "remove")
    /\ objects' = IF call[r].old.kind = "key" THEN objects \ {call[r].old.of} ELSE objects
    /\ Step(r, "answer")
    /\ UNCHANGED <<logoUrl, shown, fetch, panel, sends, past>>

-----------------------------------------------------------------------------
(* Answers, and the copy of the workspace                                  *)

Answer(r) ==
    /\ InStep(r, "answer")
    /\ Step(r, "ok")
    /\ UNCHANGED <<logoUrl, objects, shown, fetch, panel, sends, past>>

\* A query, MinIO or RabbitMQ fails, or the answer is lost; what has been
\* written stays.
HandlerFails(r) ==
    /\ call[r].step \in Steps \ {"ok", "error"}
    /\ Step(r, "error")
    /\ UNCHANGED <<logoUrl, objects, shown, fetch, panel, sends, past>>

\* Mutant of OnSuccess: a query in flight is taken for the new one.
OnSuccessJoins(r) ==
    /\ InStep(r, "ok")
    /\ fetch' = IF fetch.step = "no" THEN [step |-> "asked", data |-> NoLogo] ELSE fetch
    /\ call' = [call EXCEPT ![r] = NoLogoCall]
    /\ UNCHANGED <<logoUrl, objects, shown, panel, sends, past>>

\* onSuccess invalidates the query: one in flight is cancelled, a new one asked.
OnSuccess(r) ==
    /\ InStep(r, "ok")
    /\ fetch' = [step |-> "asked", data |-> NoLogo]
    /\ call' = [call EXCEPT ![r] = NoLogoCall]
    /\ UNCHANGED <<logoUrl, objects, shown, panel, sends, past>>

\* onError only shows a message.
OnError(r) ==
    /\ InStep(r, "error")
    /\ past' = past \cup {"failed"}
    /\ call' = [call EXCEPT ![r] = NoLogoCall]
    /\ UNCHANGED <<logoUrl, objects, shown, fetch, panel, sends>>

\* getWorkspaceById
FetchReads ==
    /\ fetch.step = "asked"
    /\ fetch' = [step |-> "read", data |-> Presign(logoUrl)]
    /\ UNCHANGED <<logoUrl, objects, call, shown, panel, sends, past>>

FetchArrives ==
    /\ fetch.step = "read"
    /\ shown' = fetch.data
    /\ fetch' = [step |-> "no", data |-> NoLogo]
    /\ UNCHANGED <<logoUrl, objects, call, panel, sends, past>>

\* After its retry the query fails and the copy stays.
FetchFails ==
    /\ fetch.step # "no"
    /\ fetch' = [step |-> "no", data |-> NoLogo]
    /\ past' = past \cup {"failed"}
    /\ UNCHANGED <<logoUrl, objects, call, shown, panel, sends>>

-----------------------------------------------------------------------------
\* The panel is opened on a workspace without a logo, with an address, or with
\* a logo that was uploaded.
BrandingInit ==
    /\ logoUrl \in {NoLogo} \cup {Address(a) : a \in Addresses} \cup {Key(e) : e \in Extensions}
    /\ objects = {e \in Extensions : logoUrl = Key(e)}
    /\ call = [r \in LogoRequests |-> NoLogoCall]
    /\ shown = Presign(logoUrl)
    /\ fetch = [step |-> "no", data |-> NoLogo]
    /\ panel = [file |-> FALSE, text |-> NoLogo, removed |-> FALSE]
    /\ sends = 0
    /\ past = {}

PanelSends(r) ==
    \/ \E e \in Extensions : ChooseFile(r, e)
    \/ \E a \in Addresses : TypeAddress(r, a)
    \/ EmptyAddress(r) \/ RemoveUploaded(r) \/ DeleteCurrent(r)
    \/ UndoDelete(r) \/ ClearAddress(r)

HandlerSteps(r) ==
    \/ UpdateRead(r) \/ Upload(r) \/ WriteLogo(r)
    \/ DeleteRead(r) \/ ClearLogo(r) \/ RemoveObject(r)
    \/ Answer(r) \/ HandlerFails(r)

BrandingNext ==
    \/ \E r \in LogoRequests : PanelSends(r) \/ HandlerSteps(r) \/ OnSuccess(r) \/ OnError(r)
    \/ DismissPreview
    \/ FetchReads \/ FetchArrives \/ FetchFails

BrandingSpec == BrandingInit /\ [][BrandingNext]_brandingVars

-----------------------------------------------------------------------------
(* Properties                                                              *)

\* The row, the copy and the requests hold what the handlers put there: the row
\* never a key the browser made up, the copy never a bare key.
BrandingTypeOK ==
    /\ logoUrl \in Logo
    /\ objects \subseteq Extensions
    /\ call \in [LogoRequests -> LogoCall \cup {NoLogoCall}]
    /\ shown \in Logo /\ shown.kind # "key"
    /\ fetch \in [step : {"no", "asked", "read"}, data : Logo]
    /\ panel \in [file : BOOLEAN, text : Logo, removed : BOOLEAN]
    /\ sends \in 0..MaxSends
    /\ past \subseteq Past

Settled == InCourse = {} /\ fetch.step = "no"

\* The row names an object that is there unless requests overlapped: an upload
\* may come between the reading of the row and the removal.  An object that no
\* row names is left by an update over it, by requests that overlapped or failed,
\* and by nothing else: a deletion leaves none.
LogoAccounted ==
    /\ logoUrl.kind = "key" => logoUrl.of \in objects \/ "overlap" \in past
    /\ InCourse = {} /\ past = {} => \A e \in objects : logoUrl = Key(e)

\* Once everything is answered the panel shows the logo of the row, however the
\* requests overlapped, unless one has failed; and if none overlapped (the
\* keystrokes may arrive in any order), that logo is what its fields say: the
\* file, the address, or none.
PanelIsTrue ==
    Settled /\ "failed" \notin past =>
        /\ shown = Presign(logoUrl)
        /\ "overlap" \notin past =>
              /\ panel.file => logoUrl.kind = "key"
              /\ panel.text # NoLogo => logoUrl = panel.text
              /\ panel.removed => logoUrl = NoLogo
=============================================================================
