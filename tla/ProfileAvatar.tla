--------------------------- MODULE ProfileAvatar ---------------------------
(***************************************************************************)
(* The avatar of one user: UserService.uploadAvatar step by step, the row, *)
(* the objects in MinIO, and the query ["me"] of each tab, in which        *)
(* ProfileAvatar keeps one upload at a time.  Unlike a logo, an avatar has *)
(* a key of its own (randomUUID), and the old object goes after the row    *)
(* names the new one.                                                      *)
(***************************************************************************)
EXTENDS Naturals, FiniteSets

CONSTANTS
    Tabs,       \* the tabs, or devices, of the user
    MaxAvatars  \* bound: the files uploaded, and the addresses set

ASSUME AvatarAssumption == MaxAvatars \in Nat

VARIABLES
    avatarUrl,  \* users.avatar_url, with the number of its writes so far
    stored,     \* the avatars in MinIO, named by the order of their upload
    lastKey,    \* the last name given out
    upload,     \* the upload of each tab
    me,         \* the query ["me"] of each tab, and the avatar it shows
    mishaps     \* history: what has happened that may leave an object behind

avatarVars == <<avatarUrl, stored, lastKey, upload, me, mishaps>>

-----------------------------------------------------------------------------
\* Key 0: no avatar, or the address of a picture elsewhere (Google's, or one set
\* by updateProfile).
Avatar == [key : Nat, at : Nat]

UploadSteps == {"idle", "read", "put", "write", "remove", "publish", "ok", "refresh", "error"}
UploadState == [step : UploadSteps, old : Nat, key : Nat, at : Nat]
NoAvatar == [key |-> 0, at |-> 0]
NoUpload == [step |-> "idle", old |-> 0, key |-> 0, at |-> 0]

\* overlap: an upload began while another was under way; failed: an upload or
\* a query failed; replaced: updateProfile wrote over the key of an object
Mishaps == {"overlap", "failed", "replaced"}

At(t, step) == upload[t].step = step
Go(t, step) == upload' = [upload EXCEPT ![t].step = step]
Uploading   == {t \in Tabs : upload[t].step \in {"read", "put", "write", "remove", "publish"}}

Written(key) == avatarUrl' = [key |-> key, at |-> avatarUrl.at + 1]

-----------------------------------------------------------------------------
(* The tab                                                                 *)

\* handleUpload: no second file while one is pending.
ChooseAvatar(t) ==
    /\ At(t, "idle")
    /\ lastKey + Cardinality(Uploading) < MaxAvatars
    /\ upload' = [upload EXCEPT ![t] = [NoUpload EXCEPT !.step = "read"]]
    /\ mishaps' = mishaps \cup (IF Uploading = {} THEN {} ELSE {"overlap"})
    /\ UNCHANGED <<avatarUrl, stored, lastKey, me>>

-----------------------------------------------------------------------------
(* uploadAvatar                                                            *)

\* The row is read, then the image validated; a bad one fails here.
AvatarRead(t) ==
    /\ At(t, "read")
    /\ upload' = [upload EXCEPT ![t].step = "put", ![t].old = avatarUrl.key]
    /\ UNCHANGED <<avatarUrl, stored, lastKey, me, mishaps>>

AvatarPut(t) ==
    /\ At(t, "put")
    /\ lastKey' = lastKey + 1
    /\ stored' = stored \cup {lastKey + 1}
    /\ upload' = [upload EXCEPT ![t].step = "write", ![t].key = lastKey + 1]
    /\ UNCHANGED <<avatarUrl, me, mishaps>>

AvatarWrite(t) ==
    /\ At(t, "write")
    /\ Written(upload[t].key)
    /\ upload' = [upload EXCEPT ![t].step = IF upload[t].old = 0 THEN "publish" ELSE "remove",
                                ![t].at = avatarUrl.at + 1]
    /\ UNCHANGED <<stored, lastKey, me, mishaps>>

\* Mutant of AvatarRemove: the key the row names now is taken for the old one.
AvatarRemoveNamed(t) ==
    /\ At(t, "remove")
    /\ stored' = stored \ {avatarUrl.key}
    /\ Go(t, "publish")
    /\ UNCHANGED <<avatarUrl, lastKey, me, mishaps>>

\* deleteFile(oldAvatarUrl).  (Of an address MinIO has no object: AvatarWrite
\* goes past this step, and AvatarFails stands for a refusal of the name.)
AvatarRemove(t) ==
    /\ At(t, "remove")
    /\ stored' = stored \ {upload[t].old}
    /\ Go(t, "publish")
    /\ UNCHANGED <<avatarUrl, lastKey, me, mishaps>>

\* userAvatarUpdated is published, the new key presigned, and the answer sent.
AvatarAnswer(t) ==
    /\ At(t, "publish")
    /\ upload' = [upload EXCEPT ![t] = [NoUpload EXCEPT !.step = "ok", !.at = upload[t].at]]
    /\ UNCHANGED <<avatarUrl, stored, lastKey, me, mishaps>>

\* A step throws (the removal: ConflictError after the row has changed, and no
\* event), or the answer is lost.
AvatarFails(t) ==
    /\ t \in Uploading
    /\ upload' = [upload EXCEPT ![t] = [NoUpload EXCEPT !.step = "error"]]
    /\ mishaps' = mishaps \cup {"failed"}
    /\ UNCHANGED <<avatarUrl, stored, lastKey, me>>

\* updateProfile with an avatarUrl, which the schema keeps to addresses; another
\* client sends it, the profile page does not.
SetAddress ==
    /\ avatarUrl.at + 1 < MaxAvatars
    /\ Written(0)
    /\ mishaps' = mishaps \cup (IF avatarUrl.key = 0 THEN {} ELSE {"replaced"})
    /\ UNCHANGED <<stored, lastKey, upload, me>>

-----------------------------------------------------------------------------
(* The query ["me"]                                                        *)

\* useMe mounted with stale data, or a saved profile invalidates it.
Refetch(t) ==
    /\ me[t].fetch = "no"
    /\ me' = [me EXCEPT ![t].fetch = "asked"]
    /\ UNCHANGED <<avatarUrl, stored, lastKey, upload, mishaps>>

\* Mutant of Invalidate: a query in flight is taken for the new one.
InvalidateJoins(t) ==
    /\ At(t, "ok")
    /\ Go(t, "refresh")
    /\ me' = IF me[t].fetch = "no" THEN [me EXCEPT ![t].fetch = "asked"] ELSE me
    /\ UNCHANGED <<avatarUrl, stored, lastKey, mishaps>>

\* onSuccess: the query in flight is cancelled and a new one awaited; nothing
\* answers to the key ["avatar"], which is invalidated first.
Invalidate(t) ==
    /\ At(t, "ok")
    /\ Go(t, "refresh")
    /\ me' = [me EXCEPT ![t].fetch = "asked", ![t].data = NoAvatar]
    /\ UNCHANGED <<avatarUrl, stored, lastKey, mishaps>>

\* getMyProfile
MeReads(t) ==
    /\ me[t].fetch = "asked"
    /\ me' = [me EXCEPT ![t].fetch = "read", ![t].data = avatarUrl]
    /\ UNCHANGED <<avatarUrl, stored, lastKey, upload, mishaps>>

\* The answer is shown; an upload that waits for it is reported successful.
MeArrives(t) ==
    /\ me[t].fetch = "read"
    /\ me' = [me EXCEPT ![t] = [fetch |-> "no", data |-> NoAvatar, shown |-> me[t].data]]
    /\ upload' = IF At(t, "refresh") THEN [upload EXCEPT ![t] = NoUpload] ELSE upload
    /\ UNCHANGED <<avatarUrl, stored, lastKey, mishaps>>

\* invalidateQueries does not throw: the upload is reported successful as well.
MeFails(t) ==
    /\ me[t].fetch # "no"
    /\ me' = [me EXCEPT ![t].fetch = "no", ![t].data = NoAvatar]
    /\ upload' = IF At(t, "refresh") THEN [upload EXCEPT ![t] = NoUpload] ELSE upload
    /\ mishaps' = mishaps \cup {"failed"}
    /\ UNCHANGED <<avatarUrl, stored, lastKey>>

UploadFailed(t) ==
    /\ At(t, "error")
    /\ upload' = [upload EXCEPT ![t] = NoUpload]
    /\ UNCHANGED <<avatarUrl, stored, lastKey, me, mishaps>>

-----------------------------------------------------------------------------
\* A user without an avatar (or with Google's), or with one they have uploaded.
AvatarInit ==
    /\ avatarUrl \in [key : {0, 1}, at : {0}]
    /\ lastKey = avatarUrl.key
    /\ stored = 1..lastKey
    /\ upload = [t \in Tabs |-> NoUpload]
    /\ me = [t \in Tabs |-> [fetch |-> "no", data |-> NoAvatar, shown |-> avatarUrl]]
    /\ mishaps = {}

AvatarNext ==
    \/ \E t \in Tabs :
          \/ ChooseAvatar(t) \/ AvatarRead(t) \/ AvatarPut(t) \/ AvatarWrite(t)
          \/ AvatarRemove(t) \/ AvatarAnswer(t) \/ AvatarFails(t) \/ UploadFailed(t)
          \/ Refetch(t) \/ Invalidate(t) \/ MeReads(t) \/ MeArrives(t) \/ MeFails(t)
    \/ SetAddress

AvatarSpec == AvatarInit /\ [][AvatarNext]_avatarVars

-----------------------------------------------------------------------------
(* Properties                                                              *)

\* The row, the uploads and the queries hold what the handlers put there; only
\* an upload that found a key in the row goes on to remove an object.
AvatarTypeOK ==
    /\ avatarUrl \in Avatar
    /\ lastKey \in Nat
    /\ stored \subseteq 1..lastKey
    /\ upload \in [Tabs -> UploadState]
    /\ \A t \in Tabs : At(t, "remove") => upload[t].old # 0
    /\ me \in [Tabs -> [fetch : {"no", "asked", "read"}, data : Avatar, shown : Avatar]]
    /\ mishaps \subseteq Mishaps

\* However the uploads of a user overlap or fail, the object their row names is
\* there: an upload removes only what it found in the row before its own write.
\* Once no upload is under way it is the only one, unless uploads overlapped, one
\* failed, or an address was written over a key.
AvatarAccounted ==
    /\ avatarUrl.key # 0 => avatarUrl.key \in stored
    /\ Uploading = {} /\ mishaps = {} => stored \subseteq {avatarUrl.key}

\* "Upload avatar successfully" appears over the uploaded avatar, or over a
\* later one: never over what the tab had asked for before, unless the query
\* failed.
ReadsOwnUpload ==
    [][\A t \in Tabs :
          At(t, "refresh") /\ At(t, "idle")' /\ "failed" \notin mishaps'
          => me'[t].shown.at >= upload[t].at]_avatarVars
=============================================================================
