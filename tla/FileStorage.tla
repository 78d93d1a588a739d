----------------------------- MODULE FileStorage -----------------------------
(***************************************************************************)
(* Uploaded files: those of a request wait in a temporary directory, and   *)
(* the storage service, of which there are two, puts them where they stay  *)
(* (LocalStorageService, CloudflareR2Service).  On the local disk they are *)
(* moved one after the other, and the first failure takes them all back;   *)
(* to R2 they are sent side by side, and nothing is taken back.  No caller *)
(* asks the local service for a private file: that branch is left out.     *)
(***************************************************************************)
EXTENDS Integers, FiniteSets

CONSTANTS
    Files,          \* files clients upload
    Calls,          \* requests that can be in flight at once
    Null            \* not answered

VARIABLES
    storage,        \* STORAGE_TYPE
    temp,           \* files in the temporary directory
    place,          \* place[f]: where f is stored, "none" if it is not
    call,           \* call[k]: request in flight
    answer,         \* answer[f]: what the client of f was told, or Null
    kept            \* (history) files whose removal failed, or which a stop left

vars == <<storage, temp, place, call, answer, kept>>

Storages == {"LOCAL", "R2"}
Answers == {"url", "failed", "deleted"}
NullAssumption == Null \notin Answers
Whereabouts == {"none", "public", "bucket", "private bucket"}

\* todo: files not stored yet; done: those that are.
UploadCall == [op : {"local", "r2"}, todo : SUBSET Files, done : SUBSET Files]
UndoCall == [op : {"undo"}, todo : SUBSET Files, done : SUBSET Files, file : Files]
CallRecords == UploadCall \cup UndoCall \cup [op : {"none"}]

Idle == [op |-> "none"]
Continue(k, record) == call' = [call EXCEPT ![k] = record]
End(k) == Continue(k, Idle)
Put(f, where) == place' = [place EXCEPT ![f] = where]
Tell(files, what) == answer' = [f \in Files |-> IF f \in files THEN what ELSE answer[f]]
-----------------------------------------------------------------------------
Init ==
    /\ storage \in Storages
    /\ temp = {}
    /\ place = [f \in Files |-> "none"]
    /\ call = [k \in Calls |-> Idle]
    /\ answer = [f \in Files |-> Null]
    /\ kept = {}

Upload(k, files) ==
    /\ call[k] = Idle
    /\ files # {}
    /\ \A f \in files : answer[f] = Null /\ f \notin temp /\ place[f] = "none" /\ f \notin kept
    /\ temp' = temp \cup files
    /\ Continue(k, [op |-> IF storage = "R2" THEN "r2" ELSE "local", todo |-> files, done |-> {}])
    /\ UNCHANGED <<storage, place, answer, kept>>
-----------------------------------------------------------------------------
(***************************************************************************)
(* LocalStorageService.uploadFile                                          *)
(***************************************************************************)
\* rename
MoveFile(k, f) ==
    /\ call[k].op = "local" /\ f \in call[k].todo
    /\ temp' = temp \ {f}
    /\ Put(f, "public")
    /\ Continue(k, [call[k] EXCEPT !.todo = @ \ {f}, !.done = @ \cup {f}])
    /\ UNCHANGED <<storage, answer, kept>>

AnswerLocal(k) ==
    /\ call[k].op = "local"
    /\ call[k].todo = {}
    /\ Tell(call[k].done, "url")
    /\ End(k)
    /\ UNCHANGED <<storage, temp, place, kept>>

\* File f is not moved.
FailFile(k, f) ==
    /\ call[k].op = "local" /\ f \in call[k].todo
    /\ Continue(k, [op |-> "undo", todo |-> call[k].todo, done |-> call[k].done, file |-> f])
    /\ UNCHANGED <<storage, temp, place, answer, kept>>

\* MUTANT: files that were moved before the failure stay.
RemoveNone(k) == UNCHANGED <<place, kept>>

\* deleteByIdentifiers: each file is removed, or the error is logged.
RemoveMoved(k) ==
    \E stays \in SUBSET call[k].done :
        /\ place' = [f \in Files |-> IF f \in call[k].done \ stays THEN "none" ELSE place[f]]
        /\ kept' = kept \cup stays

\* The moved files are taken back, and the temporary file of the failure, but
\* not those behind it.
UndoUpload(k) ==
    /\ call[k].op = "undo"
    /\ RemoveMoved(k)
    /\ temp' \in {temp, temp \ {call[k].file}}
    /\ Tell(call[k].todo \cup call[k].done, "failed")
    /\ End(k)
    /\ UNCHANGED storage
-----------------------------------------------------------------------------
(***************************************************************************)
(* CloudflareR2Service.uploadFile: Promise.all; the temporary files stay   *)
(***************************************************************************)
PutObject(k, f) ==
    /\ call[k].op = "r2" /\ f \in call[k].todo
    /\ Put(f, "private bucket")
    /\ LET rest == [call[k] EXCEPT !.todo = @ \ {f}, !.done = @ \cup {f}]
           all == rest.todo = {} /\ answer[f] = Null
       IN  /\ Continue(k, IF rest.todo = {} THEN Idle ELSE rest)
           /\ IF all THEN Tell(rest.done, "url") ELSE UNCHANGED answer
    /\ UNCHANGED <<storage, temp, kept>>

\* The first failure is the answer, and the others go on.
PutFails(k, f) ==
    /\ call[k].op = "r2" /\ f \in call[k].todo
    /\ Tell(call[k].todo \cup call[k].done, "failed")
    /\ Continue(k, IF call[k].todo = {f} THEN Idle ELSE [call[k] EXCEPT !.todo = @ \ {f}])
    /\ UNCHANGED <<storage, temp, place, kept>>

\* getSignedUrl: the client itself puts a file into the other bucket.
PutSigned(f) ==
    /\ storage = "R2"
    /\ answer[f] = Null /\ f \notin temp
    /\ Put(f, "bucket")
    /\ UNCHANGED <<storage, temp, call, answer, kept>>
-----------------------------------------------------------------------------
\* serveFile: what is found under the url or key that was answered.
ServeFile(f) == IF storage = "LOCAL" THEN place[f] = "public" ELSE place[f] = "bucket"

\* deleteByUrls, which only the local service has.
DeleteByUrls(f) ==
    /\ storage = "LOCAL"
    /\ answer[f] = "url" /\ place[f] = "public"
    /\ Put(f, "none")
    /\ answer' = [answer EXCEPT ![f] = "deleted"]
    /\ UNCHANGED <<storage, temp, call, kept>>

Unfinished == UNION {call[k].todo \cup call[k].done : k \in {j \in Calls : call[j] # Idle}}

\* The process stops: nothing that was begun is finished or taken back.
Restart ==
    /\ \E k \in Calls : call[k] # Idle
    /\ kept' = kept \cup Unfinished
    /\ call' = [k \in Calls |-> Idle]
    /\ UNCHANGED <<storage, temp, place, answer>>

Next ==
    \/ \E k \in Calls :
          \/ \E files \in SUBSET Files : Upload(k, files)
          \/ \E f \in Files :
                MoveFile(k, f) \/ FailFile(k, f) \/ PutObject(k, f) \/ PutFails(k, f)
          \/ AnswerLocal(k) \/ UndoUpload(k)
    \/ \E f \in Files : PutSigned(f) \/ DeleteByUrls(f)
    \/ Restart

Spec == Init /\ [][Next]_vars
-----------------------------------------------------------------------------
\* Every variable has its type: the files, where they are, and the requests.
TypeOK ==
    /\ storage \in Storages
    /\ temp \subseteq Files
    /\ place \in [Files -> Whereabouts]
    /\ call \in [Calls -> CallRecords]
    /\ answer \in [Files -> Answers \cup {Null}]
    /\ kept \subseteq Files

\* A file whose url was answered is stored; on the local disk, a file whose
\* upload failed is not, although others of the request were moved before the
\* failure, unless it could not be removed or the process stopped.
UploadsAccounted ==
    \A f \in Files :
        /\ answer[f] = "url" => place[f] # "none"
        /\ answer[f] = "url" /\ place[f] = "public" => ServeFile(f)
        /\ storage = "LOCAL" /\ answer[f] = "failed" => place[f] = "none" \/ f \in kept
=============================================================================
