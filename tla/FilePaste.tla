------------------------------ MODULE FilePaste ------------------------------
(***************************************************************************)
(* Pasting an image or files into a terminal (desktop/src/image_transfer.rs *)
(* and image_paste.rs, with the service's PasteImage and                   *)
(* WriteAuthorizedInput).  A program that understands paste events is      *)
(* offered the image; otherwise the paths are typed, for a remote terminal *)
(* after the files have been copied to its host.  Every file, ssh command  *)
(* and request can fail by itself, and meanwhile the pane may move to      *)
(* another tab or close.                                                   *)
(*                                                                         *)
(* One paste is followed.  A file stands for its copies in the private     *)
(* directories; sizes and names are left out, and so is the removal of     *)
(* forgotten local copies a day later.                                     *)
(***************************************************************************)
EXTENDS Naturals, FiniteSets

CONSTANTS
  Files,   \* the files of a drop
  Places,  \* tabs the pane can be in
  Nowhere, \* the pane is closed
  Clip     \* the clipboard's image, and its file

VARIABLES
  source,   \* what is pasted: {Clip}, or some of Files
  remote,   \* whether the pane's terminal is on another host
  place,    \* where the pane is
  expected, \* FileTransferAuthority: where it was when the paste began
  at, todo, \* the step of the paste, and the files the step has left
  late,     \* the request that was given up and may still be served
  offered,  \* whether the file of an offer is there
  clip,     \* whether the clipboard image's file is there
  staged,   \* files staged for the upload
  uploaded, \* files on the pane's host
  reached,  \* history: what the program got, "event" or "paths", and in which place
  unheard,  \* history: what it got was answered with an error, or not at all
  unclean   \* history: something could not be removed

vars == <<source, remote, place, expected, at, todo, late, offered, clip, staged, uploaded,
          reached, unheard, unclean>>
constantly == <<source, remote, expected>>
others == <<constantly, place, late>>
history == <<reached, unheard, unclean>>
copies == <<offered, clip, staged, uploaded>>

Goes(step) == at' = step /\ todo' = source
Ended == at \in {"inserted", "accepted", "failed"}

Transfer  == IF remote THEN "stage" ELSE "complete"
TypePaths == IF source = {Clip} THEN "write" ELSE Transfer

\* start_file_paste.  Only an image can be offered.
Init ==
  /\ source \in {{Clip}} \cup ((SUBSET Files) \ {{}})
  /\ remote \in BOOLEAN
  /\ place \in Places /\ expected = place
  /\ \/ Cardinality(source) = 1 /\ at = "offer"
     \/ at = TypePaths
  /\ todo = source /\ late = "none"
  /\ offered = FALSE /\ clip = FALSE /\ staged = {} /\ uploaded = {}
  /\ reached = {} /\ unheard = FALSE /\ unclean = FALSE

(***************************************************************************)
(* offer_png_paste                                                         *)
(***************************************************************************)
WritesOffer ==
  /\ at = "offer"
  /\ offered' = TRUE /\ Goes("paste")
  /\ UNCHANGED <<others, clip, staged, uploaded, history>>

\* A file that could be created but not written stays.
WriteOfferFails ==
  /\ at = "offer"
  /\ offered' \in BOOLEAN /\ unclean' = (unclean \/ offered')
  /\ Goes(TypePaths)
  /\ UNCHANGED <<others, clip, staged, uploaded, reached, unheard>>

\* paste_image: the service takes the file and announces it to the program.
paste_image ==
  /\ at = "paste" /\ place # Nowhere
  /\ offered' = FALSE
  /\ reached' = reached \cup {<<"event", place>>}
  /\ \/ Goes("accepted") /\ UNCHANGED unheard
     \/ Goes("unoffer") /\ unheard' = TRUE
  /\ UNCHANGED <<others, clip, staged, uploaded, unclean>>

\* It refuses, before it took the file or after, or was not reached at all.
PasteImageFails ==
  /\ at = "paste"
  /\ offered' \in BOOLEAN
  /\ Goes("unoffer")
  /\ UNCHANGED <<others, clip, staged, uploaded, history>>

\* The read timeout of the client; the service may be about to serve it.
TimesOut ==
  /\ at \in {"paste", "insert"}
  /\ late' = at
  /\ Goes(IF at = "paste" THEN "unoffer" ELSE "abort")
  /\ UNCHANGED <<constantly, place, copies, history>>

PasteImageLate ==
  /\ late = "paste" /\ place # Nowhere /\ offered
  /\ offered' = FALSE /\ late' = "none"
  /\ reached' = reached \cup {<<"event", place>>} /\ unheard' = TRUE
  /\ UNCHANGED <<constantly, place, at, todo, clip, staged, uploaded, unclean>>

Unoffers ==
  /\ at = "unoffer"
  /\ \/ offered' = FALSE /\ UNCHANGED unclean
     \/ offered /\ UNCHANGED offered /\ unclean' = TRUE
  /\ Goes(TypePaths)
  /\ UNCHANGED <<others, clip, staged, uploaded, reached, unheard>>

(***************************************************************************)
(* write_paste_png and transfer_paths                                      *)
(***************************************************************************)
write_paste_png ==
  /\ at = "write"
  /\ clip' = TRUE /\ Goes(Transfer)
  /\ UNCHANGED <<others, offered, staged, uploaded, history>>

WriteClipFails ==
  /\ at = "write"
  /\ clip' \in BOOLEAN /\ unclean' = (unclean \/ clip')
  /\ Goes("failed")
  /\ UNCHANGED <<others, offered, staged, uploaded, reached, unheard>>

\* validate_transfer_paths: a local file has gone.
ValidateFails ==
  /\ at = "complete" /\ ~remote
  /\ clip' = FALSE /\ Goes("failed")
  /\ UNCHANGED <<others, offered, staged, uploaded, history>>

stage_remote_source(f) ==
  /\ at = "stage" /\ f \in todo
  /\ staged' = staged \cup {f} /\ todo' = todo \ {f}
  /\ at' = IF todo' = {} THEN "begin upload" ELSE at
  /\ UNCHANGED <<others, offered, clip, uploaded, history>>

\* What was staged so far is removed, whatever comes of it.
StageFails(f) ==
  /\ at = "stage" /\ f \in todo
  /\ \E F \in SUBSET (staged \cup {f}) : staged' = F /\ unclean' = (unclean \/ F # {})
  /\ Goes("unclip")
  /\ UNCHANGED <<others, offered, clip, uploaded, reached, unheard>>

\* Without scp or ssh there is nothing to upload with.
BeginsUpload ==
  /\ at = "begin upload"
  /\ Goes("upload") \/ Goes("unstage failed")
  /\ UNCHANGED <<others, copies, history>>

\* mkdir, scp and chmod.
Uploads(f) ==
  /\ at = "upload" /\ f \in todo
  /\ uploaded' = uploaded \cup {f} /\ todo' = todo \ {f}
  /\ at' = IF todo' = {} THEN "unstage" ELSE at
  /\ UNCHANGED <<others, offered, clip, staged, history>>

\* Removing them may fail, wholly or for some.
RemovesUploads(U) ==
  \E rest \in SUBSET U : uploaded' = rest /\ unclean' = (unclean \/ rest # {})

\* Without removing the files before it.
UploadFailsForgetful(f) ==
  /\ at = "upload" /\ f \in todo
  /\ uploaded' \in {uploaded, uploaded \cup {f}}
  /\ Goes("unstage failed")
  /\ UNCHANGED <<others, offered, clip, staged, history>>

\* One of the three fails or is stopped after 45 s: whatever came of it is
\* removed with the files before it.
UploadFails(f) ==
  /\ at = "upload" /\ f \in todo
  /\ RemovesUploads(uploaded \cup {f})
  /\ Goes("unstage failed")
  /\ UNCHANGED <<others, offered, clip, staged, reached, unheard>>

remove_staged_sources ==
  /\ at \in {"unstage", "unstage failed"}
  /\ staged' = {}
  /\ Goes(IF at = "unstage" THEN "unclip uploaded" ELSE "unclip")
  /\ UNCHANGED <<others, offered, clip, uploaded, history>>

\* The upload is rolled back.
UnstageFails ==
  /\ at \in {"unstage", "unstage failed"}
  /\ \E F \in SUBSET staged : F # {} /\ staged' = F
  /\ unclean' = TRUE
  /\ uploaded' \in IF at = "unstage" THEN SUBSET uploaded ELSE {uploaded}
  /\ Goes("unclip")
  /\ UNCHANGED <<others, offered, clip, reached, unheard>>

\* reconcile_remote_source_cleanup, when the clipboard's image was uploaded.
RemovesClip ==
  /\ at \in {"unclip", "unclip uploaded"}
  /\ clip' = FALSE
  /\ Goes(IF at = "unclip" THEN "failed" ELSE "complete")
  /\ UNCHANGED <<others, offered, staged, uploaded, history>>

RemoveClipFails ==
  /\ at \in {"unclip", "unclip uploaded"} /\ clip
  /\ unclean' = TRUE
  /\ uploaded' \in IF at = "unclip" THEN {uploaded} ELSE SUBSET uploaded
  /\ Goes("failed")
  /\ UNCHANGED <<others, offered, clip, staged, reached, unheard>>

(***************************************************************************)
(* complete_transferred_paste                                              *)
(***************************************************************************)
\* revalidate_transfer_authority, with a fresh snapshot.
Revalidates ==
  /\ at = "complete" /\ place = expected
  /\ Goes("insert")
  /\ UNCHANGED <<others, copies, history>>

\* No snapshot, another place, or paths that cannot be pasted.
RevalidationFails ==
  /\ at = "complete"
  /\ Goes("abort")
  /\ UNCHANGED <<others, copies, history>>

\* authorized_write_input_with_delivery: the pane stays where it is until the
\* paths are written.  The answer may say otherwise, or not come.
InsertsAnywhere ==
  /\ place # Nowhere
  /\ reached' = reached \cup {<<"paths", place>>}
  /\ \/ at = "insert" /\ Goes("inserted") /\ UNCHANGED <<late, unheard>>
     \/ at = "insert" /\ Goes("abort") /\ unheard' = TRUE /\ UNCHANGED late
     \/ late = "insert" /\ late' = "none" /\ unheard' = TRUE /\ UNCHANGED <<at, todo>>
  /\ UNCHANGED <<constantly, place, copies, unclean>>

authorized_write_input == place = expected /\ InsertsAnywhere

InsertFails ==
  /\ at = "insert"
  /\ Goes("abort")
  /\ UNCHANGED <<others, copies, history>>

cleanup_aborted_transfer ==
  /\ at = "abort"
  /\ IF remote THEN RemovesUploads(uploaded) /\ UNCHANGED clip
     ELSE /\ UNCHANGED uploaded
          /\ \/ clip' = FALSE /\ UNCHANGED unclean
             \/ clip /\ unclean' = TRUE /\ UNCHANGED clip
  /\ Goes("failed")
  /\ UNCHANGED <<others, offered, staged, reached, unheard>>

\* move_tab_to_workstation, close_tab and the other requests of the registry.
PaneMoves ==
  /\ ~Ended \/ late # "none"
  /\ place # Nowhere
  /\ place' \in (Places \cup {Nowhere}) \ {place}
  /\ UNCHANGED <<constantly, at, todo, late, copies, history>>

Next ==
  \/ WritesOffer \/ WriteOfferFails \/ paste_image \/ PasteImageFails \/ Unoffers
  \/ TimesOut \/ PasteImageLate
  \/ write_paste_png \/ WriteClipFails \/ ValidateFails
  \/ \E f \in source : \/ stage_remote_source(f) \/ StageFails(f)
                       \/ Uploads(f) \/ UploadFails(f)
  \/ BeginsUpload \/ remove_staged_sources \/ UnstageFails
  \/ RemovesClip \/ RemoveClipFails
  \/ Revalidates \/ RevalidationFails
  \/ authorized_write_input \/ InsertFails \/ cleanup_aborted_transfer
  \/ PaneMoves

Spec == Init /\ [][Next]_vars

-----------------------------------------------------------------------------
(***************************************************************************)
(* A paste arrives whole or not at all (start_file_paste).  When the       *)
(* desktop says that paths were inserted, every file is where the program  *)
(* can open it and nothing else is left; when it says that the image was   *)
(* accepted, no path was typed.  When it says that the paste failed,       *)
(* nothing was typed and no copy is left on either host, except for a copy *)
(* that could not be removed.  All of this holds unless the service did it *)
(* and its answer says otherwise or is not waited for; but even then paths *)
(* are typed in the tab the paste was made in, and only there.             *)
(***************************************************************************)
Got(what) == \E p \in Places : <<what, p>> \in reached

PastesArriveWhole ==
  /\ Got("paths") => reached \cap ({"paths"} \X Places) = {<<"paths", expected>>}
  /\ ~unheard /\ Ended =>
       /\ at = "inserted" <=> Got("paths")
       /\ at = "accepted" <=> Got("event")
  /\ at = "inserted" => IF remote THEN uploaded = source ELSE source = {Clip} => clip
  /\ Ended /\ ~unclean =>
       /\ ~offered /\ staged = {}
       /\ at # "inserted" => uploaded = {} /\ ~clip
       /\ remote => ~clip
=============================================================================
