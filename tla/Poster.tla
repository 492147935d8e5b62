-------------------------------- MODULE Poster --------------------------------
(***************************************************************************)
(* The poster of a posting and the thumbnail cropped from it, in the form  *)
(* of a company, as written in                                             *)
(*   src/front/src/features/biz/components/BizPostingFormPage.tsx          *)
(*   src/front/src/components/ui/ImageCropModal.tsx                        *)
(*                                                                         *)
(* A pick is a file that the user chooses; reading it, recognizing its     *)
(* text, cropping it and uploading it end at any time later. A position    *)
(* stands for the pick it was recommended for.                             *)
(***************************************************************************)
EXTENDS Naturals

CONSTANTS Pick, NoPick

ASSUME PosterAssumption == NoPick \notin Pick

VARIABLES
  picked,       \* picks so far
  reading,      \* picks that readImage works on
  pending,      \* pendingPoster, the image in the dialog; NoPick when closed
  pickSeq,      \* posterPickSeq
  recognizing,  \* picks whose text is recognized, with their pickSeq
  auto,         \* posterAutoPosition
  position,     \* position in the dialog: NoPick in the middle or where dragged
  touched,      \* touchedRef
  cropping,     \* the image that makeCroppedFile works on
  upload,       \* uploadPoster while uploadingPoster
  poster,       \* the files of the form
  crossed       \* history: a pick was made while another was read

posterVars == <<picked, reading, pending, pickSeq, recognizing, auto, position, touched,
                cropping, upload, poster, crossed>>

Image == Pick \cup {NoPick}
Part == {"poster", "thumbnail"}
Files == [file : Image, thumbnail : Image]
NoFiles == [file |-> NoPick, thumbnail |-> NoPick]
Upload == [files : Files, step : {"request", "put", "finalize"}, done : SUBSET Part]
NoUpload == [step |-> "none"]

PosterTypeOK ==
  /\ picked \subseteq Pick /\ reading \subseteq picked
  /\ {pending, auto, position, cropping} \subseteq Image
  /\ pickSeq \in Nat
  /\ recognizing \subseteq [pick : Pick, seq : Nat]
  /\ touched \in BOOLEAN /\ crossed \in BOOLEAN
  /\ upload = NoUpload \/ upload \in Upload
  /\ poster \in Files

PosterInit ==
  /\ picked = {} /\ reading = {}
  /\ pending = NoPick
  /\ pickSeq = 0
  /\ recognizing = {}
  /\ auto = NoPick /\ position = NoPick /\ touched = FALSE
  /\ cropping = NoPick
  /\ upload = NoUpload
  /\ poster = NoFiles
  /\ crossed = FALSE

\* The dialog covers the form. A read still going on does not stop a pick.
ChoosePoster(p) ==
  /\ p \notin picked
  /\ upload = NoUpload /\ pending = NoPick
  /\ picked' = picked \cup {p}
  /\ reading' = reading \cup {p}
  /\ crossed' = (crossed \/ reading # {})
  /\ UNCHANGED <<pending, pickSeq, recognizing, auto, position, touched, cropping, upload, poster>>

\* A dialog that is open stays as it is, with another image.
PosterRead(p) ==
  /\ p \in reading
  /\ reading' = reading \ {p}
  /\ pending' = p
  /\ pickSeq' = pickSeq + 1
  /\ auto' = NoPick
  /\ recognizing' = recognizing \cup {[pick |-> p, seq |-> pickSeq']}
  /\ IF pending = NoPick
     THEN position' = NoPick /\ touched' = FALSE
     ELSE UNCHANGED <<position, touched>>
  /\ UNCHANGED <<picked, cropping, upload, poster, crossed>>

ReadFailed(p) ==
  /\ p \in reading
  /\ reading' = reading \ {p}
  /\ pending' = NoPick
  /\ UNCHANGED <<picked, pickSeq, recognizing, auto, position, touched, cropping, upload, poster,
                 crossed>>

IsLast_Any(r) == TRUE

\* The recognition is that of the last pick, and the dialog has not moved on.
IsLast(r) == r.seq = pickSeq

\* Nothing is recognized, or the position comes in the dialog if no one dragged.
Recognized(r) ==
  /\ r \in recognizing
  /\ recognizing' = recognizing \ {r}
  /\ \/ UNCHANGED <<auto, position>>
     \/ /\ IsLast(r)
        /\ auto' = r.pick
        /\ position' = IF pending # NoPick /\ ~touched THEN r.pick ELSE position
  /\ UNCHANGED <<picked, reading, pending, pickSeq, touched, cropping, upload, poster, crossed>>

Drag ==
  /\ pending # NoPick /\ cropping = NoPick
  /\ touched' = TRUE
  /\ position' = NoPick
  /\ UNCHANGED <<picked, reading, pending, pickSeq, recognizing, auto, cropping, upload, poster,
                 crossed>>

CloseDialog ==
  /\ pending' = NoPick
  /\ pickSeq' = pickSeq + 1
  /\ auto' = NoPick

CancelPosterCrop ==
  /\ pending # NoPick /\ cropping = NoPick
  /\ CloseDialog
  /\ UNCHANGED <<picked, reading, recognizing, position, touched, cropping, upload, poster, crossed>>

ConfirmCrop ==
  /\ pending # NoPick /\ cropping = NoPick
  /\ cropping' = pending
  /\ UNCHANGED <<picked, reading, pending, pickSeq, recognizing, auto, position, touched, upload,
                 poster, crossed>>

CropFailed ==
  /\ cropping # NoPick
  /\ cropping' = NoPick
  /\ UNCHANGED <<picked, reading, pending, pickSeq, recognizing, auto, position, touched, upload,
                 poster, crossed>>

\* confirmPosterCrop takes the image that is pending by now.
ConfirmPosterCrop ==
  /\ cropping # NoPick
  /\ cropping' = NoPick
  /\ CloseDialog
  /\ upload' = IF pending = NoPick \/ upload # NoUpload
               THEN upload
               ELSE [files |-> [file |-> pending, thumbnail |-> cropping],
                     step |-> "request", done |-> {}]
  /\ UNCHANGED <<picked, reading, recognizing, position, touched, poster, crossed>>

After == [request |-> "put", put |-> "finalize"]

\* The two files go side by side, and each step is over with the second.
UploadPart(part) ==
  /\ upload # NoUpload
  /\ part \notin upload.done
  /\ LET done == upload.done \cup {part}
     IN \/ /\ done # Part
           /\ upload' = [upload EXCEPT !.done = done]
           /\ UNCHANGED poster
        \/ /\ done = Part /\ upload.step # "finalize"
           /\ upload' = [upload EXCEPT !.step = After[@], !.done = {}]
           /\ UNCHANGED poster
        \/ /\ done = Part /\ upload.step = "finalize"
           /\ upload' = NoUpload
           /\ poster' = upload.files
  /\ UNCHANGED <<picked, reading, pending, pickSeq, recognizing, auto, position, touched, cropping,
                 crossed>>

UploadFailed ==
  /\ upload # NoUpload
  /\ upload' = NoUpload
  /\ UNCHANGED <<picked, reading, pending, pickSeq, recognizing, auto, position, touched, cropping,
                 poster, crossed>>

PosterNext ==
  \/ \E p \in Pick : ChoosePoster(p) \/ PosterRead(p) \/ ReadFailed(p)
  \/ \E r \in recognizing : Recognized(r)
  \/ Drag \/ CancelPosterCrop \/ ConfirmCrop \/ CropFailed \/ ConfirmPosterCrop
  \/ \E part \in Part : UploadPart(part)
  \/ UploadFailed

-----------------------------------------------------------------------------
\* "So that a recognition of an earlier file that ends late does not overwrite
\* it": the position recommended in the dialog is that of its image. Unless two
\* picks were read at once, so is the position it shows, and the files of the
\* form are a poster and its own thumbnail.
PosterFits ==
  /\ auto # NoPick /\ pending # NoPick => auto = pending
  /\ crossed \/ pending = NoPick \/ position \in {NoPick, pending}
  /\ crossed \/ poster.file = poster.thumbnail
==============================================================================
