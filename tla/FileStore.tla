----------------------------- MODULE FileStore -----------------------------
(***************************************************************************)
(* One JSON file on disk, as keystore.json and metadata.json are read and  *)
(* written: path.exists() and fs::read_to_string on the way in, and        *)
(* fs::create_dir_all followed by fs::write on the way out.                *)
(*                                                                         *)
(* fs::write truncates the file and then writes the new text from offset   *)
(* zero.  Nothing locks the file, nothing is written aside and renamed, so *)
(* between the two steps another reader finds an empty file and a process  *)
(* that stops leaves one behind.                                           *)
(*                                                                         *)
(* A file is a record.  `state' says what a reader would find, `value' is  *)
(* the last document that was completely written to it (the document an    *)
(* absent file stands for before the first write).  Only an absent or an   *)
(* intact file is ever read for its `value'; in the other states `value'   *)
(* is history, kept so that properties can speak of what the file held.    *)
(***************************************************************************)

\* "empty": truncated, nothing written yet; "torn": part of a document, or a
\* short document over the tail of a longer one.  Neither parses as JSON.
FileStates == {"absent", "empty", "torn", "intact"}

IsFile(file) ==
    /\ file = [state |-> file.state, value |-> file.value]
    /\ file.state \in FileStates

NoFile(blank) == [state |-> "absent", value |-> blank]

\* The caller gets a document: the file parses, or does not exist yet and
\* stands for the blank document.
Readable(file) == file.state \in {"absent", "intact"}

Truncated(file) == [file EXCEPT !.state = "empty"]

Torn(file) == [file EXCEPT !.state = "torn"]

Intact(document) == [state |-> "intact", value |-> document]

(***************************************************************************)
(* What write_all leaves behind when it succeeds.  Over an empty file the  *)
(* text is exactly the document.  When another process wrote in between,   *)
(* the new text covers the old one, or covers only its beginning: which of *)
(* the two depends on lengths the model does not carry.                    *)
(***************************************************************************)
WriteOutcomes(file, document) ==
    IF file.state = "empty" THEN {Intact(document)}
                            ELSE {Intact(document), Torn(file)}

\* What is left when write_all fails, or the process stops, after truncation:
\* nothing of the new text was written, or some of it.
InterruptedOutcomes(file) == {file, Torn(file)}

=============================================================================
