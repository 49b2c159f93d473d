-------------------------------- MODULE Unpack --------------------------------
(* Unpacking a UAB (uab_file.cpp) or a layer file (layer_packager.cpp, layer_file.cpp) into a
   temporary directory, up to the destructor of the object that did it, and packing a layer
   file.  Of a file count the length of its image, the bytes that follow it, how many bytes
   at the end are missing, and whether bytes of the image were changed. *)
EXTENDS Naturals

CONSTANTS
    UabFiles,    \* UAB files: [kind, length, tail, missing, damaged]
    Images,      \* lengths of the images layer files are packed with
    Chunk        \* bytes read at once
ASSUME UnpackAssumption ==
    /\ Chunk \in Nat \ {0} /\ Images \subseteq Nat
    /\ UabFiles \subseteq [kind : {"uab"}, length : Nat \ {0}, tail : Nat, missing : Nat,
                           damaged : BOOLEAN]
    /\ \A f \in UabFiles : f.missing <= f.length + f.tail

VARIABLES
    packed,      \* the layer file pack() reported, if it did
    un           \* the object that unpacks
unpackVars == <<packed, un>>

UnpackInit == packed = {} /\ un = [pc |-> "idle"]

LayerFile(length, tail, missing) ==
    [kind |-> "layer", length |-> length, tail |-> tail, missing |-> missing, damaged |-> FALSE]

(* LayerPackager::pack(): the header, the image, and both in one file.  That the image could
   not be appended, or only in part, is not reported; nor is that an older file of that name
   could not be removed: it stays what it was, with the new layer behind its image. *)
Pack(length) ==
    /\ packed = {} /\ UNCHANGED un
    /\ \/ \E missing \in 0..length : packed' = {LayerFile(length, 0, missing)}
       \/ \E old \in Images : packed' = {LayerFile(old, length + 1, 0)}

Available(f) == f.length + f.tail - f.missing
Smaller(a, b) == IF a < b THEN a ELSE b

(* What an unpacking begins with: which tools there are, whether other processes may read
   the file descriptor, and, for a LayerPackager, its working directory. *)
Open(f) ==
    /\ un.pc = "idle" /\ UNCHANGED packed
    /\ \E tool \in {"erofsfuse", "fsck.erofs", "none"}, readable \in BOOLEAN :
         un' = [pc |-> IF f.kind = "uab" THEN "verify" ELSE "unpack", file |-> f,
                tool |-> tool, readable |-> readable,
                dir |-> f.kind = "layer", path |-> f.kind = "layer",
                read |-> 0, refused |-> FALSE, image |-> 0, mount |-> FALSE, isMounted |-> FALSE,
                failed |-> FALSE, undone |-> {}]

UnpackFails == un' = [un EXCEPT !.pc = "destroy", !.failed = TRUE]

(* UABFile::verify(), the loop: a digest is made when the length left is 0.  It is unsigned: a
   chunk that goes past the section makes it large, and then the file ends without a digest. *)
Read == un.read + Smaller(Chunk, Available(un.file) - un.read)
Digest == Read # un.read /\ Read = un.file.length
Verify ==
    /\ un.pc = "verify" /\ UNCHANGED packed
    /\ \/ Read # un.read /\ ~Digest /\ un' = [un EXCEPT !.read = Read]
       \/ Digest /\ ~un.file.damaged /\ un' = [un EXCEPT !.pc = "mkdir"]
       \/ /\ Read = un.read \/ (Digest /\ un.file.damaged)
          /\ un' = [un EXCEPT !.pc = "destroy", !.failed = TRUE, !.refused = TRUE]
       \/ UnpackFails

(* UABFile::unpack(): mkdirDir(), first below /var/tmp. *)
MakeUnpackDir ==
    /\ un.pc = "mkdir" /\ UNCHANGED packed
    /\ un' = [un EXCEPT !.pc = "unpack", !.dir = TRUE] \/ UnpackFails

SavedToTheEnd(f) == Available(f)

(* saveErofsToFile() copies the section, copyFile() all that follows the header. *)
Saved(f) == IF f.kind = "uab" THEN Smaller(f.length, Available(f)) ELSE Available(f)

(* The image is read in place, or from a copy; writing the copy may fail. *)
Save ==
    /\ un.pc = "unpack" /\ UNCHANGED packed
    /\ IF un.tool = "none" THEN UnpackFails
       ELSE IF un.tool = "erofsfuse" /\ un.readable
            THEN un' = [un EXCEPT !.pc = "extract", !.image = Smaller(un.file.length, Available(un.file))]
            ELSE un' = [un EXCEPT !.pc = "extract", !.image = Saved(un.file)] \/ UnpackFails

(* erofsfuse or fsck.erofs; the destructor is told of a success only. *)
Extract ==
    /\ un.pc = "extract" /\ UNCHANGED packed
    /\ \/ un' = [un EXCEPT !.pc = "ready", !.path = TRUE,
                           !.mount = un.tool = "erofsfuse", !.isMounted = un.tool = "erofsfuse"]
       \/ UnpackFails

(* ~UABFile(), ~LayerPackager(): fusermount and remove_all() may fail, which is only logged.
   What is still mounted is not removed. *)
ToUndo == {c \in {"unmount", "remove"} : IF c = "unmount" THEN un.isMounted ELSE un.path}
Destroy ==
    /\ un.pc \in {"ready", "destroy"} /\ UNCHANGED packed
    /\ \E undone \in SUBSET ToUndo :
         LET done == ToUndo \ undone IN
           /\ "remove" \in done => ("unmount" \in done \/ ~un.mount)
           /\ un' = [un EXCEPT !.pc = "gone", !.undone = undone, !.mount = @ /\ "unmount" \notin done,
                               !.dir = @ /\ "remove" \notin done]

UnpackNext ==
    \/ \E l \in Images : Pack(l)
    \/ \E f \in UabFiles \cup packed : Open(f)
    \/ Verify \/ MakeUnpackDir \/ Save \/ Extract \/ Destroy

UnpackSpec == UnpackInit /\ [][UnpackNext]_unpackVars

\* An unpacked UAB is the image its digest was made of, whole (UABFile::verify(), where the
\* length is unsigned, saveErofsToFile()), and a UAB is refused only if it is damaged or its
\* image neither fills whole chunks nor ends the file; a complete layer file is unpacked
\* whole (copyFile()), with what follows it.  A destructor leaves a mount only if fusermount
\* failed, and a directory only if a command of its own failed or the unpacking of a UAB
\* failed half-way (~UABFile(), ~LayerPackager()): it knows of everything else.
UnpackedWhole ==
    un.pc # "idle" =>
      LET f == un.file IN
        /\ un.pc = "ready" => /\ f.kind = "uab" => ~f.damaged /\ un.image = f.length
                              /\ f.missing <= f.tail => un.image >= f.length
        /\ un.refused => f.missing > 0 \/ f.damaged \/ (f.length % Chunk # 0 /\ f.tail > 0)
        /\ f.missing > f.tail => ~(f.kind = "uab" /\ un.pc = "ready")
        /\ un.pc = "gone" => /\ un.mount => "unmount" \in un.undone
                             /\ un.dir => (un.failed /\ f.kind = "uab") \/ un.undone # {}
==============================================================================
