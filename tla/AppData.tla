------------------------------- MODULE AppData -------------------------------
(***************************************************************************)
(* The application data that the implanters write into the primary volume  *)
(* descriptor and that parsepvd() reads back.  The 512 characters are      *)
(* abstracted to cells, one cell for each "TAG = value;" field; a blank, a *)
(* cut field or any other text is a cell that no tag matches.              *)
(***************************************************************************)
EXTENDS IsoLayout

CONSTANT Uninitialized  \* what malloc()ed memory holds that no field was copied to

\* parsepvd()'s enum task_status: the task that a field completes.
TaskOf ==
  [tag \in {"ISO SHA256SUM", "ISO MD5SUM", "SKIPSECTORS", "RHLISOSTATUS",
            "FRAGMENT SUMS", "FRAGMENT COUNT"} |->
     CASE tag \in {"ISO SHA256SUM", "ISO MD5SUM"} -> "TASK_HASH"
       [] tag = "SKIPSECTORS"    -> "TASK_SKIP"
       [] tag = "RHLISOSTATUS"   -> "TASK_SUPPORTED"
       [] tag = "FRAGMENT SUMS"  -> "TASK_FRAGSUM"
       [] tag = "FRAGMENT COUNT" -> "TASK_FRAGCOUNT"]

TASK_DONE == {"TASK_HASH", "TASK_SKIP", "TASK_SUPPORTED", "TASK_FRAGSUM",
              "TASK_FRAGCOUNT"}

\* The positions among the first n cells that hold a field with one of the tags.
FieldsAt(app, n, tags) == {i \in 1 .. n : app[i][1] \in tags}

TasksIn(app, n) ==
  {TaskOf[app[i][1]] : i \in FieldsAt(app, n, DOMAIN TaskOf)}

\* Where the parse loop leaves off: after the field that completes all tasks,
\* or at the end of the area.
ParseEnd(app) ==
  CHOOSE n \in 0 .. Len(app) :
    /\ TasksIn(app, n) = TASK_DONE \/ n = Len(app)
    /\ \A m \in 0 .. (n - 1) : TasksIn(app, m) # TASK_DONE

\* A field that occurs more than once has the value of its last occurrence.
FieldValue(app, tags, default) ==
  LET found == FieldsAt(app, ParseEnd(app), tags)
  IN  IF found = {} THEN default
      ELSE app[CHOOSE i \in found : \A j \in found : j <= i][2]

\* parsepvd() fails unless it saw a hash and the number of skipped sectors:
\* task < TASK_SKIP + TASK_HASH.
Parsable(app) == {"TASK_HASH", "TASK_SKIP"} \subseteq TasksIn(app, ParseEnd(app))

HashTag(alg) == IF alg = "SHA256" THEN "ISO SHA256SUM" ELSE "ISO MD5SUM"

\* The struct volume_info that parsepvd() returns for an image.
VolumeInfo(image) ==
  LET app == AppDataOf(image)
      hashes == FieldsAt(app, ParseEnd(app), {HashTag(a) : a \in Algorithms})
      hash == app[CHOOSE i \in hashes : \A j \in hashes : j <= i]
  IN  [hashsum       |-> hash[2],
       algorithm     |-> CHOOSE a \in Algorithms : HashTag(a) = hash[1],
       skipsectors   |-> FieldValue(app, {"SKIPSECTORS"}, SKIPSECTORS),
       supported     |-> FieldValue(app, {"RHLISOSTATUS"}, 0),
       fragmentsums  |-> FieldValue(app, {"FRAGMENT SUMS"}, Uninitialized),
       fragmentcount |-> FieldValue(app, {"FRAGMENT COUNT"}, FRAGMENT_COUNT),
       offset        |-> PvdOffset(image),
       isosize       |-> isosize(image)]

\* parsepvd() finds a primary descriptor and its application data parse.
HasVolumeInfo(image, unreadable) ==
  HasPrimary(image, unreadable) /\ Parsable(AppDataOf(image))

-----------------------------------------------------------------------------
(* What implantISOFD() and implantISOSHAFD() write.                        *)

Trailer == <<"THIS IS NOT THE SAME AS RUNNING MD5SUM ON THIS ISO!!">>

BlankAppData == [i \in 1 .. APPDATA_SIZE |-> Space]

\* (Mutant first: the number of skipped sectors is left out.)
NewFields_WithoutSkip(alg, hashsum, supported, fragmentsums) ==
  << <<HashTag(alg), hashsum>>,
     <<"RHLISOSTATUS", supported>>,
     <<"FRAGMENT SUMS", fragmentsums>>,
     <<"FRAGMENT COUNT", FRAGMENT_COUNT>>,
     Trailer >>

NewFields(alg, hashsum, supported, fragmentsums) ==
  << <<HashTag(alg), hashsum>>,
     <<"SKIPSECTORS", SKIPSECTORS>>,
     <<"RHLISOSTATUS", supported>>,
     <<"FRAGMENT SUMS", fragmentsums>>,
     <<"FRAGMENT COUNT", FRAGMENT_COUNT>>,
     Trailer >>

\* memset() to blanks, then the calls of writeAppData() one after the other.
NewAppData(alg, hashsum, supported, fragmentsums) ==
  LET fields == NewFields(alg, hashsum, supported, fragmentsums)
  IN  [i \in 1 .. APPDATA_SIZE |->
         IF i <= Len(fields) THEN fields[i] ELSE Space]
=============================================================================
