-------------------------- MODULE MCServiceUploads ---------------------------
(* A small instance of ServiceUploads for TLC. *)
EXTENDS ServiceUploads, TLC

CONSTANTS w1, w2, u1, u2, s1, s2

\* A public picture of limited size and type, and a private file.
Cover == [name |-> "cover", kind |-> "image", visibility |-> "public", allowed |-> {{"png"}},
          minSize |-> {1}, maxSize |-> {2}]
Note == [name |-> "note", kind |-> "image", visibility |-> "private", allowed |-> {},
         minSize |-> {}, maxSize |-> {}]
TwoProfiles == {Cover, Note}

\* At a limit, above it, of another type.
SomeContents == {[mime |-> "png", size |-> 2], [mime |-> "png", size |-> 3],
                 [mime |-> "pdf", size |-> 1]}

\* No definition names any of them.
Symmetric == Permutations(Workers) \cup Permutations(Users) \cup Permutations(SessionIds)
=============================================================================
