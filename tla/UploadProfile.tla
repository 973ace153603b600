--------------------------- MODULE UploadProfile ----------------------------
(***************************************************************************)
(* pkg_media.profiles.UploadProfile: what one kind of upload accepts.      *)
(*                                                                         *)
(* A profile has a kind, a visibility and limits; a limit that is not set  *)
(* (None) is the empty set.  Mime types are compared normalized, so they   *)
(* are values here; one that is not type/subtype is in Malformed.          *)
(***************************************************************************)
EXTENDS Integers

CONSTANTS
    MimeTypes,  \* normalized mime types, and malformed ones
    Malformed,  \* those that are not type/subtype
    AnyType     \* "*/*", the only wildcard

\* allowed: None or a set of mime types, as {} or {set}; minSize, maxSize: None
\* or a number, as {} or {number}.  Immutable, and checked when it is made.
IsProfile(p) ==
    /\ \A types \in p.allowed : types \subseteq (MimeTypes \ Malformed) \cup {AnyType}
    /\ p.minSize \cup p.maxSize \subseteq Nat
    /\ \A lo \in p.minSize, hi \in p.maxSize : lo <= hi

\* _check_mime_type
TypeAllowed(p, mime) ==
    /\ mime \notin Malformed
    /\ \A types \in p.allowed : AnyType \in types \/ mime \in types

\* _check_size: the limits themselves are allowed.
SizeAllowed(p, size) ==
    /\ \A hi \in p.maxSize : size <= hi
    /\ \A lo \in p.minSize : size >= lo

\* validate_file, of a file whose size may be unknown ({}): a profile with a
\* limit asks for the size.
ValidFile(p, mime, size) ==
    /\ size = {} => p.minSize = {} /\ p.maxSize = {}
    /\ TypeAllowed(p, mime)
    /\ \A n \in size : SizeAllowed(p, n)

\* check_permissions, of a user who may be unknown to the app.
MayUse(p, permissions, authenticated) ==
    \/ p.anonymous
    \/ p.required = {}
    \/ authenticated /\ p.required \subseteq permissions

\* Faulty variant: the limits are not checked on the asset.
ValidAssetOfAnySize(p, asset) == asset.kind = p.kind /\ TypeAllowed(p, asset.mime)

\* verify_asset, of an asset of the manage API, which has a size.
ValidAsset(p, asset) ==
    /\ asset.kind = p.kind
    /\ TypeAllowed(p, asset.mime)
    /\ SizeAllowed(p, asset.size)
=============================================================================
