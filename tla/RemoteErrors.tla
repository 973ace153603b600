---------------------------- MODULE RemoteErrors ----------------------------
(***************************************************************************)
(* How a failure of the media library becomes an exception of the client:  *)
(* the refusal vocabulary (reasons), the statuses a servicer builds and    *)
(* the client reads back (contract), and the exception classes each        *)
(* transport raises (_http, grpc_transport, exceptions).                   *)
(*                                                                         *)
(* A failure is [code, domain, reason], an exception [class, domain,       *)
(* reason]; None stands for an absent domain or reason.  Messages and      *)
(* bodies are left out.                                                    *)
(***************************************************************************)
EXTENDS Integers

CONSTANT None

-----------------------------------------------------------------------------
(* Exceptions. *)

\* Every class below MediaLibraryError with its base class.
Subclasses ==
    [MediaLibraryError |-> {"NotFoundError", "AuthenticationError", "ValidationError",
                            "ConflictError", "ServerError", "ResourceExhaustedError"},
     ValidationError |-> {"InvalidArgumentError", "UploadRejected"},
     AuthenticationError |-> {"UnauthenticatedError", "PermissionDeniedError"},
     ConflictError |-> {"FailedPreconditionError"},
     ServerError |-> {"UnavailableError", "DeadlineExceededError", "UnimplementedError",
                      "InternalError"}]

Classes == (UNION {Subclasses[c] : c \in DOMAIN Subclasses}) \cup {"MediaLibraryError"}

\* isinstance, for the client's classes; of any other exception it is false.
IsA(class, base) ==
    /\ class \in Classes
    /\ \/ base \in {class, "MediaLibraryError"}
       \/ base \in DOMAIN Subclasses /\ class \in Subclasses[base]

\* grpc_transport._ERRORS: one class per status, named after it.
RpcErrors ==
    [INVALID_ARGUMENT |-> "InvalidArgumentError", UNAUTHENTICATED |-> "UnauthenticatedError",
     PERMISSION_DENIED |-> "PermissionDeniedError", NOT_FOUND |-> "NotFoundError",
     FAILED_PRECONDITION |-> "FailedPreconditionError",
     RESOURCE_EXHAUSTED |-> "ResourceExhaustedError", UNAVAILABLE |-> "UnavailableError",
     DEADLINE_EXCEEDED |-> "DeadlineExceededError", UNIMPLEMENTED |-> "UnimplementedError",
     INTERNAL |-> "InternalError"]

\* _http._ERRORS.
HttpErrors ==
    [h \in {400, 401, 403, 404, 409, 410, 422, 429, 503} |->
        CASE h \in {400, 422} -> "InvalidArgumentError"
          [] h = 401 -> "UnauthenticatedError"
          [] h = 403 -> "PermissionDeniedError"
          [] h = 404 -> "NotFoundError"
          [] h \in {409, 410} -> "FailedPreconditionError"
          [] h = 429 -> "ResourceExhaustedError"
          [] h = 503 -> "UnavailableError"]

-----------------------------------------------------------------------------
(* The contract. *)

Common ==
    [credential_missing |-> "UNAUTHENTICATED", credential_rejected |-> "UNAUTHENTICATED",
     permission_denied |-> "PERMISSION_DENIED", invalid_argument |-> "INVALID_ARGUMENT",
     idempotency_key_required |-> "INVALID_ARGUMENT",
     idempotency_key_reused |-> "FAILED_PRECONDITION",
     rate_limited |-> "RESOURCE_EXHAUSTED", unavailable |-> "UNAVAILABLE",
     internal_error |-> "INTERNAL"]

\* {**COMMON, **own}; own lists a service's reasons by their status.
WithCommon(own) ==
    [r \in DOMAIN Common \cup UNION {own[status] : status \in DOMAIN own} |->
        IF \E status \in DOMAIN own : r \in own[status]
          THEN CHOOSE status \in DOMAIN own : r \in own[status]
          ELSE Common[r]]

\* REFUSALS: service -> reason -> status.
Refusals ==
    [Assets |-> WithCommon(
         [NOT_FOUND |-> {"asset_not_found", "not_a_web_app", "deploy_not_found",
                         "tenant_storage_not_found"},
          FAILED_PRECONDITION |-> {"invalid_asset_state", "deploy_deleted", "deploy_failed",
                                   "deploy_uploading", "scan_not_allowed", "deploy_changed"}]),
     Uploads |-> WithCommon(
         [NOT_FOUND |-> {"session_not_found", "tenant_storage_not_found"},
          FAILED_PRECONDITION |-> {"session_expired", "invalid_session_state",
                                   "checksum_mismatch"},
          INVALID_ARGUMENT |-> {"incomplete_upload", "file_size_mismatch",
                                "file_size_limit_exceeded", "unsupported_mime_type",
                                "invalid_processing_config"},
          UNAVAILABLE |-> {"grants_not_configured"}]),
     Grants |-> WithCommon([UNAVAILABLE |-> {"grants_not_configured"}]),
     Permalinks |-> WithCommon(
         [NOT_FOUND |-> {"permalink_not_found", "asset_not_found"},
          INVALID_ARGUMENT |-> {"invalid_permalink_name", "asset_not_public"}]),
     Delivery |-> WithCommon(
         [NOT_FOUND |-> {"asset_not_found", "blob_not_found", "tenant_storage_not_found"}]),
     Processing |-> Common]

\* GRPC_STATUS_FOR_HTTP, and grpc_status_for_http: the rest is INTERNAL.
StatusForHttp ==
    [h \in {400, 401, 403, 404, 409, 410, 422, 429, 503} |->
        CASE h \in {400, 422} -> "INVALID_ARGUMENT"
          [] h = 401 -> "UNAUTHENTICATED"
          [] h = 403 -> "PERMISSION_DENIED"
          [] h = 404 -> "NOT_FOUND"
          [] h \in {409, 410} -> "FAILED_PRECONDITION"
          [] h = 429 -> "RESOURCE_EXHAUSTED"
          [] h = 503 -> "UNAVAILABLE"]

GrpcStatusForHttp(code) == IF code \in DOMAIN StatusForHttp THEN StatusForHttp[code] ELSE "INTERNAL"

\* refusal_status, for a reason the service declares (it raises ValueError for
\* any other): the reason travels with its service as ErrorInfo.
RefusalStatus(service, reason) ==
    [code |-> Refusals[service][reason], domain |-> service, reason |-> reason]

\* A status without ErrorInfo, as the channel itself reports it.
BareStatus(code) == [code |-> code, domain |-> None, reason |-> None]

-----------------------------------------------------------------------------
(* What the client raises. *)

\* error_from_rpc, with what error_info finds in the trailing metadata.
ErrorFromRpc(failure) ==
    [class |-> IF failure.code \in DOMAIN RpcErrors THEN RpcErrors[failure.code]
                                                     ELSE "MediaLibraryError",
     domain |-> failure.domain, reason |-> failure.reason]

\* raise_for_status, of a status that is not a success and its detail.reason.
RaiseForStatus(code, reason) ==
    [class |-> IF code \in DOMAIN HttpErrors THEN HttpErrors[code]
               ELSE IF code >= 500 THEN "InternalError" ELSE "MediaLibraryError",
     domain |-> None, reason |-> reason]
=============================================================================
