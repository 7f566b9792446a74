------------------------------ MODULE Requests ------------------------------
(***************************************************************************)
(* One HTTP request from its arrival to its answer: the guard of the route,*)
(* the checks of the handler, the service with its reads and writes, and   *)
(* the table that turns an error into a status; while other requests       *)
(* change what it is about.  POST /v1/validations goes through Evaluation; *)
(* what the commands store is LimitLifecycle's and RuleSync's subject, the *)
(* limit checks are Validation's and the lists are Listing's.              *)
(***************************************************************************)
EXTENDS Evaluation

CONSTANTS
  Requests,     \* the requests that may arrive
  Rows,         \* Rows[kind]: the statuses in which a request may find its row
  CounterKeys,  \* the counters of the limit, one for each scope and period
  CurrentKeys,  \* those of the current period
  MaxUsage,     \* bound: what a counter may hold at first
  MaxAmount,    \* maxAmount of the limit
  MaxOthers     \* bound: steps of other requests while this one is handled

\* A request: [kind, verb, id, body, access, tx].  id is that of the path: "malformed",
\* "nil" or "known".  body is the set of the checks it does not pass, each by the error or
\* the code it gives, with "expression" where an update gives one.
Kinds == {"rules", "limits", "validations", "audit-events"}
StatusVerbs == {"activate", "deactivate", "draft", "delete"}

\* The endpoints, but for the lists.
NewRoutes(kind) ==
  CASE kind = "rules" -> StatusVerbs \cup {"create", "get", "update"}
    [] kind = "limits" -> StatusVerbs \cup {"create", "get", "update", "usage"}
    [] kind = "validations" -> {"get", "validate"}
    [] kind = "audit-events" -> {"get", "verify"}

Live == {"DRAFT", "ACTIVE", "INACTIVE"}
Statuses == Live \cup {"ABSENT", "DELETED", "STORED"}

\* A rule and a limit have a status; a validation and an event are there or not.
RowStatuses(kind) ==
  IF kind \in {"rules", "limits"} THEN Live \cup {"ABSENT", "DELETED"} ELSE {"ABSENT", "STORED"}

ASSUME RequestsAssumption ==
  /\ \A r \in Requests :
       /\ r.kind \in Kinds /\ r.verb \in NewRoutes(r.kind)
       /\ r.id \in IF r.verb \in {"create", "validate"} THEN {None} ELSE {"malformed", "nil", "known"}
       /\ r.access.plugin \in {None, "Unauthenticated", "Forbidden"}
  /\ \A kind \in Kinds : Rows[kind] \subseteq RowStatuses(kind)
  /\ CurrentKeys \subseteq CounterKeys /\ IsFiniteSet(CounterKeys)
  /\ MaxUsage \in Nat /\ MaxAmount \in Nat \ {0} /\ MaxOthers \in Nat

Target(verb) ==
  CASE verb = "activate" -> "ACTIVE" [] verb = "deactivate" -> "INACTIVE"
    [] verb = "draft" -> "DRAFT" [] verb = "delete" -> "DELETED"

\* The same for rules and for limits.
CanTransitionTo(from, to) ==
  \/ from = "DRAFT" /\ to \in {"ACTIVE", "DELETED"}
  \/ from = "ACTIVE" /\ to = "INACTIVE"
  \/ from = "INACTIVE" /\ to \in {"ACTIVE", "DRAFT", "DELETED"}
-----------------------------------------------------------------------------
(* What is looked at before the service is called.                         *)

APIKeyAuth(access) ==
  IF access.apiKeyEnabled /\ ~access.key THEN "Unauthenticated" ELSE None

\* The authorization plugin, which is not part of the service, gives the error or None.
Protect(access) == IF access.pluginAuthEnabled THEN access.plugin ELSE APIKeyAuth(access)

\* AuthGuard.With, and its third argument in NewRoutes.
With(r) == IF r.verb = "validate" /\ r.access.apiKeyOnlyValidation THEN APIKeyAuth(r.access)
                                                                   ELSE Protect(r.access)

\* The first of a sequence of checks that the body does not pass.
FirstFailed(checks, body) ==
  LET failed == {i \in DOMAIN checks : checks[i] \in body}
  IN IF failed = {} THEN None ELSE checks[CHOOSE i \in failed : \A j \in failed : i <= j]

\* NormalizeAndValidate.
ValidateRequestChecks ==
  <<"RequestIDRequired", "InvalidTransactionType", "AmountNonPositive", "CurrencyRequired",
    "InvalidCurrency", "TimestampRequired", "TimestampFuture", "TimestampPast",
    "AccountRequired", "SubTypeTooLong", "SegmentIDRequired", "PortfolioIDRequired",
    "InvalidAccountType", "InvalidAccountStatus", "MerchantIDRequired",
    "InvalidMerchantCategory", "InvalidMerchantCountry", "EntriesExceeded",
    "KeyLengthExceeded", "KeyInvalidChars">>

\* The checks of the handlers up to the call of the service.
ValidateHandler == <<"PayloadTooLarge", "BodyParser">> \o ValidateRequestChecks
CreateRuleHandler == <<"BodyParser", "CreateRuleInput.Validate">>
UpdateRuleHandler == <<"BodyParser", "UpdateRuleInput.Validate", "IsEmpty">>
CreateLimitHandler == <<"BodyParser", "CreateLimitInput.Validate">>
UpdateLimitHandler == <<"ImmutableField", "BodyParser", "UpdateLimitInput.Validate", "IsEmpty">>

HandlerChecks(r) ==
  CASE r.verb = "validate" -> ValidateHandler
    [] r.verb = "create" -> IF r.kind = "rules" THEN CreateRuleHandler ELSE CreateLimitHandler
    [] r.verb = "update" -> IF r.kind = "rules" THEN UpdateRuleHandler ELSE UpdateLimitHandler
    [] OTHER -> <<>>

\* A body that is no JSON has no field in which more could be wrong.
InputError(r) ==
  CASE With(r) # None -> With(r)
    [] r.id = "malformed" -> "InvalidPathParameter"
    [] OTHER -> FirstFailed(HandlerChecks(r), r.body)

InputStatus(e) ==
  CASE e = "Unauthenticated" -> 401 [] e = "Forbidden" -> 403 [] e = "PayloadTooLarge" -> 413
    [] OTHER -> 400
-----------------------------------------------------------------------------
(* What the services look at.                                              *)

CompileChecks == <<"ErrExpressionSyntax", "ErrExpressionType", "ErrExpressionCostEstimation",
                   "ErrExpressionCostExceeded", "ErrExpressionProgram">>

\* CreateRuleCommand: Compile, then NewRule; what the tags of the handler have checked
\* cannot fail again.
CreateRuleChecks == CompileChecks \o <<"ErrRuleNameRequired">>

ValidateCustomPeriodChecks ==
  <<"ErrLimitCustomDatesOrder", "ErrLimitCustomPeriodTooLong", "ErrLimitCustomPeriodExpired",
    "ErrLimitCustomDatesNotAllowed">>

\* CreateLimitCommand and the constructors.  A CUSTOM limit with no dates is found last.
CreateLimitChecks ==
  <<"ErrLimitTimeWindowMismatch", "ErrLimitCustomDatesRequired",
    "ErrLimitInvalidCustomStartFormat", "ErrLimitInvalidCustomEndFormat">>
  \o ValidateCustomPeriodChecks
  \o <<"ErrLimitTimeWindowZeroWidth", "ErrLimitNameRequired", "ErrLimitNameInvalidChars",
       "ErrLimitDescriptionInvalidChars", "ErrLimitInvalidCurrency", "ErrLimitInvalidScope",
       "CustomWithoutDates">>

\* UpdateLimitCommand and Limit.Update, once the limit is read.
UpdateLimitChecks ==
  <<"ErrLimitInvalidCustomStartFormat", "ErrLimitInvalidCustomEndFormat",
    "ErrLimitNameRequired", "ErrLimitNameInvalidChars", "ErrLimitDescriptionInvalidChars",
    "ErrLimitInvalidScope", "ErrLimitTimeWindowMismatch", "ErrLimitTimeWindowZeroWidth",
    "ErrLimitCustomDatesRequired">>
  \o ValidateCustomPeriodChecks

\* UpdateRuleCommand with a rule it read in a status.
UpdateRuleError(r, status) ==
  IF "expression" \in r.body /\ status # "DRAFT" THEN "ErrExpressionNotModifiable"
  ELSE FirstFailed(CreateRuleChecks, r.body)

\* The status commands.  The body of an activation is what the stored expression fails.
StatusError(r, status) ==
  IF /\ r.kind = "rules" /\ r.verb = "activate"
     /\ FirstFailed(CompileChecks, r.body) # None THEN "ErrExpressionSyntax"
  ELSE IF CanTransitionTo(status, Target(r.verb)) THEN None
  ELSE IF r.kind = "rules" THEN "InvalidTransitionError" ELSE "ErrLimitInvalidStatusChange"

\* What a command finds wrong before it writes.
ServiceError(r, status) ==
  CASE r.verb = "create" /\ r.kind = "rules" -> FirstFailed(CreateRuleChecks, r.body)
    [] r.verb = "create" /\ r.kind = "limits" -> FirstFailed(CreateLimitChecks, r.body)
    [] r.verb = "update" /\ r.kind = "rules" -> UpdateRuleError(r, status)
    [] r.verb = "update" /\ r.kind = "limits" -> FirstFailed(UpdateLimitChecks, r.body)
    [] OTHER -> StatusError(r, status)

\* The id that is all zeros is refused, or is that of no row.
NilIDError(kind) ==
  CASE kind = "limits" -> "ErrLimitInvalidID" [] kind = "validations" -> "ErrInvalidPathParameter"
    [] kind = "rules" -> "ErrRuleNotFound" [] kind = "audit-events" -> "ErrAuditEventNotFound"

NotFoundError(kind) ==
  CASE kind = "rules" -> "ErrRuleNotFound" [] kind = "limits" -> "ErrLimitNotFound"
    [] kind = "validations" -> "ErrTransactionValidationNotFound"
    [] kind = "audit-events" -> "ErrAuditEventNotFound"

NameTakenError(kind) ==
  IF kind = "rules" THEN "ErrRuleNameAlreadyExistsInCtx" ELSE "ErrLimitNameAlreadyExists"

\* The errors a request may end with: of the handler, of the service, and of what they call.
Errors ==
  Range(ValidateHandler) \cup Range(CreateRuleHandler) \cup Range(UpdateRuleHandler)
  \cup Range(CreateLimitHandler) \cup Range(UpdateLimitHandler) \cup Range(CreateRuleChecks)
  \cup Range(CreateLimitChecks) \cup Range(UpdateLimitChecks)
  \cup {"Unauthenticated", "Forbidden", "InvalidPathParameter", "ErrExpressionNotModifiable",
         "InvalidTransitionError", "ErrLimitInvalidStatusChange", "error", "precision", "cancelled"}
  \cup {NilIDError(kind) : kind \in Kinds} \cup {NotFoundError(kind) : kind \in Kinds}
  \cup {NameTakenError(kind) : kind \in {"rules", "limits"}}

ASSUME NoneAssumption == None \notin Errors \cup Statuses
-----------------------------------------------------------------------------
(* The tables of errors.                                                   *)

\* Mutant of handleServiceError: an expression is answered with a status of its own.
handleServiceErrorUnprocessable(e) ==
  CASE e = "ErrRuleNameAlreadyExistsInCtx" -> 409
    [] e \in {"ErrExpressionSyntax", "ErrExpressionType"} -> 422
    [] e = "ErrRuleNotFound" -> 404
    [] OTHER -> 500

\* With handleLifecycleError's InvalidTransitionError, which no other command returns.
handleServiceError(e) ==
  CASE e = "ErrRuleNameAlreadyExistsInCtx" -> 409
    [] e \in {"ErrExpressionSyntax", "ErrExpressionType", "ErrExpressionCostExceeded",
              "ErrExpressionNotModifiable", "InvalidTransitionError"} -> 400
    [] e = "ErrRuleNotFound" -> 404
    [] OTHER -> 500

\* Mutant of handleLimitServiceError: no case for the name.
handleLimitServiceErrorNoConflict(e) ==
  CASE e = "ErrLimitNotFound" -> 404
    [] e \in {"ErrLimitAlreadyDeleted", "ErrLimitInvalidStatusChange", "ErrLimitNameRequired",
              "ErrLimitNameInvalidChars", "ErrLimitDescriptionInvalidChars",
              "ErrLimitInvalidCurrency", "ErrLimitInvalidScope"} -> 400
    [] OTHER -> 500

handleLimitServiceError(e) ==
  CASE e = "ErrLimitNameAlreadyExists" -> 409
    [] e = "ErrLimitNotFound" -> 404
    [] e \in {"ErrLimitAlreadyDeleted", "ErrLimitInvalidStatusChange", "ErrLimitNameRequired",
              "ErrLimitNameInvalidChars", "ErrLimitDescriptionInvalidChars",
              "ErrLimitInvalidCurrency", "ErrLimitInvalidScope"} -> 400
    [] OTHER -> 500

handleTransactionValidationServiceError(e) ==
  CASE e = "ErrTransactionValidationNotFound" -> 404 [] OTHER -> 500

handleAuditEventServiceError(e) == CASE e = "ErrAuditEventNotFound" -> 404 [] OTHER -> 500

\* Nothing returns ErrValidationTimeout, ErrRuleEvaluationFailed or ErrLimitCheckFailed.
handleValidationError(e) ==
  CASE e = "cancelled" -> 503 [] e = "precision" -> 400 [] OTHER -> 500

ErrorStatus(r, e) ==
  CASE r.verb = "validate" -> handleValidationError(e)
    [] r.kind = "rules" -> handleServiceError(e)
    [] r.kind = "limits" -> handleLimitServiceError(e)
    [] r.kind = "validations" /\ r.verb = "get" -> handleTransactionValidationServiceError(e)
    [] OTHER -> handleAuditEventServiceError(e)

SuccessStatus(verb) == CASE verb = "create" -> 201 [] verb = "delete" -> 204 [] OTHER -> 200
-----------------------------------------------------------------------------
VARIABLES
  req,       \* the request
  pc,        \* where its handling is
  row,       \* the status of the row it is about; of a validation: ABSENT or STORED
  taken,     \* the name it gives is that of another row
  read,      \* the status it has read, or None
  err,       \* the error it has met, or None
  resp,      \* the status of the answer, or None
  effect,    \* history: what it has written, or None
  failed,    \* history: the database has failed it, or its context has ended
  others,    \* how many steps other requests have taken
  counters,  \* counters[k]: current_usage of the counters of the limit
  before,    \* history: counters when the request arrived
  snapshot   \* UsageSnapshot, or None

\* What the handler of the request leaves alone, and what is its own.
scene == <<req, taken, others, counters, before>>
handling == <<pc, read, err, resp, effect, failed, snapshot>>
vars == <<scene, row, handling, evaluation>>

Pcs == {"arrived", "create", "fetch", "usage", "write", "find", "evaluate", "check", "store",
        "answered"}

\* The answers the comments of the handlers list.
Documented(r) ==
  CASE r.verb = "validate" -> {200, 201, 400, 401, 413, 500, 503, 504}
    [] r.verb = "create" -> {201, 400, 401, 409, 500}
    [] r.verb = "update" -> {200, 400, 401, 404, 409, 500}
    [] r.verb = "delete" -> {204, 400, 401, 404, 500}
    [] OTHER -> {200, 400, 401, 404, 500}

\* The plugin may answer 403, which the comments do not list.
Answers(r) == Documented(r) \cup (IF r.access.pluginAuthEnabled THEN {403} ELSE {})

\* An answer is one the API documents for the operation, or the plugin's.
TypeOK ==
  /\ pc \in Pcs
  /\ row \in RowStatuses(req.kind) /\ read \in Statuses \cup {None}
  /\ err \in Errors \cup {None}
  /\ taken \in BOOLEAN /\ failed \in BOOLEAN
  /\ IF pc = "answered" THEN resp \in Answers(req) ELSE resp = None
  /\ effect \in Statuses \cup {None}
  /\ others \in 0 .. MaxOthers
  /\ counters \in [CounterKeys -> Nat] /\ before \in [CounterKeys -> Nat]
  /\ EvaluationTypeOK

Init ==
  /\ req \in Requests
  /\ pc = "arrived"
  /\ row \in IF req.verb = "create" THEN {"ABSENT"} ELSE Rows[req.kind]
  /\ taken \in IF req.verb \in {"create", "update"} THEN BOOLEAN ELSE {FALSE}
  /\ read = None /\ err = None /\ resp = None /\ effect = None /\ failed = FALSE
  /\ others = 0
  /\ counters \in [CounterKeys -> IF req.verb = "usage" THEN 0 .. MaxUsage ELSE {0}]
  /\ before = counters
  /\ snapshot = None
  /\ EvaluationInit(IF req.verb = "validate" /\ InputError(req) = None THEN Caches
                    ELSE {[r \in Rules |-> None]})

Answer(status) == pc' = "answered" /\ resp' = status

\* An error of the service, through the table.
ReturnError(e) == err' = e /\ Answer(ErrorStatus(req, e))

\* The middleware and the handler up to the service.
Receive ==
  /\ pc = "arrived"
  /\ err' = InputError(req)
  /\ IF err' # None THEN Answer(InputStatus(err'))
     ELSE /\ pc' = CASE req.verb = "validate" -> "find" [] req.verb = "create" -> "create"
                     [] OTHER -> "fetch"
          /\ resp' = resp
  /\ UNCHANGED <<scene, row, read, effect, failed, snapshot, evaluation>>

\* The row a query by id gives.
Found == req.id = "known" /\ row \in Live \cup {"STORED"}
FetchError == CASE req.id = "nil" -> NilIDError(req.kind)
                [] req.id # "nil" /\ ~Found -> NotFoundError(req.kind)
                [] OTHER -> None

\* The service reads its row and goes on, unless there is none.
Fetch(onward) ==
  /\ pc = "fetch"
  /\ IF FetchError # None THEN ReturnError(FetchError) /\ read' = read ELSE read' = row /\ onward
  /\ UNCHANGED <<scene, row, effect, failed, snapshot, evaluation>>

GoTo(step) == pc' = step /\ UNCHANGED <<err, resp>>
Succeed == Answer(SuccessStatus(req.verb)) /\ UNCHANGED err

Endpoint(kind, verb) == req.kind = kind /\ req.verb = verb

GetRule == Endpoint("rules", "get") /\ Fetch(Succeed)
GetLimit == Endpoint("limits", "get") /\ Fetch(Succeed)
GetLimitUsage == Endpoint("limits", "usage") /\ Fetch(GoTo("usage"))
GetTransactionValidation == Endpoint("validations", "get") /\ Fetch(Succeed)
GetAuditEvent == Endpoint("audit-events", "get") /\ Fetch(Succeed)
VerifyHashChain == Endpoint("audit-events", "verify") /\ Fetch(Succeed)

\* A command goes to its write if it finds nothing wrong.
Checked == LET e == ServiceError(req, row) IN IF e # None THEN ReturnError(e) ELSE GoTo("write")

\* A status that is set already is left.
SetStatus == IF row = Target(req.verb) THEN Succeed ELSE Checked

UpdateRule == Endpoint("rules", "update") /\ Fetch(Checked)
ActivateRule == Endpoint("rules", "activate") /\ Fetch(SetStatus)
DeactivateRule == Endpoint("rules", "deactivate") /\ Fetch(SetStatus)
DraftRule == Endpoint("rules", "draft") /\ Fetch(SetStatus)
DeleteRule == Endpoint("rules", "delete") /\ Fetch(SetStatus)

UpdateLimit == Endpoint("limits", "update") /\ Fetch(Checked)
ActivateLimit == Endpoint("limits", "activate") /\ Fetch(SetStatus)
DeactivateLimit == Endpoint("limits", "deactivate") /\ Fetch(SetStatus)
DraftLimit == Endpoint("limits", "draft") /\ Fetch(SetStatus)
DeleteLimit == Endpoint("limits", "delete") /\ Fetch(SetStatus)

\* A create reads nothing.
Construct == /\ pc = "create"
             /\ Checked
             /\ UNCHANGED <<scene, row, read, effect, failed, snapshot, evaluation>>

CreateRule == Endpoint("rules", "create") /\ Construct
CreateLimit == Endpoint("limits", "create") /\ Construct

\* Mutant of NewUsageSnapshot: the usage of one counter.
NewUsageSnapshotOne ==
  LET usage == IF CounterKeys = {} THEN 0 ELSE counters[CHOOSE k \in CounterKeys : TRUE]
  IN [currentUsage |-> usage, nearLimit |-> usage * 100 > 80 * MaxAmount]

\* The sum of the counters of the limit, of whichever scope and period.
NewUsageSnapshot ==
  LET usage == SumFunction(counters)
  IN [currentUsage |-> usage, nearLimit |-> usage * 100 > 80 * MaxAmount]

\* GetLimitUsage, once the limit is read.
ReadUsage ==
  /\ pc = "usage"
  /\ snapshot' = NewUsageSnapshot
  /\ Answer(200)
  /\ UNCHANGED <<scene, row, read, err, effect, failed, evaluation>>

\* The statements of an update have deleted_at IS NULL.
RowsAffected == req.verb = "create" \/ row \in Live

\* The status the row is given: an update writes the whole row, with the status it read.
Written == CASE req.verb = "create" -> "DRAFT" [] req.verb = "update" -> read
             [] OTHER -> Target(req.verb)

NameTaken == req.verb \in {"create", "update"} /\ taken

\* Mutant of Write: how many rows were affected is not looked at.
WriteUnchecked ==
  /\ pc = "write"
  /\ UNCHANGED <<scene, read, failed, snapshot, evaluation>>
  /\ IF NameTaken THEN ReturnError(NameTakenError(req.kind)) /\ UNCHANGED <<row, effect>>
     ELSE /\ row' = IF RowsAffected THEN Written ELSE row
          /\ effect' = IF RowsAffected THEN Written ELSE effect
          /\ Succeed

\* The write.  A row that is gone and a name that was taken meanwhile are errors of their
\* own; the audit event of the change is tried and its errors are logged.
Write ==
  /\ pc = "write"
  /\ UNCHANGED <<scene, read, failed, snapshot, evaluation>>
  /\ CASE ~RowsAffected -> ReturnError(NotFoundError(req.kind)) /\ UNCHANGED <<row, effect>>
       [] RowsAffected /\ NameTaken ->
            ReturnError(NameTakenError(req.kind)) /\ UNCHANGED <<row, effect>>
       [] OTHER -> row' = Written /\ effect' = Written /\ Succeed

\* The database fails, or the context has ended; of a write the answer may be all that is lost.
Fail ==
  /\ pc \in {"fetch", "usage", "write", "find", "check", "store"}
  /\ pc = "store" => read = "STORED"
  /\ failed' = TRUE
  /\ \E e \in {"error", "cancelled"} : ReturnError(e)
  /\ \/ UNCHANGED <<row, effect>>
     \/ /\ pc = "write" /\ RowsAffected /\ ~NameTaken
        /\ row' = Written /\ effect' = Written
     \/ /\ pc = "store" /\ row = "ABSENT"
        /\ row' = "STORED" /\ effect' = "STORED"
  /\ UNCHANGED <<scene, read, snapshot, evaluation>>
-----------------------------------------------------------------------------
(* POST /v1/validations.                                                   *)

\* Validate, Step 0: a request that is known is answered from its record.
FindByRequestID ==
  /\ pc = "find"
  /\ IF row = "STORED" THEN Answer(200) /\ UNCHANGED evaluation
     ELSE pc' = "evaluate" /\ resp' = resp /\ BeginEvaluation(Normalized(req.tx))
  /\ UNCHANGED <<scene, row, read, err, effect, failed, snapshot>>

\* Step 1.
EvaluateStep ==
  /\ pc = "evaluate"
  /\ LoadRules \/ EvaluateRule \/ Decide
  /\ UNCHANGED <<scene, row, handling>>

EvaluationCancelled ==
  /\ pc = "evaluate"
  /\ CancelEvaluation
  /\ failed' = TRUE
  /\ UNCHANGED <<scene, row, pc, read, err, resp, effect, snapshot>>

\* An error ends it, a DENY goes to its record without the limits.
Evaluated ==
  /\ pc = "evaluate" /\ stage \in {"done", "error"}
  /\ IF stage = "error" THEN ReturnError(result)
     ELSE GoTo(IF result.decision = "DENY" THEN "store" ELSE "check")
  /\ UNCHANGED <<scene, row, read, effect, failed, snapshot, evaluation>>

\* Steps 2 to 4: the limits let the transaction pass or not; read holds ALLOW's path.
CheckLimits ==
  /\ pc = "check"
  /\ pc' = "store"
  /\ \E allowed \in BOOLEAN :
       read' = IF allowed /\ result.decision = "ALLOW" THEN "STORED" ELSE None
  /\ UNCHANGED <<scene, row, err, resp, effect, failed, snapshot, evaluation>>

\* The record.  An ALLOW that another call has recorded is answered from that record; a
\* refusal is answered whether or not it could be recorded.
Store ==
  /\ pc = "store"
  /\ CASE row = "STORED" /\ read = "STORED" -> Answer(200) /\ UNCHANGED <<row, effect>>
       [] row = "STORED" /\ read = None -> Answer(201) /\ UNCHANGED <<row, effect>>
       [] row = "ABSENT" -> /\ Answer(201)
                            /\ \/ row' = "STORED" /\ effect' = "STORED"
                               \/ read = None /\ UNCHANGED <<row, effect>>
  /\ UNCHANGED <<scene, read, err, failed, snapshot, evaluation>>
-----------------------------------------------------------------------------
(* Other requests, the workers.                                            *)

Other == /\ pc \notin {"arrived", "answered"} /\ others < MaxOthers /\ others' = others + 1
         /\ UNCHANGED <<req, before, handling, evaluation>>

\* Another command changes the status of the row, or creates the record of the validation.
OtherChangesRow ==
  /\ Other
  /\ \/ \E s \in Statuses : CanTransitionTo(row, s) /\ row' = s
     \/ req.verb = "validate" /\ row = "ABSENT" /\ row' = "STORED"
  /\ UNCHANGED <<taken, counters>>

\* Another row takes the name, or gives it up.
OtherTakesName ==
  /\ Other
  /\ req.verb \in {"create", "update"}
  /\ taken' = ~taken
  /\ UNCHANGED <<row, counters>>

\* A validation counts on the limit; the clean-up removes what is left of a past period.
OtherCounts ==
  /\ Other
  /\ req.verb = "usage"
  /\ \E k \in CounterKeys :
       counters' = [counters EXCEPT ![k] = IF k \in CurrentKeys THEN @ + 1 ELSE 0]
  /\ UNCHANGED <<row, taken>>

OtherChangesCache ==
  /\ pc = "evaluate" /\ ChangeCache
  /\ UNCHANGED <<scene, row, handling>>

RuleHandler == CreateRule \/ UpdateRule \/ GetRule \/ ActivateRule \/ DeactivateRule \/ DraftRule
               \/ DeleteRule
LimitHandler == CreateLimit \/ UpdateLimit \/ GetLimit \/ GetLimitUsage \/ ReadUsage
                \/ ActivateLimit \/ DeactivateLimit \/ DraftLimit \/ DeleteLimit
QueryHandler == GetTransactionValidation \/ GetAuditEvent \/ VerifyHashChain

Handle == Receive \/ RuleHandler \/ LimitHandler \/ QueryHandler \/ Write
          \/ FindByRequestID \/ EvaluateStep \/ Evaluated \/ CheckLimits \/ Store

\* The request is answered once.
Done == pc = "answered" /\ UNCHANGED vars

Next == Handle \/ Fail \/ EvaluationCancelled \/ OtherChangesRow \/ OtherTakesName \/ OtherCounts
        \/ OtherChangesCache \/ Done

Spec == Init /\ [][Next]_vars
-----------------------------------------------------------------------------
(* Properties.                                                             *)

\* The answer tells what was done, whatever others do between the steps of the handler: a
\* success has written what was asked, or has found it so; an answer 4xx has written
\* nothing; 404 is said of what is not there; 200 of a validation is said
\* of one that is recorded, and what is allowed anew is recorded by the call itself.
AnswerTellsEffect ==
  pc = "answered" =>
    /\ resp \in {200, 201, 204} /\ req.verb \in StatusVerbs \cup {"create", "update"} =>
         effect # None \/ (req.verb \in StatusVerbs /\ read = Target(req.verb))
    /\ resp \in 400 .. 499 => effect = None
    /\ resp = 404 => row \in {"ABSENT", "DELETED"} \/ req.id = "nil"
    /\ req.verb = "validate" /\ resp = 200 => row = "STORED" /\ effect = None
    /\ req.verb = "validate" /\ resp = 201 /\ read = "STORED" => effect = "STORED"
    /\ effect # None /\ resp > 299 => failed

\* Errors a client causes that the tables have no case for.
Unmapped ==
  {"ErrLimitInvalidID", "ErrLimitTimeWindowMismatch", "ErrLimitTimeWindowZeroWidth",
   "ErrLimitCustomDatesNotAllowed", "ErrLimitCustomPeriodTooLong", "ErrLimitCustomPeriodExpired",
   "ErrLimitInvalidCustomStartFormat", "ErrLimitInvalidCustomEndFormat",
   "ErrLimitCustomDatesRequired", "ErrLimitCustomDatesOrder", "CustomWithoutDates",
   "ErrInvalidPathParameter", "ErrRuleNameRequired", "ErrExpressionCostEstimation",
   "ErrExpressionProgram"}

\* An answer 5xx is due to the database, to a context that has ended, to a rule that could
\* not be evaluated, or to an error the tables lack, which are these and no others: what
\* other requests do meanwhile is never the reason.
ServerErrorsExplained ==
  pc = "answered" => (resp >= 500 <=> failed \/ err \in Unmapped \cup {"error"})

\* The usage that is shown is not below what the counters of the current period held when
\* the request arrived, over all scopes, and the limit is shown to be near when it was,
\* though validations count and the clean-up removes counters meanwhile (GetLimitUsage).
UsageNeverUnderstated ==
  snapshot # None =>
    LET spent == SumFunctionOnSet(before, CurrentKeys) IN
      /\ snapshot.currentUsage >= spent
      /\ spent * 100 > 80 * MaxAmount => snapshot.nearLimit
=============================================================================
