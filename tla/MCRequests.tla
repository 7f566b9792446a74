----------------------------- MODULE MCRequests -----------------------------
(***************************************************************************)
(* Instances of Requests and Evaluation for TLC.                           *)
(***************************************************************************)
EXTENDS Requests, TLC

Scope(account, merchant, type, subType) ==
  [accountId |-> account, segmentId |-> None, portfolioId |-> None, merchantId |-> merchant,
   transactionType |-> type, subType |-> subType]

McTrimmed == " pos " :> "pos" @@ "pos" :> "pos"

McTx(s, huge) == [f \in Fields \cup {"huge"} |-> IF f = "huge" THEN huge ELSE s[f]]
McPos == McTx(Scope("a", "m", "CARD", "pos"), FALSE)
McPortfolio == McTx([Scope("b", None, "PIX", None) EXCEPT !.portfolioId = "p"], FALSE)
McHuge == McTx([Scope("a", None, "CARD", None) EXCEPT !.segmentId = "s"], TRUE)
McTransactions == {McPos, McTx(Scope("a", "m", "CARD", " pos "), FALSE), McPortfolio, McHuge}

\* The rules match every transaction (DENY), or McPos (REVIEW, by merchant; ALLOW, by type),
\* or cannot be evaluated for it.
McRule(scopes, action, true, fails) ==
  [scopes |-> scopes, action |-> action, true |-> true, fails |-> fails]
McVersions ==
  {McRule(<<>>, "DENY", {McPos, McPortfolio}, {}),
   McRule(<<Scope(None, "m", None, "pos")>>, "REVIEW", {McPos}, {}),
   McRule(<<Scope("c", None, None, None), Scope(None, None, "CARD", None)>>, "ALLOW", {McPos}, {}),
   McRule(<<Scope("a", None, None, None)>>, "ALLOW", {}, {McPos})}

McLimitScopes ==
  {<<>>, <<Scope("a", None, None, None)>>, <<Scope(None, "m", None, None)>>,
   <<[Scope(None, None, None, None) EXCEPT !.portfolioId = "p"], Scope("a", None, "CARD", None)>>,
   <<Scope(None, None, "CARD", None), Scope(None, None, "PIX", None)>>}

McEdges == {0, 1, 360, 1200, 1439}
McWindows == McEdges \X McEdges

McOpen == [pluginAuthEnabled |-> FALSE, apiKeyEnabled |-> TRUE, apiKeyOnlyValidation |-> FALSE,
           key |-> TRUE, plugin |-> "Unauthenticated"]
McAccess == [pluginAuthEnabled : BOOLEAN, apiKeyEnabled : BOOLEAN,
             apiKeyOnlyValidation : BOOLEAN, key : BOOLEAN,
             plugin : {None, "Unauthenticated", "Forbidden"}]

McRequest(kind, verb, id, body, access, t) ==
  [kind |-> kind, verb |-> verb, id |-> id, body |-> body, access |-> access, tx |-> t]

McEndpoints == UNION {{kind} \X (NewRoutes(kind) \ {"create", "validate"}) : kind \in Kinds}

\* What may be wrong with a body, as far as two things may be wrong with the same.
McRange(s) == {s[i] : i \in DOMAIN s}
McDefects(kind, verb) ==
  CASE verb = "validate" -> McRange(ValidateHandler)
    [] verb = "create" /\ kind = "rules" -> McRange(CreateRuleHandler \o CreateRuleChecks)
    [] verb = "create" /\ kind = "limits" -> McRange(CreateLimitHandler \o CreateLimitChecks)
    [] verb = "update" /\ kind = "rules" ->
         McRange(UpdateRuleHandler \o <<"ErrRuleNameRequired", "expression">>)
    [] verb = "update" /\ kind = "limits" ->
         McRange(UpdateLimitHandler \o UpdateLimitChecks)
    [] verb = "activate" /\ kind = "rules" -> {"ErrExpressionSyntax", "ErrExpressionCostExceeded"}
    [] OTHER -> {}
McBodies(kind, verb) ==
  LET one == McDefects(kind, verb)
      some == {{}} \cup {{x} : x \in one} \cup {{x, y} : x \in one, y \in one}
  IN IF <<kind, verb>> = <<"rules", "update">>
     THEN some \cup {{"expression", x} : x \in McRange(CompileChecks)} ELSE some

McRequests ==
  UNION {{McRequest(e[1], e[2], id, b, McOpen, None) :
            id \in {"malformed", "nil", "known"}, b \in McBodies(e[1], e[2])} : e \in McEndpoints}
  \cup UNION {{McRequest(k, "create", None, b, McOpen, None) : b \in McBodies(k, "create")}
                : k \in {"rules", "limits"}}
  \cup {McRequest("validations", "validate", None, b, McOpen, McPortfolio) :
          b \in McBodies("validations", "validate") \ {{}}}
  \cup {McRequest("validations", "validate", None, {}, McOpen, t) : t \in McTransactions}
  \cup {McRequest("validations", "validate", None, {"BodyParser"}, a, McPortfolio) : a \in McAccess}
  \cup {McRequest("rules", "get", "known", {}, a, None) : a \in McAccess}

McRows == [kind \in Kinds |-> RowStatuses(kind)]
=============================================================================
