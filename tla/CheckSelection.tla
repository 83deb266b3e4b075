---------------------------- MODULE CheckSelection ----------------------------
(***************************************************************************)
(* The linters that choose among checks of their own: govet, gocritic and  *)
(* revive.  Settings that only change what a check looks for are left out. *)
(***************************************************************************)
EXTENDS Naturals, FiniteSets

CONSTANT
    CheckTags           \* CheckTags[c]: the tags of go-critic's check c

-----------------------------------------------------------------------------
(* govet: the packages of the analyzers.                                   *)
AllAnalyzers ==
    {"appends", "asmdecl", "assign", "atomic", "atomicalign",
     "bools", "buildtag", "cgocall", "composite", "copylock",
     "deepequalerrors", "defers", "directive", "errorsas", "fieldalignment",
     "findcall", "framepointer", "httpresponse", "ifaceassert",
     "loopclosure", "lostcancel", "nilfunc", "nilness", "printf",
     "reflectvaluecompare", "shadow", "shift", "sigchanyzer", "slog",
     "sortslice", "stdmethods", "stdversion", "stringintconv", "structtag",
     "testinggoroutine", "tests", "timeformat", "unmarshal", "unreachable",
     "unsafeptr", "unusedresult", "unusedwrite", "waitgroup"}

DefaultAnalyzers ==
    {"appends", "asmdecl", "assign", "atomic", "bools",
     "buildtag", "cgocall", "composite", "copylock", "defers", "directive",
     "errorsas", "framepointer", "httpresponse", "ifaceassert",
     "loopclosure", "lostcancel", "nilfunc", "printf", "shift",
     "sigchanyzer", "slog", "stdmethods", "stdversion", "stringintconv",
     "structtag", "testinggoroutine", "tests", "timeformat", "unmarshal",
     "unreachable", "unsafeptr", "unusedresult"}

DefaultGovet ==
    [checkShadowing |-> FALSE, enableAll |-> FALSE, disableAll |-> FALSE,
     enable |-> {}, disable |-> {}]

(* From Go 1.22 a loop variable is one per iteration.  The old option      *)
(* check-shadowing comes before all others.                                *)
IsAnalyzerEnabled(a, s, go) ==
    /\ ~(a = "loopclosure" /\ go >= 2 * 22)
    /\ \/ s.checkShadowing /\ a = "shadow"
       \/ s.enableAll /\ a \notin s.disable
       \/ ~s.enableAll /\ a \in s.enable
       \/ ~s.enableAll /\ a \notin s.disable /\ ~s.disableAll /\ a \in DefaultAnalyzers

AnalyzersFromConfig(s, go) == {a \in AllAnalyzers : IsAnalyzerEnabled(a, s, go)}

-----------------------------------------------------------------------------
(* gocritic.                                                               *)
AllChecks == DOMAIN CheckTags
AllTags == UNION {CheckTags[c] : c \in AllChecks}

DefaultGocritic ==
    [enableAll |-> FALSE, disableAll |-> FALSE, enabledTags |-> {}, disabledTags |-> {},
     enabledChecks |-> {}, disabledChecks |-> {}, checkSettings |-> {}]

IsEnabledByDefault(c) ==
    CheckTags[c]
        \intersect {"experimental", "opinionated", "performance", "security"} = {}

ExpandTagsToChecks(tags) == {c \in AllChecks : CheckTags[c] \intersect tags # {}}

EnabledByTags(s) ==
    (IF s.enableAll THEN AllChecks
     ELSE {c \in AllChecks : ~s.disableAll /\ IsEnabledByDefault(c)})
        \union ExpandTagsToChecks(s.enabledTags)

(* A check that is enabled by name outweighs a tag that is disabled.       *)
LeftByTagsUnlessNamed(s) ==
    (EnabledByTags(s) \ ExpandTagsToChecks(s.disabledTags)) \union s.enabledChecks

LeftByTags(s) ==
    (EnabledByTags(s) \union s.enabledChecks) \ ExpandTagsToChecks(s.disabledTags)

(* Disabling comes last, by tag and by name.                               *)
InferEnabledChecks(s) == LeftByTags(s) \ s.disabledChecks

(* Checks that a warning says were on or off already, or are off but have  *)
(* settings.                                                               *)
NeedlessChecks(s) ==
    (s.enabledChecks \intersect EnabledByTags(s))
        \union (s.disabledChecks \ LeftByTags(s))
        \union (s.checkSettings \ InferEnabledChecks(s))

ValidateGocritic(s) ==
    /\ s.enableAll => ~s.disableAll /\ s.enabledTags = {} /\ s.enabledChecks = {}
    /\ s.disableAll => /\ s.disabledTags = {} /\ s.disabledChecks = {}
                      /\ s.enabledTags \union s.enabledChecks # {}
    /\ s.enabledTags \union s.disabledTags \subseteq AllTags
    /\ s.enabledChecks \union s.disabledChecks \union s.checkSettings \subseteq AllChecks
    /\ s.enabledTags \intersect s.disabledTags = {}
    /\ s.enabledChecks \intersect s.disabledChecks = {}
    /\ InferEnabledChecks(s) # {}

-----------------------------------------------------------------------------
(* revive: the types of the rules.                                         *)
DefaultRules ==
    {"VarDeclarationsRule", "PackageCommentsRule", "DotImportsRule",
     "BlankImportsRule", "ExportedRule", "VarNamingRule",
     "IndentErrorFlowRule", "RangeRule", "ErrorfRule", "ErrorNamingRule",
     "ErrorStringsRule", "ReceiverNamingRule", "IncrementDecrementRule",
     "ErrorReturnRule", "UnexportedReturnRule", "TimeNamingRule",
     "ContextKeysType", "ContextAsArgumentRule", "EmptyBlockRule",
     "SuperfluousElseRule", "UnusedParamRule", "UnreachableCodeRule",
     "RedefinesBuiltinIDRule"}

AllRules == DefaultRules \union
    {"ArgumentsLimitRule", "CyclomaticRule", "FileHeaderRule",
     "ConfusingNamingRule", "GetReturnRule", "ModifiesParamRule",
     "ConfusingResultsRule", "DeepExitRule", "AddConstantRule",
     "FlagParamRule", "UnnecessaryStmtRule", "StructTagRule",
     "ModifiesValRecRule", "ConstantLogicalExprRule", "BoolLiteralRule",
     "ImportsBlocklistRule", "FunctionResultsLimitRule",
     "MaxPublicStructsRule", "RangeValInClosureRule", "RangeValAddress",
     "WaitGroupByValueRule", "AtomicRule", "EmptyLinesRule",
     "LineLengthLimitRule", "CallToGCRule", "DuplicatedImportsRule",
     "ImportShadowingRule", "BareReturnRule", "UnusedReceiverRule",
     "UnhandledErrorRule", "CognitiveComplexityRule", "StringOfIntRule",
     "StringFormatRule", "EarlyReturnRule", "UnconditionalRecursionRule",
     "IdenticalBranchesRule", "DeferRule", "UnexportedNamingRule",
     "FunctionLength", "NestedStructs", "UselessBreak",
     "UncheckedTypeAssertionRule", "TimeEqualRule", "BannedCharsRule",
     "OptimizeOperandsOrderRule", "UseAnyRule", "DataRaceRule",
     "CommentSpacingsRule", "IfReturnRule", "RedundantImportAlias",
     "ImportAliasNamingRule", "EnforceMapStyleRule",
     "EnforceRepeatedArgTypeStyleRule", "EnforceSliceStyleRule",
     "MaxControlNestingRule", "CommentsDensityRule", "FileLengthLimitRule",
     "FilenameFormatRule"}

(* "other" tells that an option is set which is neither of the first two.  *)
DefaultRevive == [enableAllRules |-> FALSE, rules |-> <<>>, other |-> FALSE]

(* Any option at all takes the place of the default configuration, and     *)
(* with it of the default rules.                                           *)
GetConfig(s) ==
    IF s = DefaultRevive THEN [r \in DefaultRules |-> [disabled |-> FALSE]]
    ELSE s.rules

NormalizeConfig(s) ==
    LET given == GetConfig(s)
    IN  [r \in DOMAIN given \union (IF s.enableAllRules THEN AllRules ELSE {}) |->
            IF r \in DOMAIN given THEN given[r] ELSE [disabled |-> FALSE]]

(* A rule that revive does not know is an error.                           *)
ReviveSetUp(s) == DOMAIN NormalizeConfig(s) \subseteq AllRules
LintingRules(s) == {r \in DOMAIN NormalizeConfig(s) : ~NormalizeConfig(s)[r].disabled}
=============================================================================
