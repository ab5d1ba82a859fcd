-------------------------------- MODULE GenAi --------------------------------
(***************************************************************************)
(* The chat completion calls of ai-cv-generate.genai and                   *)
(* ai-cv-analyzer.genai: what the provider is sent, the error a failure    *)
(* becomes and what is tried again.                                        *)
(***************************************************************************)
EXTENDS ModelApi

CONSTANT MaxRetries   \* integrations.aiCvAnalyzerGenAi.maxRetries

ASSUME GenAiAssumption == MaxRetries \in Nat

\* A call may also be throttled, or answer without any content.
GenAiFailures == Failures \cup {"throttled", "empty"}
\* The analyzer needs JSON: content that is none is a failure too.
CopyFailures == GenAiFailures \cup {"prose"}

\* The generator sends the text and the file, the analyzer the file if it has
\* one; of the evidence's file and cache only ids and sizes are left.
BuildCvGenerateUserContent(text, file) == text \cup file
BuildCvAnalyzerUserContent(text, attachment) == text \cup UNION attachment

MapProviderHttpError(failure) ==
    IF failure \in {"throttled", "server"} THEN "Unavailable" ELSE "Downstream"

\* What parseProviderMarkdownResponse and parseProviderJsonResponse reject; a body cut off by the deadline was read as "".
NotMarkdown == {"garbled", "cut", "shape", "empty"}
NotJson == NotMarkdown \cup {"prose"}

\* One attempt of each.
RequestGeneratedCvMarkdownOnce(failure) ==
    CASE failure \in {"throttled", "server", "client"} -> MapProviderHttpError(failure)
      [] failure \in NotMarkdown -> "Downstream"
      [] failure \in {"timeout", "refused"} -> "Unavailable"
RequestCvAnalyzerCopyOnce(failure) ==
    IF failure \in NotJson THEN "Downstream"
    ELSE RequestGeneratedCvMarkdownOnce(failure)

(* Regression: attempt <= maxAttempts. *)
OneMoreRetry(class, attempt) == class = "Unavailable" /\ attempt <= MaxRetries + 1

ShouldRetryProviderError(class, attempt) ==
    class = "Unavailable" /\ attempt < MaxRetries + 1

\* Whether an attempt that failed is the last.
RequestGeneratedCvMarkdown(failure, attempt) ==
    IF ShouldRetryProviderError(RequestGeneratedCvMarkdownOnce(failure), attempt)
    THEN "again" ELSE "failed"
RequestCvAnalyzerCopy(failure, attempt) ==
    IF ShouldRetryProviderError(RequestCvAnalyzerCopyOnce(failure), attempt)
    THEN "again" ELSE "failed"
=============================================================================
