------------------------------- MODULE PluginTabs -------------------------------
(* The two tabs that plugins add to the page of a sample: PhpDeobfTab.tsx, which has it
   deobfuscated on demand, and YaraXRegexTab.tsx with RegexInput.tsx, which evaluates a
   regular expression on it while it is typed. Both stay mounted when the user goes
   from one sample to another with the tab open; both have an AbortController, of the
   last request, and call it in the clean-up of an effect.

   An aborted request is rejected before anything else happens, so it is gone.       *)
EXTENDS Naturals

CONSTANTS
    Samples,    \* the samples the user looks at
    Regexes,    \* the expressions he types, whole
    Empty,      \* no expression
    NoResult

ASSUME TabsAssumption == Empty \notin Regexes /\ NoResult \notin Samples \X Regexes

Typed == Regexes \cup {Empty}
Evals == Samples \X Regexes

VARIABLES
    sample,    \* the sample of the page
    runs,      \* the requests of the deobfuscation under way, by sample
    shownRun,  \* the state of PhpDeobfTab: [kind, of]
    left,      \* the user has left the sample whose request was under way
    regex,     \* what is in the input
    drafts,    \* localStorage: the draft of each sample
    timer,     \* debounceRef: an evaluation is about to be asked for
    evals,     \* the evaluations under way: sample and expression
    inFlight,  \* the spinner of the regex tab
    result,    \* lastResult: what it is of, or NoResult
    lastOk,    \* lastOkResult: the same of the last one that was good
    banner     \* backendUnavailable, which only goes away with the tab

deobfVars == <<runs, shownRun, left>>
regexVars == <<regex, drafts, timer, evals, inFlight, result, lastOk, banner>>
tabsVars == <<sample, deobfVars, regexVars>>

Idle == [kind |-> "idle", of |-> NoResult]

-------------------------------------------------------------------------------
(* The clean-up of the effects: ctrl.abort(). Mutant: the request goes on. *)
AbortedNot(requests) == requests
Aborted(requests) == {}

(* The effect of the regex tab, after the sample or the expression has changed, which
   first cleans up. Without an expression the result goes away, but not the last good
   one.                                                                             *)
Evaluate(x) ==
    /\ evals' = Aborted(evals)
    /\ inFlight' = (inFlight /\ evals' # {})
    /\ timer' = (x # Empty)
    /\ result' = IF x = Empty THEN NoResult ELSE result
    /\ UNCHANGED <<lastOk, banner>>

TabsInit ==
    /\ sample \in Samples
    /\ runs = {} /\ shownRun = Idle /\ left = FALSE
    /\ drafts \in [Samples -> Typed]
    /\ regex = drafts[sample]     \* the first effects of RegexInput take it out
    /\ timer = (regex # Empty)
    /\ evals = {} /\ inFlight = FALSE
    /\ result = NoResult /\ lastOk = NoResult /\ banner = FALSE

(* The page of another sample. The input keeps its expression, which becomes the
   draft of that sample: the one that was there is not taken out, but overwritten. *)
GoToSample(s) ==
    /\ s # sample
    /\ sample' = s
    /\ runs' = Aborted(runs)
    /\ left' = (left \/ (runs # {} /\ runs' = {}))
    /\ drafts' = IF banner THEN drafts ELSE [drafts EXCEPT ![s] = regex]
    /\ Evaluate(regex)
    /\ UNCHANGED <<shownRun, regex>>

-------------------------------------------------------------------------------
(* PhpDeobfTab: the button, which is disabled while its request is under way. *)
ButtonEnabled == shownRun.kind # "running"

OnRun ==
    /\ ButtonEnabled
    /\ runs' = Aborted(runs) \cup {sample}
    /\ shownRun' = [kind |-> "running", of |-> sample]
    /\ left' = FALSE
    /\ UNCHANGED <<sample, regexVars>>

(* A result, an error or, with 503, that the service is not there. *)
Deobfuscated(s) ==
    /\ s \in runs
    /\ runs' = runs \ {s}
    /\ \E k \in {"done", "unavailable"} : shownRun' = [kind |-> k, of |-> s]
    /\ UNCHANGED <<sample, left, regexVars>>

-------------------------------------------------------------------------------
(* RegexInput and the effect of the regex tab. *)
TypeRegex(x) ==
    /\ x # regex /\ ~banner
    /\ regex' = x
    /\ drafts' = [drafts EXCEPT ![sample] = x]
    /\ Evaluate(x)
    /\ UNCHANGED <<sample, deobfVars>>

(* After 200 ms without another change. *)
Debounced ==
    /\ timer
    /\ timer' = FALSE
    /\ evals' = Aborted(evals) \cup {<<sample, regex>>}
    /\ inFlight' = TRUE
    /\ UNCHANGED <<sample, deobfVars, regex, drafts, result, lastOk, banner>>

Evaluated(e) ==
    /\ e \in evals
    /\ evals' = evals \ {e}
    /\ inFlight' = FALSE
    /\ \/ /\ result' = e
          /\ lastOk' \in {lastOk, e}
          /\ UNCHANGED banner
       \/ /\ banner' = TRUE
          /\ UNCHANGED <<result, lastOk>>
    /\ UNCHANGED <<sample, deobfVars, regex, drafts, timer>>

TabsNext ==
    \/ \E s \in Samples : GoToSample(s) \/ Deobfuscated(s)
    \/ OnRun
    \/ \E x \in Typed : TypeRegex(x)
    \/ Debounced
    \/ \E e \in Evals : Evaluated(e)

(* Timers run and what is asked for is answered. *)
TabsFairness ==
    /\ WF_tabsVars(Debounced)
    /\ \A s \in Samples : WF_tabsVars(Deobfuscated(s))
    /\ \A e \in Evals : WF_tabsVars(Evaluated(e))

TabsSpec == TabsInit /\ [][TabsNext]_tabsVars /\ TabsFairness

-------------------------------------------------------------------------------
TabsTypeOK ==
    /\ sample \in Samples
    /\ runs \subseteq Samples
    /\ shownRun \in [kind : {"idle", "running", "done", "unavailable"},
                     of : Samples \cup {NoResult}]
    /\ left \in BOOLEAN /\ regex \in Typed /\ drafts \in [Samples -> Typed]
    /\ timer \in BOOLEAN /\ evals \subseteq Evals /\ inFlight \in BOOLEAN
    /\ result \in Evals \cup {NoResult} /\ lastOk \in Evals \cup {NoResult}
    /\ banner \in BOOLEAN

(* A late answer never lands on another sample: what appears in the deobfuscation tab
   is of the sample that is looked at. (It stays there when the user moves on.)     *)
LandsOnItsSample ==
    [][shownRun' # shownRun /\ shownRun'.kind # "running" => shownRun'.of = sample]_tabsVars

(* The button comes back when the answer is there. What never comes back is that of a
   user who has gone to another sample meanwhile: nobody resets the state.          *)
ButtonComesBack == []<>(shownRun.kind # "running" \/ left)

(* When nothing is under way any more, the matches are those of the expression in the
   input on the sample that is shown, unless the service was not there. The spinner
   is shown until then, however many evaluations have been aborted before.          *)
MatchesOfInput ==
    /\ ~timer /\ evals = {} /\ ~banner =>
          result = IF regex = Empty THEN NoResult ELSE <<sample, regex>>
    /\ inFlight <=> evals # {}
================================================================================
