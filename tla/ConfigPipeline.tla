--------------------------- MODULE ConfigPipeline ---------------------------
(***************************************************************************)
(* config/pipeline: the retry policies of a connection strategy, the       *)
(* classification of the error of an attempt, and the runner of the        *)
(* processors that build the configuration of an attempt.                  *)
(*                                                                         *)
(* The loop over strategies and attempts is left to the hosts: these are   *)
(* the functions it is made of.                                            *)
(***************************************************************************)
EXTENDS Naturals, Sequences, FiniteSets

CONSTANTS
  ShiftWidth,       \* bits of the multiplier of a delay: 32
  DurationMax       \* the longest Duration

ASSUME PipelineAssumption ==
  /\ ShiftWidth \in Nat \ {0}
  /\ DurationMax \in Nat

----------------------------------------------------------------------------
(* strategy.rs.  A duration is a number of some unit.                      *)

NoRetry == [kind |-> "no_retry"]
Fixed(attempts, delay) == [kind |-> "fixed", max_attempts |-> attempts, delay |-> delay]
Exponential(attempts, initial, max) ==
  [kind |-> "exponential", max_attempts |-> attempts, initial_delay |-> initial, max_delay |-> max]

Least(a, b) == IF a <= b THEN a ELSE b

MaxAttempts(policy) ==
  IF policy.kind = "no_retry" \/ policy.max_attempts = 0 THEN 1 ELSE policy.max_attempts

\* One, shifted to the left.
Shifted(exponent) ==
  LET power[n \in 0 .. exponent] == IF n = 0 THEN 1 ELSE 2 * power[n - 1]
  IN power[exponent]

\* A slip: the shift wraps, as in a release build.
MultiplierWrapping(exponent) == Shifted(exponent % ShiftWidth)

\* 1u32.checked_shl, or u32::MAX.
Multiplier(exponent) ==
  IF exponent < ShiftWidth THEN Shifted(exponent) ELSE Shifted(ShiftWidth) - 1

\* Duration::checked_mul, or the cap.
Proposed(initial, multiplier, max) ==
  IF initial * multiplier <= DurationMax THEN initial * multiplier ELSE max

DelayFor(policy, attempt) ==
  IF attempt <= 1 \/ policy.kind = "no_retry" THEN 0
  ELSE IF policy.kind = "fixed" THEN policy.delay
  ELSE Least(Proposed(policy.initial_delay, Multiplier(attempt - 2), policy.max_delay),
             policy.max_delay)

\* What "exponential, capped" means: the delays never shrink and never pass the
\* cap, and each is the double of the one before or the cap.
Backoff(policy, attempt) ==
  LET this == DelayFor(policy, attempt)
      next == DelayFor(policy, attempt + 1)
  IN /\ this <= policy.max_delay
     /\ this <= next
     /\ attempt \in 2 .. ShiftWidth => (next = 2 * this \/ next = policy.max_delay)

----------------------------------------------------------------------------
(* error.rs.  The message of an error is the set of the phrases in it that *)
(* the classification knows.                                               *)

\* The phrases in the order in which they are looked for.
Phrases == <<"dns", "refused", "timed out", "tls", "unauthorized", "http", "tun">>
PhraseKinds == <<"DnsFailure", "TcpRefused", "TcpTimeout", "TlsHandshake", "AuthFailure",
                 "HttpError", "TunDevice">>

\* The variants of VpnError whose kind does not depend on the message.
ByVariant == [PrerequisiteMissing |-> "PrerequisiteMissing", PermissionDenied |-> "PermissionDenied",
              ValidationError |-> "Validation", InvalidConfiguration |-> "Validation"]

Matching(message) == {i \in DOMAIN Phrases : Phrases[i] \in message}

ClassifyError(variant, message) ==
  IF variant \in DOMAIN ByVariant THEN ByVariant[variant]
  ELSE IF Matching(message) # {}
  THEN PhraseKinds[CHOOSE i \in Matching(message) : \A j \in Matching(message) : i <= j]
  ELSE "Unknown"

----------------------------------------------------------------------------
(* pipeline.rs.  A configuration is the sequence of the processors that    *)
(* have rewritten it; a processor passes it on, rewrites it or fails.      *)

Processor(name, behaviour) == [name |-> name, behaviour |-> behaviour]

Process(processor, config) ==
  IF processor.behaviour = "passthrough" THEN config ELSE Append(config, processor.name)

Step(processor, config) ==
  [processor_name |-> processor.name, input |-> config, output |-> Process(processor, config)]

\* A slip: the step is reported before it is known to have succeeded.
StepsEager(processors, config) ==
  LET run[i \in 0 .. Len(processors)] ==
        IF i = 0 THEN [config |-> config, steps |-> <<>>, error |-> <<>>]
        ELSE LET before == run[i - 1]
             IN IF before.error # <<>> THEN before
                ELSE [config |-> Process(processors[i], before.config),
                      steps |-> Append(before.steps, Step(processors[i], before.config)),
                      error |-> IF processors[i].behaviour = "fails"
                                THEN <<processors[i].name>> ELSE <<>>]
  IN run[Len(processors)]

\* The loop of process_with: the configuration so far, the steps that were
\* reported, and the name of the processor that failed, if one did.
Steps(processors, config) ==
  LET run[i \in 0 .. Len(processors)] ==
        IF i = 0 THEN [config |-> config, steps |-> <<>>, error |-> <<>>]
        ELSE LET before == run[i - 1]
             IN IF before.error # <<>> THEN before
                ELSE IF processors[i].behaviour = "fails"
                THEN [before EXCEPT !.error = <<processors[i].name>>]
                ELSE [config |-> Process(processors[i], before.config),
                      steps |-> Append(before.steps, Step(processors[i], before.config)),
                      error |-> <<>>]
  IN run[Len(processors)]

ProcessWith(processors, config) ==
  LET end == Steps(processors, config)
  IN [ok |-> end.error = <<>>, config |-> end.config, steps |-> end.steps, error |-> end.error]

\* The names of the processors, in order.
Names(processors) == [i \in DOMAIN processors |-> processors[i].name]

\* Each step starts from what the one before it ended with.
Chained(steps, config) ==
  \A i \in DOMAIN steps :
     steps[i].input = IF i = 1 THEN config ELSE steps[i - 1].output

=============================================================================
