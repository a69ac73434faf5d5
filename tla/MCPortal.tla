------------------------------- MODULE MCPortal -------------------------------
(* Two quotes and five policies: two that differ in a body only, one with an *)
(* `allow` that is undefined without evidence and a rule that one quote does *)
(* not speak to, one that fails on a quote, and one that does not load.      *)
EXTENDS Portal

CONSTANTS tdx, snp

MCQuotes ==
    {[name |-> tdx, platform |-> "Intel-TDX", level |-> 2, crypto |-> TRUE,
      debug_disabled |-> TRUE],
     [name |-> snp, platform |-> "AMD-SEV-SNP", level |-> 0, crypto |-> FALSE,
      debug_disabled |-> FALSE]}

Good == CHOOSE q \in MCQuotes : q.crypto
Bad == CHOOSE q \in MCQuotes : ~q.crypto

Rego(meta, empty, good, bad) ==
    [kind |-> "rego", meta |-> meta,
     document |-> [i \in {NoInput, Good, Bad} |->
                      CASE i = NoInput -> empty [] i = Good -> good [] OTHER -> bad]]

Titles == [deny_debug |-> [title |-> "debug", severity |-> "high"]]

Strict == Rego(Titles,
               [deny_debug |-> "no findings", allow |-> "false"],
               [deny_debug |-> "no findings", allow |-> "true"],
               [deny_debug |-> "findings", allow |-> "false"])

Edited == Rego(Titles,
               [deny_debug |-> "no findings", allow |-> "false"],
               [deny_debug |-> "no findings", allow |-> "true"],
               [deny_debug |-> "no findings", allow |-> "true"])

Partial == Rego(Titles,
                [deny_debug |-> "no findings", warn_tcb |-> "other"],
                [deny_debug |-> "no findings", allow |-> "true"],
                [warn_tcb |-> "no findings"])

Diverging == Rego(Titles, [deny_debug |-> "no findings"],
                  [deny_debug |-> "no findings"], PolicyError)

MCModules ==
    {Strict, Edited, Partial, Diverging,
     [kind |-> "yaml", meta |-> Titles, document |-> Strict.document]}

MCAnchors ==
    {None,
     [log_index |-> 0, log_id |-> "log", entry_uuid |-> "uuid",
      integrated_time |-> 0, body |-> "body", inclusion_proof |-> <<>>,
      checkpoint |-> "note"]}

MCSymmetry == Permutations(Runs)
=============================================================================
