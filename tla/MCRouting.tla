------------------------------- MODULE MCRouting -------------------------------
(* Instances of Routing for TLC: one credential from a file, one from the      *)
(* configuration, of different providers.                                     *)
EXTENDS Routing

CONSTANTS file, config, m, n, pa, pb

MCFileSelector == [source |-> AuthFiles, provider |-> pa]
MCConfigSelector == [source |-> AIProviders, provider |-> pb]
MCSelectorOf == [c \in Credentials |-> IF c = file THEN MCFileSelector ELSE MCConfigSelector]

MCRules == {EmptyRule,
            [allow |-> {file, m}, deny |-> {}],
            [allow |-> {MCConfigSelector}, deny |-> {file}],
            [allow |-> {}, deny |-> {MCFileSelector, m}]}
MCHiding(c, source, provider) == [ref |-> c, source |-> source, provider |-> provider]
MCOffers == {{FullCandidate(file), FullCandidate(config)},
             {MCHiding(file, Hidden, pa), FullCandidate(config)},
             {MCHiding(file, AuthFiles, Hidden)}}
MCPools == {[allow |-> {config}, deny |-> {}]}

=============================================================================
