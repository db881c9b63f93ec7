-------------------------- MODULE MCWorkerBootstrap --------------------------
(* Instance of Application for TLC: pages of two and four workflow names,   *)
(* so that a list may end within a page or on its edge, change under the    *)
(* reader and, with a limit of two pages, be cut short; applications with   *)
(* no feature, with two hosts of one name, with an unsound host, and with a *)
(* host registered by two features. The class of the configuration has a    *)
(* required variable and one with a default; an environment is refused as a *)
(* whole.                                                                   *)
EXTENDS Application

CONSTANTS w1, w2, w3, w4, h1, h2, twin, token, worker_name, off, bad

MCWorkflows == {w1, w2, w3, w4}
MCHosts == {h1, h2, twin}
MCNameOf == [h \in MCHosts |-> IF h = h2 THEN w2 ELSE w1]
MCApps ==
    {[features |-> <<>>, usable |-> {}],
     [features |-> <<<<h1>>, <<>>, <<h2, h1>>>>, usable |-> {h1, h2}],
     [features |-> <<<<h2, twin>>, <<h1>>>>, usable |-> MCHosts],
     [features |-> <<<<h1>>, <<h2>>>>, usable |-> {h1}]}
MCInitialServers == {<<>>, <<w3, w1>>, <<w4, w3, w2, w1>>, <<w4, w3, w1>>}

MCVariables == <<[name |-> token, default |-> Unset, accepts |-> {On, off}],
                 [name |-> worker_name, default |-> On, accepts |-> {On, off}]>>
MCEnvironments ==
    {[v \in {token, worker_name} |-> IF v = token THEN t ELSE w] :
        t \in {On, Unset, bad}, w \in {Unset, bad, off}}
MCRefusedAsAWhole == {[v \in {token, worker_name} |-> off]}
MCProviders == {Root, Hatchet}
=============================================================================
