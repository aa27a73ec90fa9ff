---------------------------- MODULE MCActionRun ----------------------------
(* Families of inputs for ActionRun.  Each varies the inputs one question  *)
(* depends on and fixes the others.                                        *)
EXTENDS ActionRun

Base == [milestones |-> {}, milestone |-> "none", failOnSkip |-> FALSE, inputsOk |-> TRUE,
         onIssue |-> TRUE, wait |-> FALSE, budget |-> TRUE, useFriendbot |-> FALSE,
         testnet |-> TRUE, friendbotAllowed |-> TRUE, home |-> FALSE, strict |-> FALSE,
         domain |-> "right", tomlFetch |-> FALSE, pin |-> FALSE, extraAssets |-> FALSE,
         batch |-> "none", post |-> TRUE, sticky |-> TRUE,
         mode |-> "unset", unassign |-> TRUE, failOnMissing |-> TRUE]

\* Every combination of the gates on the verdict; a pin needs stellar.toml.
GateConfigs ==
    {c \in {[Base EXCEPT !.home = TRUE, !.strict = s, !.domain = d, !.tomlFetch = t, !.pin = p,
                         !.extraAssets = x, !.useFriendbot = f, !.post = FALSE] :
               s \in BOOLEAN, d \in {"right", "wrong", "unset"}, t \in BOOLEAN,
               p \in BOOLEAN, x \in BOOLEAN, f \in BOOLEAN} : c.pin => c.tomlFetch}
    \cup {[Base EXCEPT !.extraAssets = TRUE, !.useFriendbot = f, !.post = FALSE] : f \in BOOLEAN}

\* How a run starts and ends.
StartConfigs ==
    {[Base EXCEPT !.milestones = {"m1"}, !.milestone = n, !.failOnSkip = k, !.post = FALSE] :
        n \in {"none", "m1", "m2"}, k \in BOOLEAN}
    \cup {[Base EXCEPT !.inputsOk = i, !.batch = b, !.failOnMissing = m, !.post = FALSE] :
             i \in BOOLEAN, b \in {"none", "malformed"}, m \in BOOLEAN}

\* How a run waits, recovers and fails.
WaitConfigs ==
    {[Base EXCEPT !.wait = w, !.useFriendbot = f, !.testnet = t, !.friendbotAllowed = a,
                  !.budget = b, !.post = FALSE] :
        w \in BOOLEAN, f \in BOOLEAN, t \in BOOLEAN, a \in BOOLEAN, b \in BOOLEAN}

\* What is posted, and to whom.
PostConfigs ==
    {[Base EXCEPT !.batch = b, !.post = p, !.onIssue = o, !.sticky = s, !.mode = m] :
        b \in {"none", "listed"}, p \in BOOLEAN, o \in BOOLEAN, s \in BOOLEAN,
        m \in {"unset", "sticky", "new"}}
    \cup {[Base EXCEPT !.unassign = FALSE]}

RunConfigs == GateConfigs \cup StartConfigs \cup WaitConfigs \cup PostConfigs

FriendbotConfigs == {[Base EXCEPT !.useFriendbot = TRUE, !.extraAssets = x] : x \in BOOLEAN}
=============================================================================
