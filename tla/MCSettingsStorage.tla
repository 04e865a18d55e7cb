-------------------------- MODULE MCSettingsStorage --------------------------
(* The values with which TLC checks SettingsStorage.  Each mixture of what   *)
(* users and browsers do is there for one question.                          *)
EXTENDS SettingsStorage

Nothing == [d \in Disturbances |-> 0]

McMixes ==
    {\* requests that overtake each other, and messages meanwhile
     [Nothing EXCEPT !["request"] = 3, !["message"] = 1],
     \* two forms and two keys, with a refusal
     [Nothing EXCEPT !["request"] = 3, !["typed"] = 1, !["local refusal"] = 1],
     [Nothing EXCEPT !["request"] = 2, !["typed"] = 2, !["sync refusal"] = 1],
     \* a lost worker, or a popup that goes
     [Nothing EXCEPT !["request"] = 2, !["typed"] = 1, !["worker lost"] = 1, !["local refusal"] = 1],
     [Nothing EXCEPT !["request"] = 2, !["typed"] = 1, !["popup closed"] = 1, !["sync refusal"] = 1]}
==============================================================================
