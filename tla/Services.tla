------------------------------- MODULE Services -------------------------------
(***************************************************************************)
(* The services around the planner share no state with one another: a         *)
(* behaviour picks one of them and takes its steps.                          *)
(***************************************************************************)
EXTENDS MissionIntake, MissionDispatch, HumanReview, OrganDispatch, CrawlWalk,
        BrowserSession, CompletionRounds, ObdUplink, DualKeys

VARIABLE service

ServicesInit ==
    /\ service \in {"intake", "dispatch", "review", "organs", "crawl", "browser",
                  "completion", "uplink", "governance"}
    /\ IF service = "crawl" THEN TRUE ELSE web = [x \in Pages |-> <<>>]
    /\ IF service = "review" THEN TRUE ELSE proposal = [r \in Reviews |-> Build]
    /\ IntakeInit /\ DispatchInit /\ ReviewInit /\ OrgansInit /\ CrawlInit /\ BrowserInit
    /\ CompletionInit /\ UplinkInit /\ KeysInit

Others(own) ==
    /\ service = own
    /\ UNCHANGED service
    /\ own # "intake" => UNCHANGED intake
    /\ own # "dispatch" => UNCHANGED dispatch
    /\ own # "review" => UNCHANGED review
    /\ own # "organs" => UNCHANGED organs
    /\ own # "crawl" => UNCHANGED crawl
    /\ own # "browser" => UNCHANGED browser
    /\ own # "completion" => UNCHANGED completion
    /\ own # "uplink" => UNCHANGED uplink
    /\ own # "governance" => UNCHANGED governance

ServicesNext ==
    \/ Others("intake") /\ IntakeNext
    \/ Others("dispatch") /\ DispatchNext
    \/ Others("review") /\ ReviewNext
    \/ Others("organs") /\ OrgansNext
    \/ Others("crawl") /\ CrawlNext
    \/ Others("browser") /\ BrowserNext
    \/ Others("completion") /\ CompletionNext
    \/ Others("uplink") /\ UplinkNext
    \/ Others("governance") /\ KeysNext

ServicesVars == <<service, intake, dispatch, review, organs, crawl, browser,
                  completion, uplink, governance>>
ServicesSpec == ServicesInit /\ [][ServicesNext]_ServicesVars
==============================================================================
