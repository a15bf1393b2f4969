------------------------ MODULE MCBountyCampaign ------------------------
(***************************************************************************)
(* Instances of BountyCampaign for TLC.                                    *)
(***************************************************************************)
EXTENDS BountyCampaign, TLC

\* Requests that halt, run and resume the campaign.
Operations == {"pause", "stop", "resume", "step", "analyze", "start_job"}

=============================================================================
