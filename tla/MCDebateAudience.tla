-------------------------- MODULE MCDebateAudience --------------------------
(***************************************************************************)
(* A debate as its debaters see it (DebateSession), as its human audience  *)
(* sees it (DebateFeed) and as the list of archives sees it (ArchiveIndex),*)
(* side by side: `part` chooses one at the start and only that one moves,  *)
(* so the run checks the three as three runs would.                        *)
(***************************************************************************)
EXTENDS DebateSession

CONSTANTS
  Debaters, Nobody, Preset, ReplayLimit, MaxTurns, MaxBreaks, MaxArchives, MaxWire,
                                                                            (* DebateFeed   *)
  MaxVersions, MaxNodes                                                     (* ArchiveIndex *)

ASSUME FeedAssumption ==
  /\ ReplayLimit \in Nat /\ Debaters # {}
  /\ Preset \in Seq(Debaters) /\ \A d \in Debaters : \E i \in DOMAIN Preset : Preset[i] = d
  /\ \A i, j \in DOMAIN Preset : Preset[i] = Preset[j] => i = j
  /\ MaxTurns \in Nat /\ MaxTurns % Len(Preset) = 0
ASSUME IndexAssumption == MaxVersions \in Nat /\ MaxNodes \in Nat

VARIABLES
  part,
  hub, remote, emitted, wire, log, run, stream, card, archived, breaks, published, since,
  numbered, dir, node, used, writer, version, scan, reader, entry, inPlace

feedVars == <<hub, remote, emitted, wire, log, run, stream, card, archived, breaks, published, since>>
indexVars == <<numbered, dir, node, used, writer, version, scan, reader, entry, inPlace>>
allVars == <<part, vars, feedVars, indexVars>>

MCPreset == <<0, 1>>

Feed == INSTANCE DebateFeed
Index == INSTANCE ArchiveIndex

MCInit ==
  /\ part \in {"session", "feed", "index"}
  /\ Init /\ Feed!Init /\ Index!Init
  /\ part # "feed" => remote = FALSE
  /\ part # "index" => numbered = FALSE

MCNext ==
  \/ part = "session" /\ SessionNext /\ UNCHANGED <<part, feedVars, indexVars>>
  \/ part = "feed"    /\ Feed!Next   /\ UNCHANGED <<part, vars, indexVars>>
  \/ part = "index"   /\ Index!Next  /\ UNCHANGED <<part, vars, feedVars>>

(* The fairness of SessionSpec and of DebateFeed's LiveSpec, each for the  *)
(* behaviours of its own part.                                             *)
InSession == part = "session"
InFeed == part = "feed"

MCSpec ==
  /\ MCInit /\ [][MCNext]_allVars
  /\ \A c \in Clients : WF_vars(InSession /\ Serve(c)) /\ WF_vars(InSession /\ WaitTimeout(c))
  /\ WF_vars(InSession /\ ArchiveStep) /\ WF_vars(InSession /\ InitTask) /\ WF_vars(InSession /\ Starts)
  /\ \A a \in Agents : WF_vars(InSession /\ Debater(a))
  /\ WF_feedVars(InFeed /\ Feed!Subscribe) /\ WF_feedVars(InFeed /\ Feed!Receive) /\ WF_feedVars(InFeed /\ Feed!LoadVerdict)
  /\ WF_feedVars(InFeed /\ Feed!CloseTask)

(* DebateSession's property, of its part.                                  *)
DebatersAreDismissed == part = "session" => EveryDebaterIsDismissed

(* DebateFeed's properties, of its part.                                   *)
FeedAndRunAgree      == part = "feed" => Feed!FeedIsGapless /\ Feed!RunFollowsDebate
TranscriptIsTheDebate == part = "feed" => Feed!NoTurnTwice /\ Feed!TranscriptIsTheDebate
CardSeesTheEnd       == part = "feed" => Feed!CardSeesTheEnd

(* ArchiveIndex's property, of its part.                                   *)
SummaryWasInPlace    == part = "index" => Index!SummaryWasInPlace
=============================================================================
