----------------------------- MODULE ConfigFile -----------------------------
(***************************************************************************)
(* /etc/bandwidth/config.yaml and its two writers: the daemon, which loads *)
(* and validates it, and saves it again when it has made an API token; and *)
(* the wizard of `bandwidth configure`, which edits it line by line.       *)
(*                                                                         *)
(* A document is a sequence of lines; comments and blank lines are left    *)
(* out, and so are the keys that are handled like one of those here.  A    *)
(* key is named by its path, a value is a string.                          *)
(***************************************************************************)
EXTENDS Sequences, FiniteSetsExt

CONSTANTS
  Documents,   \* files of an installation
  Given,       \* values in them that none of the other constants has
  Rates,       \* what a user may type for the rate
  Refused,     \* the rates that do not parse, or that Validate refuses
  Zones,       \* what a user may type for the timezone
  Urls,        \* what a user may type for the webhook
  Tokens       \* what generateToken may return; bounds how often it does

Rate == <<"bandwidth", "default_rx_mbps">>
Zone == <<"timezone">>
Alerts == <<"webhook", "enabled">>
Url == <<"webhook", "endpoints", "url">>
Endpoint == <<"webhook", "endpoints", "enabled">>
Api == <<"api", "enabled">>
Token == <<"api", "auth_token">>
Paths == {Rate, Zone, Alerts, Url, Endpoint, Api, Token}

Default == [path \in Paths |->
              CASE path = Rate -> "100"
                [] path = Zone -> "Asia/Kolkata"
                [] path \in {Url, Token} -> ""
                [] OTHER -> "false"]

Values == {"", "true", "false", Default[Rate], Default[Zone]}
          \cup Given \cup Rates \cup Zones \cup Urls \cup Tokens

Line(depth, key, value) == [depth |-> depth, key |-> key, value |-> value]
Lines == [depth : 0..2, key : UNION {{path[i] : i \in DOMAIN path} : path \in Paths},
          value : Values]
Empty == <<>>   \* a file that was opened for writing, and not written

ASSUME ConfigAssumption ==
  /\ Documents \subseteq Seq(Lines) \ {Empty}
  /\ Refused \subseteq Rates
  /\ "" \notin Rates \cup Zones \cup Urls \cup Tokens

VARIABLES
  file,      \* the document on disk
  service,   \* the unit bandwidth.service
  read,      \* the document its process has loaded, until New is done
  cfg,       \* *config.Config, until New is done
  token,     \* cfg.API.AuthToken of the process, or of the last one
  issued,    \* tokens generated
  stage,     \* what the wizard waits for
  asked,     \* prompts answered
  base,      \* the document the wizard has read
  draft,     \* cfgStr
  answered,  \* what the user typed; "" for keep
  meant      \* history: the settings by the completed writes, or Unknown
             \* from when writers overlapped or a write was cut short

daemon == <<service, read, cfg, token, issued>>
wizard == <<stage, asked, base, draft, answered>>
vars == <<file, daemon, wizard, meant>>

Services == {"down", "new", "saving", "up", "failed"}
Stages == {"away", "prompt", "alerts", "url", "api", "save", "writing", "saved"}
Prompts == <<Rate, Zone>>
Unknown == <<>>
Kept == [path \in Paths |-> ""]

TypeOK ==
  /\ {file, read, base, draft} \subseteq Seq(Lines)
  /\ service \in Services /\ stage \in Stages
  /\ cfg \in [Paths -> Values] /\ meant \in [Paths -> Values] \cup {Unknown}
  /\ answered \in [Paths -> Values]
  /\ token \in Values /\ issued \subseteq Tokens
  /\ asked \in 0..Len(Prompts) /\ (stage = "prompt" => asked < Len(Prompts))

-----------------------------------------------------------------------------
(* Loading: what YAML makes of a document.                                 *)

\* The last line at or before i that is at most depth deep.
Above(doc, i, depth) == doc[Max({j \in 1..i : doc[j].depth <= depth})]

PathOf(doc, i) == [n \in 1..doc[i].depth + 1 |-> Above(doc, i, n - 1).key]

Held(doc, path) == {i \in DOMAIN doc : doc[i].key = path[Len(path)] /\ PathOf(doc, i) = path}

Load(doc) ==
  [path \in Paths |->
     IF Held(doc, path) = {} THEN Default[path] ELSE doc[Min(Held(doc, path))].value]

Validate(config) == config[Rate] \notin Refused /\ config[Zone] # ""

\* Save writes every field of the struct, in its order.
Marshal(config) ==
  <<Line(0, "bandwidth", ""), Line(1, Rate[2], config[Rate]),
    Line(0, "webhook", ""), Line(1, Alerts[2], config[Alerts]), Line(1, "endpoints", "")>>
  \o (IF config[Url] = "" THEN <<>>
      ELSE <<Line(2, Url[3], config[Url]), Line(2, Endpoint[3], config[Endpoint])>>)
  \o <<Line(0, "api", ""), Line(1, Api[2], config[Api]), Line(1, Token[2], config[Token]),
       Line(0, Zone[1], config[Zone])>>

-----------------------------------------------------------------------------
(* Editing: the wizard does not parse, it looks for a line.                *)

Section(doc, i) == Above(doc, i, 0).key

\* Any depth below the section is as good as another; a path of three parts
\* is found nowhere.
Hits(doc, path) ==
  {i \in DOMAIN doc :
     \/ Len(path) = 1 /\ doc[i].depth = 0 /\ doc[i].key = path[1]
     \/ /\ Len(path) = 2 /\ doc[i].depth > 0
        /\ Section(doc, i) = path[1] /\ doc[i].key = path[2]}

\* Mutant: the key alone, in whatever section.
ReplaceAnywhere(doc, path, value) ==
  LET named == {i \in DOMAIN doc : Len(path) \in 1..2 /\ doc[i].key = path[Len(path)]}
  IN  IF named = {} THEN doc ELSE [doc EXCEPT ![Min(named)].value = value]

\* replaceYAMLValue: the first hit; without one the document as it is.
Replace(doc, path, value) ==
  IF Hits(doc, path) = {} THEN doc
  ELSE [doc EXCEPT ![Min(Hits(doc, path))].value = value]

\* Mutant: another default in the prompt than in DefaultConfig.
ShownBlank(doc, path) ==
  IF Hits(doc, path) = {} THEN "" ELSE doc[Min(Hits(doc, path))].value

\* extractYAMLValue, and the default of the prompt.
Shown(doc, path) ==
  LET found == IF Hits(doc, path) = {} THEN "" ELSE doc[Min(Hits(doc, path))].value
  IN  IF found = "" THEN Default[path] ELSE found

\* Configure returns.
Leaves ==
  /\ stage' = "away" /\ asked' = 0
  /\ base' = Empty /\ draft' = Empty /\ answered' = Kept

\* The settings are what they were, unless something went wrong.
MeantUnless(wrong) == meant' = IF wrong THEN Unknown ELSE meant

Edited(path, value) ==
  /\ draft' = Replace(draft, path, value)
  /\ answered' = [answered EXCEPT ![path] = value]

Init ==
  /\ file \in Documents
  /\ service = "down" /\ read = Empty /\ cfg = Default /\ token = "" /\ issued = {}
  /\ stage = "away" /\ asked = 0 /\ base = Empty /\ draft = Empty
  /\ answered = Kept
  /\ meant = Load(file)

-----------------------------------------------------------------------------
(* The daemon.                                                             *)

\* main: Load and Validate.
Start ==
  /\ service = "down"
  /\ Validate(Load(file))
  /\ service' = "new" /\ read' = file /\ cfg' = Load(file)
  /\ token' = cfg'[Token]
  /\ MeantUnless(file = Empty)
  /\ UNCHANGED <<file, issued, wizard>>

\* main exits, and after a few attempts systemd makes no more.
StartRefused ==
  /\ service = "down"
  /\ ~Validate(Load(file))
  /\ service' = "failed"
  /\ UNCHANGED <<file, read, cfg, token, issued, wizard, meant>>

WantsToken == cfg[Api] = "true" /\ cfg[Token] = ""

\* Mutant: a failing Save is returned as an error.
NewFatal ==
  /\ service = "new"
  /\ \/ /\ service' = "up"
        /\ cfg' = Default
        /\ UNCHANGED <<file, token, issued, meant>>
     \/ /\ WantsToken
        /\ token' \in Tokens \ issued
        /\ issued' = issued \cup {token'}
        /\ \/ service' = "failed" /\ cfg' = Default /\ UNCHANGED <<file, meant>>
           \/ /\ service' = "saving" /\ file' = Empty
              /\ cfg' = [cfg EXCEPT ![Token] = token']
              /\ MeantUnless(file # read)
  /\ read' = Empty
  /\ UNCHANGED wizard

\* daemon.New.  The first case is no need of a token, or that generateToken
\* fails; Save may fail too.  WriteFile empties the file before it writes.
New ==
  /\ service = "new"
  /\ \/ /\ service' = "up"
        /\ cfg' = Default
        /\ UNCHANGED <<file, token, issued, meant>>
     \/ /\ WantsToken
        /\ token' \in Tokens \ issued
        /\ issued' = issued \cup {token'}
        /\ \/ service' = "up" /\ cfg' = Default /\ UNCHANGED <<file, meant>>
           \/ /\ service' = "saving" /\ file' = Empty
              /\ cfg' = [cfg EXCEPT ![Token] = token']
              /\ MeantUnless(file # read)
  /\ read' = Empty
  /\ UNCHANGED wizard

\* The rest of Save; when the disk is full the file stays empty.
Save ==
  /\ service = "saving"
  /\ service' = "up" /\ cfg' = Default
  /\ \/ /\ file' = Marshal(cfg)
        /\ meant' = IF meant = Unknown THEN meant ELSE [meant EXCEPT ![Token] = token]
     \/ UNCHANGED file /\ MeantUnless(TRUE)
  /\ UNCHANGED <<read, token, issued, wizard>>

Stopped ==
  /\ service' = "down" /\ read' = Empty /\ cfg' = Default
  /\ MeantUnless(service = "saving")

\* The process is stopped or dies, also before it handles signals.
Crash ==
  /\ service \in {"new", "saving", "up"}
  /\ Stopped
  /\ UNCHANGED <<file, token, issued, wizard>>

-----------------------------------------------------------------------------
(* The wizard: Configure.                                                  *)

Begin ==
  /\ stage = "away"
  /\ stage' = "prompt" /\ asked' = 0
  /\ base' = file /\ draft' = file
  /\ answered' = Kept
  /\ MeantUnless(file = Empty)
  /\ UNCHANGED <<file, daemon>>

Inputs(path) == IF path = Rate THEN Rates ELSE Zones

\* Mutant: one turn too many.
PromptAgain ==
  /\ stage = "prompt"
  /\ \/ UNCHANGED <<draft, answered>>
     \/ \E input \in Inputs(Prompts[asked + 1]) : Edited(Prompts[asked + 1], input)
  /\ asked' = asked + 1
  /\ stage' = IF asked' > Len(Prompts) THEN "alerts" ELSE "prompt"
  /\ UNCHANGED <<file, daemon, base, meant>>

\* One turn of the loop over the prompts.
Prompt ==
  /\ stage = "prompt"
  /\ \/ UNCHANGED <<draft, answered>>
     \/ \E input \in Inputs(Prompts[asked + 1]) : Edited(Prompts[asked + 1], input)
  /\ asked' = asked + 1
  /\ stage' = IF asked' = Len(Prompts) THEN "alerts" ELSE "prompt"
  /\ UNCHANGED <<file, daemon, base, meant>>

\* None, which is the default, or console; Discord, or both; or no number.
AlertChoice ==
  /\ stage = "alerts"
  /\ \/ Edited(Alerts, "false") /\ stage' = "api"
     \/ Edited(Alerts, "true") /\ stage' = "url"
     \/ UNCHANGED <<draft, answered>> /\ stage' = "api"
  /\ UNCHANGED <<file, daemon, asked, base, meant>>

WebhookUrl ==
  /\ stage = "url"
  /\ stage' = "api"
  /\ \/ UNCHANGED <<draft, answered>>
     \/ \E url \in Urls :
          /\ draft' = Replace(Replace(draft, Url, url), Alerts, "true")
          /\ answered' = [answered EXCEPT ![Url] = url, ![Alerts] = "true"]
  /\ UNCHANGED <<file, daemon, asked, base, meant>>

\* The choice about the metrics is the same for another key.
ApiChoice ==
  /\ stage = "api"
  /\ stage' = "save"
  /\ \E yes \in {"true", "false"} : Edited(Api, yes)
  /\ UNCHANGED <<file, daemon, asked, base, meant>>

\* No, or WriteFile cannot open the file; or it has, and emptied it.
SaveChoice ==
  /\ stage = "save"
  /\ \/ Leaves /\ UNCHANGED <<file, meant>>
     \/ /\ stage' = "writing" /\ file' = Empty
        /\ MeantUnless(file # base)
        /\ UNCHANGED <<asked, base, draft, answered>>
  /\ UNCHANGED daemon

WriteDraft ==
  /\ stage = "writing"
  /\ \/ /\ stage' = "saved" /\ file' = draft
        /\ meant' = IF meant = Unknown THEN meant
                    ELSE [path \in Paths |-> IF answered[path] = "" THEN meant[path]
                                             ELSE answered[path]]
        /\ UNCHANGED <<asked, base, draft, answered>>
     \/ Leaves /\ MeantUnless(TRUE) /\ UNCHANGED file
  /\ UNCHANGED daemon

\* systemctl restart; Reapply changes no file.
Restart ==
  /\ stage = "saved"
  /\ Leaves
  /\ Stopped
  /\ UNCHANGED <<file, token, issued>>

\* The terminal is closed.
Quit ==
  /\ stage # "away"
  /\ Leaves
  /\ MeantUnless(stage = "writing")
  /\ UNCHANGED <<file, daemon>>

DaemonStep == Start \/ StartRefused \/ New \/ Save

Next ==
  \/ DaemonStep \/ Crash
  \/ Begin \/ Prompt \/ AlertChoice \/ WebhookUrl \/ ApiChoice
  \/ SaveChoice \/ WriteDraft \/ Restart \/ Quit

Spec == Init /\ [][Next]_vars

\* Restart=always, and a start is not interrupted every time.  Nobody has
\* to run the wizard, or to answer it.
FairSpec == Spec /\ WF_vars(Start) /\ SF_vars(New) /\ SF_vars(Save)

-----------------------------------------------------------------------------
(* What the theorems assume of the files of an installation.               *)

\* The settings that the wizard looks for.
Editable == {Rate, Zone, Alerts, Api}

\* Settings that survive Marshal: a rate and a timezone, and no endpoint
\* without a URL.
Sound(config) ==
  /\ config \in [Paths -> Values]
  /\ config[Rate] # "" /\ config[Zone] # ""
  /\ config[Url] = "" => config[Endpoint] = Default[Endpoint]

\* Documents in which the line that the wizard finds for a setting is the one
\* that YAML gives to it.
Plain(doc) ==
  /\ doc \in Seq(Lines) \ {Empty}
  /\ doc[1].depth = 0
  /\ \A path \in Editable : /\ Hits(doc, path) # {} /\ Held(doc, path) # {}
                            /\ Min(Hits(doc, path)) = Min(Held(doc, path))
  /\ Sound(Load(doc))

\* The file that the repository ships is plain; one written by hand need not be.
Straight == \A doc \in Documents : Plain(doc)

-----------------------------------------------------------------------------
(* Properties.                                                             *)

\* What a prompt shows as the current value is what the daemon would have
\* with the document as edited so far, although the wizard does not parse.
ShownIsInForce ==
  stage = "prompt" =>
    LET path == Prompts[asked + 1] IN Shown(draft, path) = Load(draft)[path]

\* As long as no two writers overlap and no write is cut short, every start
\* of the daemon has the settings of the installation with all answers of
\* all wizards and the last token saved, and no other change.
StartsAsMeant ==
  [][service = "down" /\ service' = "new" /\ meant' # Unknown => cfg' = meant]_vars

\* With a document that is valid the service comes up, although New may
\* fail to save, and whatever the wizard does meanwhile.
ValidFileStarts ==
  service = "down" /\ Validate(Load(file)) ~> service = "up" \/ ~Validate(Load(file))

-----------------------------------------------------------------------------
(* What comments and documents say and the code does not do.               *)

\* daemon.go "Persist the token to config file so it survives restarts": a
\* start has the token that the last process made, while the API is on.
TokenSurvives ==
  [][service = "down" /\ service' = "new" /\ token # "" /\ cfg'[Api] = "true"
       => cfg'[Token] = token]_vars

\* README.md "Validates all configuration before applying": a file that the
\* wizard has saved is one that the daemon accepts.
SavedIsValid == stage = "saved" => Validate(Load(draft))
=============================================================================
