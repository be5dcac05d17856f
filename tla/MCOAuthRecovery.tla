-------------------------- MODULE MCOAuthRecovery --------------------------
EXTENDS OAuthRecovery, TLC

CONSTANTS chat, auxiliary, r1, r2

MCWrapper == {chat, auxiliary}
MCRequest == {r1, r2}
MCVia == r1 :> chat @@ r2 :> auxiliary
OneInstance == r1 :> chat @@ r2 :> chat
=============================================================================
