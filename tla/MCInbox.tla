---- MODULE MCInbox ----
EXTENDS Inbox

\* Two turns that yield, and a resumption that names neither.
Unclear == <<"text", "text", "resumption">>

\* What one after the other may be sent: a turn that yields and its resumption
\* beside a press; a turn, a command and what is not for the bot.
Mixed == {<<"text", "resumption", "press">>, <<"text", "control", "refused">>, Unclear}
Few == {Unclear}

\* A command behind a text, and another text or command.
Behind == {<<"text", "text", "control">>, <<"text", "control", "control">>}
====
