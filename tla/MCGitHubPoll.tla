---------------------------- MODULE MCGitHubPoll ----------------------------
(* GitHubPoll for TLC.                                                     *)
EXTENDS GitHubPoll
=============================================================================
