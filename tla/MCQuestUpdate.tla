--------------------------- MODULE MCQuestUpdate ---------------------------
EXTENDS QuestUpdate
=============================================================================
